------------------------- MODULE QemuSupportProofs -------------------------
(***************************************************************************)
(* Proofs about QemuSupport for any processes, VMs, images and files, when *)
(* commands run one after the other, are not interrupted and can write the *)
(* stamp.  Podman may refuse to remove a temporary container or lose the   *)
(* answer to its creation (TempFaults).  KeptBinaryIsRight fails for       *)
(* commands that overlap (see the run qemu_race).                          *)
(***************************************************************************)
EXTENDS QemuSupport, TLAPS

\* The circumstances under which the invariant holds.
Quiet == ~Concurrent /\ ~Kills /\ ~StampFaults

\* Nothing exists at first, and every process is idle.
LEMMA InitInv == Init => SupportInv
  <1> SUFFICES ASSUME Init PROVE SupportInv
    OBVIOUS
  <1>1. NoTempLeft /\ litter \in BOOLEAN
    BY Zenon DEF Init, NoTempLeft
  <1>2. TypeOK
    BY <1>1 DEF Init, TypeOK, Paths, Labels
  <1>3. /\ Serial /\ FilesReady /\ BinaryState /\ StampTrue /\ OwnImage
        /\ MountedIntact
    BY NoneAssumption
    DEF Init, Serial, FilesReady, BinaryState, StampTrue, OwnImage, MountedIntact,
        Ensuring, Extracting
  <1> QED BY <1>1, <1>2, <1>3 DEF SupportInv

\* The steps that neither create nor remove a temporary container: those that
\* have one are still on their way to its removal.
LEMMA TempsKept ==
  ASSUME SupportInv, UNCHANGED temps,
         \A p \in owned : pc'[p] \in {"archive", "open", "copy", "mark",
                                      "clean_ok", "clean_err"}
  PROVE  NoTempLeft'
  <1>1. owned' = owned /\ litter' = litter
    BY DEF temps
  <1>2. litter => TempFaults \/ Kills
    BY DEF SupportInv, NoTempLeft
  <1>3. litter' => TempFaults \/ Kills
    BY <1>1, <1>2, Zenon
  <1> QED BY <1>1, <1>3 DEF NoTempLeft

\* While one process runs a command, the others are idle.
LEMMA OthersIdle ==
  ASSUME SupportInv, NEW p \in Procs, pc[p] # "idle"
  PROVE  \A q \in Procs \ {p} : pc[q] = "idle"
  BY DEF SupportInv, Serial

\* A step of the only active process moves that process alone.
LEMMA GotoAlone ==
  ASSUME SupportInv, NEW p \in Procs, NEW l \in Labels, Goto(p, l),
         \A q \in Procs \ {p} : pc[q] = "idle"
  PROVE  /\ pc' \in [Procs -> Labels]
         /\ pc'[p] = l
         /\ \A q \in Procs \ {p} : pc'[q] = "idle"
         /\ Serial'
  <1>1. pc \in [Procs -> Labels]
    BY DEF SupportInv, TypeOK
  <1>2. \A q \in Procs : pc'[q] = IF q = p THEN l ELSE pc[q]
    BY <1>1 DEF Goto
  <1>3. pc' \in [Procs -> Labels]
    BY <1>1 DEF Goto
  <1> QED BY <1>2, <1>3 DEF Serial

\* A command begins when no other runs.
LEMMA BeginInv ==
  ASSUME SupportInv, Quiet, NEW p \in Procs,
         BeginCreate(p) \/ BeginStart(p) \/ BeginCleanCache(p)
  PROVE  SupportInv'
  <1>1. \A q \in Procs : pc[q] = "idle"
    BY DEF BeginCreate, BeginStart, BeginCleanCache, MayBegin, Quiet, At
  <1>2. PICK l \in {"dirs", "clean"} : Goto(p, l)
    BY DEF BeginCreate, BeginStart, BeginCleanCache
  <1>3. /\ pc' \in [Procs -> Labels] /\ pc'[p] = l
        /\ (\A q \in Procs \ {p} : pc'[q] = "idle") /\ Serial'
    <2>1. l \in Labels
      BY DEF Labels
    <2> QED BY <1>1, <1>2, <2>1, GotoAlone
  <1>4. UNCHANGED <<disk, fd, temps, ctrs>>
    BY DEF BeginCreate, BeginStart, BeginCleanCache
  <1>5. TypeOK'
    <2>1. /\ cmd' \in [Procs -> {"create", "start"}] /\ vm' \in [Procs -> VMs]
          /\ img' \in [Procs -> Images] /\ debug' \in [Procs -> BOOLEAN]
          /\ present' \in [Procs -> SUBSET {"caps", "support", "logs"}]
      <3>1. CASE BeginCreate(p)
        BY <3>1 DEF SupportInv, TypeOK, BeginCreate
      <3>2. CASE BeginStart(p)
        BY <3>2 DEF SupportInv, TypeOK, BeginStart
      <3>3. CASE BeginCleanCache(p)
        BY <3>3 DEF SupportInv, TypeOK, BeginCleanCache, locals, request
      <3> QED BY <3>1, <3>2, <3>3
    <2> QED BY <1>3, <1>4, <2>1 DEF SupportInv, TypeOK, disk, ctrs, temps
  <1>6. owned = {}
    BY <1>1 DEF SupportInv, TypeOK, NoTempLeft, Extracting
  <1>7. FilesReady' /\ BinaryState' /\ NoTempLeft'
    <2>1. FilesReady' /\ BinaryState'
      BY <1>1, <1>3, <1>4 DEF SupportInv, TypeOK, FilesReady, BinaryState,
         Ensuring, Extracting, disk, ctrs
    <2> QED BY <1>4, <1>6, <2>1, TempsKept
  <1>8. StampTrue' /\ MountedIntact'
    BY <1>1, <1>4 DEF SupportInv, StampTrue, MountedIntact, Good, disk, ctrs
  <1>9. OwnImage'
    <2>1. image' = image
      BY <1>4 DEF ctrs
    <2>2. CASE BeginCreate(p)
      <3>1. cmd'[p] = "create" /\ pc'[p] = "dirs"
        BY <2>2 DEF BeginCreate, Goto, SupportInv, TypeOK
      <3> QED BY <1>3, <3>1 DEF OwnImage, Ensuring, Extracting
    <2>3. CASE BeginStart(p)
      <3>1. pc'[p] = "dirs" /\ image[vm'[p]] = img'[p]
        BY <2>3 DEF BeginStart, Goto, SupportInv, TypeOK
      <3> QED BY <1>3, <2>1, <3>1 DEF OwnImage, Ensuring, Extracting
    <2>4. CASE BeginCleanCache(p)
      <3>1. pc'[p] = "clean"
        BY <2>4 DEF BeginCleanCache, Goto, SupportInv, TypeOK
      <3> QED BY <1>3, <3>1 DEF OwnImage, Ensuring, Extracting
    <2> QED BY <2>2, <2>3, <2>4
  <1> QED BY <1>3, <1>5, <1>7, <1>8, <1>9 DEF SupportInv

\* A step of the active process that leaves the binary, its stamp and the
\* containers alone: writeQemuSupport, libvirtLogsDir, a look at the stamp or
\* at the archive.
LEMMA PrepareInv ==
  ASSUME SupportInv, NEW p \in Procs,
         MakeDirs(p) \/ WriteSupportFile(p) \/ MakeLogsDir(p)
  PROVE  SupportInv'
  <1>1. /\ pc[p] \in {"dirs", "wrapper", "conf", "logs"}
        /\ \/ files' \in SUBSET Paths /\ files \subseteq files' /\ Goto(p, "idle")
           \/ /\ pc[p] = "dirs" /\ Goto(p, "wrapper")
              /\ files' = files \cup {"support", "caps"}
           \/ pc[p] = "wrapper" /\ Goto(p, "conf") /\ files' = files \cup {"wrapper"}
           \/ pc[p] = "conf" /\ Goto(p, "logs") /\ files' = files \cup {"conf"}
           \/ pc[p] = "logs" /\ Goto(p, "stamp") /\ files' = files \cup {"logs"}
    BY DEF MakeDirs, WriteSupportFile, MakeLogsDir, Fail, At, SupportInv, TypeOK,
           Paths
  <1>2. PICK l \in {"idle", "wrapper", "conf", "logs", "stamp"} : Goto(p, l)
    BY <1>1
  <1>3. /\ pc' \in [Procs -> Labels] /\ pc'[p] = l
        /\ (\A q \in Procs \ {p} : pc[q] = "idle" /\ pc'[q] = "idle") /\ Serial'
    <2>1. l \in Labels
      BY DEF Labels
    <2> QED BY <1>1, <1>2, <2>1, GotoAlone, OthersIdle
  <1>4. UNCHANGED <<stamp, bin, from, last, whole, locals, fd, temps, ctrs>>
    BY DEF MakeDirs, WriteSupportFile, MakeLogsDir
  <1>5. TypeOK'
    <2>1. files' \in SUBSET Paths
      BY <1>1 DEF SupportInv, TypeOK, Paths
    <2> QED BY <1>3, <1>4, <2>1 DEF SupportInv, TypeOK, locals, request, ctrs, temps
  <1>6. FilesReady'
    <2>1. pc' = [pc EXCEPT ![p] = l]
      BY <1>2 DEF Goto
    <2> QED BY <1>1, <1>3 DEF FilesReady, SupportInv, Ensuring, Extracting, Goto, TypeOK
  <1>7. BinaryState' /\ NoTempLeft'
    <2>1. BinaryState'
      BY <1>1, <1>3, <1>4 DEF SupportInv, TypeOK, BinaryState
    <2>2. owned = {}
      BY <1>1, <1>3 DEF SupportInv, TypeOK, NoTempLeft
    <2> QED BY <1>4, <2>1, <2>2, TempsKept
  <1>8. StampTrue' /\ MountedIntact'
    BY <1>1, <1>3, <1>4 DEF SupportInv, StampTrue, MountedIntact, Good, ctrs
  <1>9. OwnImage'
    BY <1>1, <1>3, <1>4 DEF SupportInv, OwnImage, Ensuring, Extracting, ctrs, locals, request
  <1> QED BY <1>3, <1>5, <1>6, <1>7, <1>8, <1>9 DEF SupportInv

\* The steps of ensureQemuBinary that leave the files alone.
LEMMA LookInv ==
  ASSUME SupportInv, NEW p \in Procs,
         \/ ReadStamp(p) \/ StatBinary(p) \/ CreateTemp(p) \/ ReadArchive(p)
         \/ RemoveTemp(p)
  PROVE  SupportInv'
  <1>1. UNCHANGED <<disk, locals, fd, ctrs>>
    BY DEF ReadStamp, StatBinary, CreateTemp, ReadArchive, RemoveTemp
  <1>2. PICK l \in Labels :
          /\ Goto(p, l)
          /\ \/ pc[p] = "stamp" /\ l = "stat" /\ stamp = img[p] /\ owned' = owned
             \/ pc[p] \in {"stamp", "stat"} /\ l = "remove" /\ owned' = owned
             \/ pc[p] = "stat" /\ l = cmd[p] /\ bin # None /\ owned' = owned
             \/ pc[p] = "temp" /\ l = "archive" /\ owned' = owned \cup {p}
             \/ pc[p] = "temp" /\ l = "idle" /\ owned' = owned
             \/ pc[p] = "archive" /\ l \in {"open", "clean_err"} /\ owned' = owned
             \/ pc[p] = "clean_ok" /\ l = cmd[p] /\ owned' = owned \ {p}
             \/ pc[p] = "clean_err" /\ l = "idle" /\ owned' = owned \ {p}
    BY DEF ReadStamp, StatBinary, CreateTemp, ReadArchive, RemoveTemp, Fail, At,
           Labels, Extracting, SupportInv, TypeOK, temps
  <1>3. pc[p] \in Ensuring /\ cmd[p] \in {"create", "start"}
    BY <1>2 DEF Ensuring, Extracting, SupportInv, TypeOK
  <1>4. /\ pc' \in [Procs -> Labels] /\ pc'[p] = l
        /\ (\A q \in Procs \ {p} : pc[q] = "idle" /\ pc'[q] = "idle") /\ Serial'
    BY <1>2, GotoAlone, OthersIdle
  <1>11. litter' \in BOOLEAN /\ (litter' => litter \/ TempFaults)
    <2>1. litter' = litter \/ (TempFaults /\ litter' = TRUE)
      BY DEF ReadStamp, StatBinary, CreateTemp, ReadArchive, RemoveTemp, temps
    <2>2. litter \in BOOLEAN
      BY DEF SupportInv, TypeOK
    <2>3. CASE litter' = litter
      BY <2>2, <2>3, Zenon
    <2>4. CASE TempFaults /\ litter' = TRUE
      BY <2>4, Zenon
    <2> QED BY <2>1, <2>3, <2>4, Zenon
  <1>5. TypeOK'
    <2>1. owned' \in SUBSET Procs
      BY <1>2 DEF SupportInv, TypeOK
    <2> QED BY <1>1, <1>4, <1>11, <2>1 DEF SupportInv, TypeOK, disk, locals, request, ctrs, temps
  <1>6. FilesReady'
    <2>1. files' = files /\ {"support", "caps", "wrapper", "conf", "logs"} \subseteq files
      BY <1>1, <1>3 DEF SupportInv, FilesReady, disk
    <2> QED BY <1>4, <2>1 DEF FilesReady, Ensuring, Extracting
  <1>7. BinaryState'
    <2>1. pc[p] = "stat" /\ bin # None => Good(bin, img[p])
      <3>1. pc[p] = "stat" => stamp = img[p] /\ img[p] # None
        BY NoneAssumption DEF SupportInv, BinaryState, TypeOK
      <3> QED BY <1>4, <3>1 DEF SupportInv, StampTrue
    <2>2. /\ fd[p] = None
          /\ pc[p] = "clean_ok" => Good(bin, img[p])
          /\ pc[p] \in {"temp", "archive", "clean_err"} => bin = None
      BY <1>2, <1>3 DEF SupportInv, BinaryState, Ensuring, Extracting
    <2>3. \A q \in Procs \ {p} : fd[q] = None
      BY <1>4 DEF SupportInv, BinaryState
    <2>4. UNCHANGED <<bin, stamp, img, fd, whole, from>>
      BY <1>1 DEF disk, locals, request
    <2>5. /\ pc'[p] = "stat" => stamp = img[p]
          /\ pc'[p] \in {"temp", "archive", "open", "clean_err"} => bin = None
          /\ pc'[p] \in {"create", "start"} => Good(bin, img[p])
          /\ pc'[p] \notin {"copy", "mark", "clean_ok"}
      BY <1>2, <1>3, <1>4, <2>1, <2>2
    <2> QED BY <1>4, <2>2, <2>3, <2>4, <2>5 DEF BinaryState, Good
  <1>8. NoTempLeft'
    <2>1. \A q \in owned : q = p
      BY <1>4 DEF SupportInv, TypeOK, NoTempLeft, Extracting
    <2>2. \A q \in owned' : pc'[q] \in {"archive", "open", "copy", "mark",
                                        "clean_ok", "clean_err"}
      BY <1>2, <1>3, <1>4, <2>1 DEF SupportInv, TypeOK, NoTempLeft, Extracting
    <2>3. litter' => TempFaults \/ Kills
      BY <1>11 DEF SupportInv, NoTempLeft
    <2> QED BY <2>2, <2>3 DEF NoTempLeft
  <1>9. StampTrue' /\ MountedIntact'
    <2>1. pc[p] \notin {"copy", "mark"}
      BY <1>2
    <2> QED BY <1>1, <1>4, <2>1 DEF SupportInv, StampTrue, MountedIntact, Good,
                                    disk, ctrs
  <1>10. OwnImage'
    BY <1>1, <1>2, <1>3, <1>4 DEF SupportInv, OwnImage, locals, request, ctrs, Ensuring,
                                  Extracting
  <1> QED BY <1>4, <1>5, <1>6, <1>7, <1>8, <1>9, <1>10 DEF SupportInv

\* What the steps that extract the binary have in common: they leave the
\* other files, the containers and the temporary container alone.
LEMMA ExtractCommon ==
  ASSUME SupportInv, NEW p \in Procs, NEW l \in Extracting \cup {"clean_ok", "clean_err"},
         Goto(p, l), pc[p] \in {"remove", "open", "copy", "mark"},
         l = "temp" => pc[p] = "remove",
         pc[p] = "remove" => l = "temp",
         l # "remove",
         UNCHANGED <<files, locals, temps, ctrs>>
  PROVE  /\ pc' \in [Procs -> Labels] /\ pc'[p] = l
         /\ \A q \in Procs \ {p} : pc[q] = "idle" /\ pc'[q] = "idle" /\ fd[q] = None
         /\ Serial' /\ FilesReady' /\ OwnImage' /\ NoTempLeft'
  <1>1. l \in Labels
    BY DEF Labels, Extracting
  <1>2. /\ pc' \in [Procs -> Labels] /\ pc'[p] = l
        /\ (\A q \in Procs \ {p} : pc[q] = "idle" /\ pc'[q] = "idle") /\ Serial'
    BY <1>1, GotoAlone, OthersIdle
  <1>3. \A q \in Procs \ {p} : fd[q] = None
    BY <1>2 DEF SupportInv, BinaryState
  <1>4. pc[p] \in Ensuring /\ pc'[p] \in Ensuring /\ pc'[p] \notin {"create", "start"}
    BY <1>2 DEF Ensuring, Extracting
  <1>5. FilesReady'
    BY <1>2, <1>4 DEF SupportInv, FilesReady, Ensuring, Extracting
  <1>6. OwnImage'
    BY <1>2, <1>4 DEF SupportInv, OwnImage, locals, request, ctrs, Ensuring, Extracting
  <1>7. NoTempLeft'
    <2>1. \A q \in owned : q = p /\ pc[q] # "remove"
      BY <1>2 DEF SupportInv, TypeOK, NoTempLeft
    <2>2. \A q \in owned : pc'[q] \in {"archive", "open", "copy", "mark",
                                       "clean_ok", "clean_err"}
      BY <1>2, <2>1 DEF Extracting
    <2> QED BY <2>2, TempsKept
  <1> QED BY <1>2, <1>3, <1>5, <1>6, <1>7

\* The old binary is removed: containers that run keep their file.
LEMMA RemoveInv ==
  ASSUME SupportInv, NEW p \in Procs, RemoveBinary(p)
  PROVE  SupportInv'
  <1>1. /\ pc[p] = "remove" /\ Goto(p, "temp") /\ bin' = None
        /\ UNCHANGED <<files, locals, temps, ctrs>>
        /\ UNCHANGED <<stamp, from, last, whole, fd>>
    BY DEF RemoveBinary, At
  <1>2. /\ pc' \in [Procs -> Labels] /\ pc'[p] = "temp"
        /\ \A q \in Procs \ {p} : pc[q] = "idle" /\ pc'[q] = "idle" /\ fd[q] = None
        /\ Serial' /\ FilesReady' /\ OwnImage' /\ NoTempLeft'
    BY <1>1, ExtractCommon DEF Extracting
  <1>3. TypeOK'
    BY <1>1, <1>2 DEF SupportInv, TypeOK, locals, request, ctrs, temps
  <1>4. fd[p] = None
    BY <1>1 DEF SupportInv, BinaryState
  <1>5. BinaryState' /\ StampTrue'
    BY <1>1, <1>2, <1>4 DEF BinaryState, StampTrue
  <1>6. MountedIntact'
    BY <1>1 DEF SupportInv, MountedIntact, Good, ctrs
  <1> QED BY <1>2, <1>3, <1>5, <1>6 DEF SupportInv

\* The binary is opened: a file that no container mounts and nobody writes.
LEMMA OpenInv ==
  ASSUME SupportInv, NEW p \in Procs, OpenBinary(p)
  PROVE  SupportInv'
  <1>1. /\ pc[p] = "open" /\ bin = None
        /\ UNCHANGED <<files, locals, temps, ctrs>> /\ stamp' = stamp
    BY DEF OpenBinary, At, SupportInv, BinaryState
  <1>2. CASE Goto(p, "clean_err") /\ UNCHANGED <<bin, fd, from, last, whole>>
    <2>1. /\ pc' \in [Procs -> Labels] /\ pc'[p] = "clean_err"
          /\ \A q \in Procs \ {p} : pc[q] = "idle" /\ pc'[q] = "idle" /\ fd[q] = None
          /\ Serial' /\ FilesReady' /\ OwnImage' /\ NoTempLeft'
      BY <1>1, <1>2, ExtractCommon
    <2>2. TypeOK'
      BY <1>1, <1>2, <2>1 DEF SupportInv, TypeOK, locals, request, ctrs, temps
    <2>3. BinaryState' /\ StampTrue'
      BY <1>1, <1>2, <2>1 DEF SupportInv, BinaryState, StampTrue
    <2>4. MountedIntact'
      BY <1>1, <1>2 DEF SupportInv, MountedIntact, Good, ctrs
    <2> QED BY <2>1, <2>2, <2>3, <2>4 DEF SupportInv
  <1>3. CASE Goto(p, "copy")
    <2>1. /\ pc' \in [Procs -> Labels] /\ pc'[p] = "copy"
          /\ \A q \in Procs \ {p} : pc[q] = "idle" /\ pc'[q] = "idle" /\ fd[q] = None
          /\ Serial' /\ FilesReady' /\ OwnImage' /\ NoTempLeft'
      BY <1>1, <1>3, ExtractCommon DEF Extracting
    <2>2. \A q \in Procs : fd[q] = None
      BY <1>1, <2>1 DEF SupportInv, BinaryState
    <2>3. pc' # [pc EXCEPT ![p] = "clean_err"]
      BY <2>1 DEF SupportInv, TypeOK
    <2>4. PICK i \in Inodes :
            /\ ~InUse(i)
            /\ bin' = i
            /\ fd' = [fd EXCEPT ![p] = i]
            /\ from' = [from EXCEPT ![i] =
                  {img[p]} \cup {img[q] : q \in {r \in Procs : fd[r] = i}}]
            /\ last' = [last EXCEPT ![i] = p]
            /\ whole' = [whole EXCEPT ![i] = FALSE]
      BY <1>1, <2>3 DEF OpenBinary, Goto
    <2>5. {img[q] : q \in {r \in Procs : fd[r] = i}} = {}
      BY <2>2, NoneAssumption
    <2>6. from' = [from EXCEPT ![i] = {img[p]}]
      BY <2>4, <2>5
    <2>7. \A v \in VMs : mount[v] # i
      BY <2>4 DEF InUse
    <2>8. TypeOK'
      BY <1>1, <2>1, <2>4, <2>6 DEF SupportInv, TypeOK, locals, request, ctrs, temps
    <2>9. BinaryState' /\ StampTrue'
      <3>1. /\ fd'[p] = i /\ last'[i] = p /\ from'[i] = {img[p]} /\ bin' = i
            /\ \A q \in Procs \ {p} : fd'[q] = None
        BY <2>1, <2>4, <2>6 DEF SupportInv, TypeOK
      <3>2. img' = img /\ mount' = mount
        BY <1>1 DEF locals, request, ctrs
      <3> QED BY <2>1, <2>7, <3>1, <3>2 DEF BinaryState, StampTrue
    <2>10. MountedIntact'
      BY <1>1, <2>4, <2>6, <2>7 DEF SupportInv, TypeOK, MountedIntact, Good, ctrs, temps
    <2> QED BY <2>1, <2>8, <2>9, <2>10 DEF SupportInv
  <1> QED BY <1>2, <1>3 DEF OpenBinary

\* The binary is copied to the end, or its path is removed again.
LEMMA CopyInv ==
  ASSUME SupportInv, NEW p \in Procs, CopyBinary(p)
  PROVE  SupportInv'
  <1>1. /\ pc[p] = "copy" /\ UNCHANGED <<files, locals, temps, ctrs>>
        /\ UNCHANGED <<stamp, from, last>> /\ fd' = [fd EXCEPT ![p] = None]
        /\ bin \in Inodes /\ fd[p] = bin /\ last[bin] = p /\ from[bin] = {img[p]}
        /\ \A v \in VMs : mount[v] # bin
    BY DEF CopyBinary, At, SupportInv, BinaryState
  <1>2. CASE Goto(p, "clean_err") /\ bin' = None /\ whole' = whole
    <2>1. /\ pc' \in [Procs -> Labels] /\ pc'[p] = "clean_err"
          /\ \A q \in Procs \ {p} : pc[q] = "idle" /\ pc'[q] = "idle" /\ fd[q] = None
          /\ Serial' /\ FilesReady' /\ OwnImage' /\ NoTempLeft'
      BY <1>1, <1>2, ExtractCommon
    <2>2. TypeOK'
      BY <1>1, <1>2, <2>1 DEF SupportInv, TypeOK, locals, request, ctrs, temps
    <2>3. BinaryState' /\ StampTrue'
      BY <1>1, <1>2, <2>1 DEF SupportInv, TypeOK, BinaryState, StampTrue
    <2>4. MountedIntact'
      BY <1>1, <1>2 DEF SupportInv, MountedIntact, Good, ctrs
    <2> QED BY <2>1, <2>2, <2>3, <2>4 DEF SupportInv
  <1>3. CASE /\ Goto(p, "mark") /\ bin' = bin
             /\ whole' = [whole EXCEPT ![fd[p]] = @ \/ last[fd[p]] = p]
    <2>1. /\ pc' \in [Procs -> Labels] /\ pc'[p] = "mark"
          /\ \A q \in Procs \ {p} : pc[q] = "idle" /\ pc'[q] = "idle" /\ fd[q] = None
          /\ Serial' /\ FilesReady' /\ OwnImage' /\ NoTempLeft'
      BY <1>1, <1>3, ExtractCommon DEF Extracting
    <2>2. whole' = [whole EXCEPT ![bin] = TRUE]
      BY <1>1, <1>3 DEF SupportInv, TypeOK
    <2>3. TypeOK'
      BY <1>1, <1>3, <2>1, <2>2 DEF SupportInv, TypeOK, locals, request, ctrs, temps
    <2>4. Good(bin, img[p])'
      BY <1>1, <1>3, <2>2 DEF SupportInv, TypeOK, Good, locals, request
    <2>5. BinaryState' /\ StampTrue'
      BY <1>1, <1>3, <2>1, <2>4 DEF SupportInv, TypeOK, BinaryState, StampTrue
    <2>6. MountedIntact'
      BY <1>1, <2>2 DEF SupportInv, TypeOK, MountedIntact, Good, ctrs, temps
    <2> QED BY <2>1, <2>3, <2>5, <2>6 DEF SupportInv
  <1> QED BY <1>2, <1>3 DEF CopyBinary

\* The stamp is written after the binary, and names its image.
LEMMA MarkInv ==
  ASSUME SupportInv, Quiet, NEW p \in Procs, WriteStamp(p)
  PROVE  SupportInv'
  <1>1. /\ pc[p] = "mark" /\ UNCHANGED <<files, locals, temps, ctrs>>
        /\ UNCHANGED <<bin, from, last, whole, fd>>
        /\ Good(bin, img[p]) /\ fd[p] = None /\ "support" \in files
    BY DEF WriteStamp, At, SupportInv, BinaryState, FilesReady, Ensuring, Extracting
  <1>2. stamp' = img[p] /\ Goto(p, "clean_ok")
    BY <1>1 DEF WriteStamp, Quiet
  <1>3. /\ pc' \in [Procs -> Labels] /\ pc'[p] = "clean_ok"
        /\ \A q \in Procs \ {p} : pc[q] = "idle" /\ pc'[q] = "idle" /\ fd[q] = None
        /\ Serial' /\ FilesReady' /\ OwnImage' /\ NoTempLeft'
    BY <1>1, <1>2, ExtractCommon
  <1>4. TypeOK'
    BY <1>1, <1>2, <1>3 DEF SupportInv, TypeOK, locals, request, ctrs, temps
  <1>5. BinaryState' /\ StampTrue'
    BY <1>1, <1>2, <1>3 DEF SupportInv, TypeOK, BinaryState, StampTrue, Good, locals, request
  <1>6. MountedIntact'
    BY <1>1 DEF SupportInv, MountedIntact, Good, ctrs
  <1> QED BY <1>3, <1>4, <1>5, <1>6 DEF SupportInv

\* The container is created or started with what ensureQemuBinary left.
LEMMA LaunchInv ==
  ASSUME SupportInv, NEW p \in Procs, CreateContainer(p) \/ StartContainer(p)
  PROVE  SupportInv'
  <1>1. /\ pc[p] \in {"create", "start"} /\ Goto(p, "idle")
        /\ UNCHANGED <<disk, locals, fd, temps>>
    BY DEF CreateContainer, StartContainer, At
  <1>2. "idle" \in Labels
    BY DEF Labels
  <1>3. /\ pc' \in [Procs -> Labels]
        /\ (\A q \in Procs : pc'[q] = "idle") /\ Serial'
    BY <1>1, <1>2, GotoAlone, OthersIdle
  <1>4. (\A q \in Procs : fd[q] = None /\ pc[q] \notin {"copy", "mark"}) /\ owned = {}
    BY <1>1, OthersIdle DEF SupportInv, TypeOK, BinaryState, NoTempLeft
  <1>5. FilesReady' /\ BinaryState' /\ OwnImage' /\ NoTempLeft'
    <2>1. FilesReady' /\ BinaryState' /\ OwnImage'
      BY <1>1, <1>3, <1>4 DEF FilesReady, BinaryState, OwnImage, Ensuring, Extracting
    <2> QED BY <1>1, <1>4, <2>1, TempsKept
  <1>6. StampTrue'
    BY <1>1, <1>4 DEF SupportInv, StampTrue, Good, disk
  <1>7. Good(bin, img[p]) /\ vm[p] \in VMs /\ img[p] \in Images /\ cmd[p] = pc[p]
    BY <1>1 DEF SupportInv, TypeOK, BinaryState, OwnImage
  <1>8. CASE CreateContainer(p)
    <2>1. TypeOK'
      BY <1>1, <1>3, <1>7, <1>8 DEF SupportInv, TypeOK, CreateContainer, disk, locals, request, temps
    <2>2. \A v \in VMs : mount[v] # None => image'[v] = image[v]
      <3>1. \A v \in VMs : mount[v] # None => image[v] # None
        BY NoneAssumption DEF SupportInv, TypeOK, MountedIntact, Good
      <3> QED BY <1>8, <3>1 DEF CreateContainer, SupportInv, TypeOK
    <2>3. MountedIntact'
      BY <1>1, <1>8, <2>2 DEF SupportInv, MountedIntact, Good, CreateContainer, disk
    <2> QED BY <1>3, <1>5, <1>6, <2>1, <2>3 DEF SupportInv
  <1>9. CASE StartContainer(p)
    <2>1. TypeOK'
      BY <1>1, <1>3, <1>9 DEF SupportInv, TypeOK, StartContainer, disk, locals, request, temps
    <2>2. image[vm[p]] # None => Good(bin, image[vm[p]])
      <3>1. pc[p] = "start"
        BY <1>9 DEF StartContainer, At
      <3>2. image[vm[p]] \in {img[p], None}
        BY <1>7, <3>1 DEF SupportInv, OwnImage, Ensuring
      <3> QED BY <1>7, <3>2
    <2>3. UNCHANGED <<image, whole, from, bin>>
      BY <1>1, <1>9 DEF StartContainer, disk
    <2>4. \A v \in VMs : \/ mount'[v] = mount[v]
                         \/ v = vm[p] /\ mount'[v] = bin /\ image[v] # None
      BY <1>7, <1>9 DEF StartContainer, SupportInv, TypeOK
    <2>5. MountedIntact'
      BY <2>2, <2>3, <2>4 DEF SupportInv, MountedIntact, Good
    <2> QED BY <1>3, <1>5, <1>6, <2>1, <2>5 DEF SupportInv
  <1> QED BY <1>8, <1>9

\* clean-cache removes paths, never the files that containers have mounted.
LEMMA CleanInv ==
  ASSUME SupportInv, NEW p \in Procs, CleanCache(p)
  PROVE  SupportInv'
  <1>1. PICK d \in present[p] : RemoveDir(p, d) \/ RemoveDirPartly(p, d)
    BY DEF CleanCache
  <1>2. pc[p] = "clean" /\ UNCHANGED <<from, last, whole, request, fd, temps, ctrs>>
    BY DEF CleanCache, At
  <1>3. /\ files' \subseteq files
        /\ stamp' \in {stamp, None} /\ bin' \in {bin, None}
        /\ present' \in [Procs -> SUBSET {"caps", "support", "logs"}]
    BY <1>1 DEF RemoveDir, RemoveDirPartly, SupportInv, TypeOK
  <1>4. PICK l \in {"idle", "clean"} : Goto(p, l)
    BY <1>1 DEF RemoveDir, RemoveDirPartly, Fail
  <1>5. /\ pc' \in [Procs -> Labels] /\ pc'[p] = l
        /\ (\A q \in Procs \ {p} : pc[q] = "idle" /\ pc'[q] = "idle") /\ Serial'
    <2>1. l \in Labels
      BY DEF Labels
    <2> QED BY <1>2, <1>4, <2>1, GotoAlone, OthersIdle
  <1>6. (\A q \in Procs : fd[q] = None /\ pc[q] \notin {"copy", "mark"}) /\ owned = {}
    BY <1>2, <1>5 DEF SupportInv, TypeOK, BinaryState, NoTempLeft
  <1>7. TypeOK'
    BY <1>2, <1>3, <1>5 DEF SupportInv, TypeOK, request, ctrs, temps
  <1>8. FilesReady' /\ BinaryState' /\ OwnImage' /\ NoTempLeft'
    <2>1. FilesReady' /\ BinaryState' /\ OwnImage'
      BY <1>2, <1>5, <1>6 DEF FilesReady, BinaryState, OwnImage, Ensuring, Extracting
    <2> QED BY <1>2, <1>6, <2>1, TempsKept
  <1>9. StampTrue'
    BY <1>2, <1>3, <1>6 DEF SupportInv, StampTrue, Good
  <1>10. MountedIntact'
    BY <1>2 DEF SupportInv, MountedIntact, Good, ctrs
  <1> QED BY <1>5, <1>7, <1>8, <1>9, <1>10 DEF SupportInv

\* A container that stops or is deleted.
LEMMA ContainerInv ==
  ASSUME SupportInv, NEW v \in VMs, StopContainer(v) \/ DeleteContainer(v)
  PROVE  SupportInv'
  <1>1. /\ UNCHANGED <<disk, pc, locals, fd, temps>>
        /\ \A w \in VMs : mount'[w] \in {mount[w], None}
        /\ \A w \in VMs : image'[w] = image[w] \/ (image'[w] = None /\ mount[w] = None)
    <2>1. CASE StopContainer(v)
      <3>1. /\ UNCHANGED <<disk, pc, locals, fd, temps>> /\ image' = image
            /\ mount' = [mount EXCEPT ![v] = None]
        BY <2>1 DEF StopContainer
      <3> QED BY <3>1 DEF SupportInv, TypeOK
    <2>2. CASE DeleteContainer(v)
      <3>1. /\ UNCHANGED <<disk, pc, locals, fd, temps>> /\ mount' = mount
            /\ image' = [image EXCEPT ![v] = None] /\ mount[v] = None
        BY <2>2 DEF DeleteContainer
      <3> QED BY <3>1 DEF SupportInv, TypeOK
    <2> QED BY <2>1, <2>2
  <1>2. TypeOK'
    BY <1>1 DEF StopContainer, DeleteContainer, SupportInv, TypeOK, disk, locals, request,
                temps
  <1>3. Serial' /\ FilesReady' /\ NoTempLeft' /\ StampTrue'
    <2>1. Serial' /\ FilesReady' /\ StampTrue'
      BY <1>1 DEF SupportInv, Serial, FilesReady, StampTrue, Good, disk
    <2>2. \A q \in owned : pc'[q] \in {"archive", "open", "copy", "mark",
                                       "clean_ok", "clean_err"}
      BY <1>1 DEF SupportInv, NoTempLeft
    <2> QED BY <1>1, <2>1, <2>2, TempsKept
  <1>4. BinaryState'
    <2>1. UNCHANGED <<stamp, bin, from, last, whole, img>>
      BY <1>1 DEF disk, locals, request
    <2> QED BY <1>1, <2>1, NoneAssumption DEF SupportInv, BinaryState, Good
  <1>5. OwnImage'
    BY <1>1 DEF SupportInv, TypeOK, OwnImage, locals, request
  <1>6. MountedIntact'
    BY <1>1 DEF SupportInv, MountedIntact, Good, disk
  <1> QED BY <1>2, <1>3, <1>4, <1>5, <1>6 DEF SupportInv

\* Every step keeps the invariant.
LEMMA NextInv ==
  ASSUME Quiet
  PROVE  SupportInv /\ [Next]_vars => SupportInv'
  <1> SUFFICES ASSUME SupportInv, [Next]_vars PROVE SupportInv'
    OBVIOUS
  <1>1. CASE UNCHANGED vars
    <2>1. \A q \in owned : pc'[q] \in {"archive", "open", "copy", "mark",
                                       "clean_ok", "clean_err"}
      BY <1>1 DEF vars, SupportInv, NoTempLeft
    <2>2. NoTempLeft'
      BY <1>1, <2>1, TempsKept DEF vars
    <2>3. TypeOK'
      BY <1>1 DEF vars, disk, locals, request, temps, ctrs, SupportInv, TypeOK
    <2> QED BY <1>1, <2>2, <2>3
            DEF vars, disk, locals, request, ctrs, SupportInv, Serial, FilesReady,
                BinaryState, StampTrue, OwnImage, MountedIntact, Good
  <1>2. ASSUME NEW p \in Procs,
               \/ BeginCreate(p) \/ BeginStart(p) \/ BeginCleanCache(p)
               \/ Restore(p) \/ CreateContainer(p) \/ StartContainer(p)
               \/ CleanCache(p) \/ Kill(p)
        PROVE  SupportInv'
    <2>1. ~Kill(p)
      BY DEF Kill, Quiet
    <2> QED BY <1>2, <2>1, BeginInv, PrepareInv, LookInv, RemoveInv, OpenInv, CopyInv,
               MarkInv, LaunchInv, CleanInv DEF Restore
  <1>3. ASSUME NEW v \in VMs, StopContainer(v) \/ DeleteContainer(v)
        PROVE  SupportInv'
    BY <1>3, ContainerInv
  <1> QED BY <1>1, <1>2, <1>3 DEF Next

\* Commands that run one after the other and finish keep the support
\* directory sound: the stamp names the image of the binary, and the binary is
\* whole, unless it is just being extracted.
THEOREM SupportSound ==
  ASSUME Quiet
  PROVE  Spec => []SupportInv
  <1>1. SupportInv /\ [Next]_vars => SupportInv'
    BY NextInv
  <1> QED BY <1>1, InitInv, PTL DEF Spec

\* Then every container is created and started with the whole binary of its
\* own image, with every source it mounts in place, and keeps that binary as
\* long as it runs.
THEOREM LaunchSound ==
  ASSUME Quiet
  PROVE  Spec => [](BinaryReady /\ MountsReady /\ MountedIntact)
  <1>1. SupportInv => BinaryReady /\ MountsReady /\ MountedIntact
    <2> SUFFICES ASSUME SupportInv PROVE BinaryReady /\ MountsReady
      BY DEF SupportInv
    <2>1. BinaryReady
      BY DEF SupportInv, BinaryState, BinaryReady
    <2>2. MountsReady
      BY DEF SupportInv, FilesReady, MountsReady, Sources, Ensuring
    <2> QED BY <2>1, <2>2
  <1> QED BY <1>1, SupportSound, PTL

\* A command that is about to create or start a container has the whole binary
\* of its own launcher image in the support directory.
THEOREM BinaryAlwaysReady ==
  ASSUME Quiet
  PROVE  Spec => []BinaryReady
  BY LaunchSound, PTL

\* Every source that a container mounts exists when it is started, whatever
\* clean-cache took away.
THEOREM MountsAlwaysReady ==
  ASSUME Quiet
  PROVE  Spec => []MountsReady
  BY LaunchSound, PTL
=============================================================================
