------------------------- MODULE VmLifecycleProofs -------------------------
(***************************************************************************)
(* Proofs about VmLifecycle for every set of VM names and of processes,    *)
(* every name-matching relation and every number of polls.                 *)
(***************************************************************************)
EXTENDS VmLifecycle, TLAPS

\* The initial state, no container and no process, satisfies the invariant.
LEMMA InitInv == Init => Inv
  BY MaxTicksAssumption
  DEF Init, Inv, TypeOK, DomainInContainer, OwnCalls, OwnCall, Commands,
      CtrStates, DomStates, Labels, Done, CreateCalls, StartCalls, StopCalls,
      ConsentedCalls, DeleteCalls

\* A process that goes to a call of its command keeps the processes' part of
\* the invariant.
LEMMA GotoInv ==
  ASSUME Inv, NEW p \in Procs, NEW l \in Labels, Goto(p, l),
         OwnCall(l, cmd[p], flag[p]), UNCHANGED args
  PROVE  /\ pc' \in [Procs -> Labels]
         /\ cmd' \in [Procs -> Commands]
         /\ vm' \in [Procs -> VMs]
         /\ flag' \in [Procs -> BOOLEAN]
         /\ OwnCalls'
  <1>1. pc \in [Procs -> Labels] /\ OwnCalls
    BY DEF Inv, TypeOK
  <1>2. cmd' = cmd /\ flag' = flag /\ vm' = vm
    BY DEF args
  <1>3. pc' \in [Procs -> Labels]
    BY <1>1 DEF Goto
  <1>4. ASSUME NEW q \in Procs PROVE OwnCall(pc'[q], cmd'[q], flag'[q])
    <2>1. pc'[q] = IF q = p THEN l ELSE pc[q]
      BY <1>1 DEF Goto
    <2>2. OwnCall(pc[q], cmd[q], flag[q])
      BY <1>1 DEF OwnCalls
    <2> QED BY <2>1, <2>2, <1>2
  <1>5. OwnCalls'
    BY <1>4 DEF OwnCalls
  <1> QED BY <1>2, <1>3, <1>5 DEF Inv, TypeOK

\* A call that leaves containers and domains alone keeps the invariant.
LEMMA LocalStepInv ==
  ASSUME Inv, NEW p \in Procs, NEW l \in Labels, Goto(p, l),
         OwnCall(l, cmd[p], flag[p]), UNCHANGED <<podman, args>>,
         left' \in [Procs -> 0..MaxTicks]
  PROVE  Inv'
  <1>1. UNCHANGED args /\ ctr' = ctr /\ dom' = dom
    BY DEF podman
  <1>2. DomainInContainer'
    BY <1>1 DEF Inv, DomainInContainer
  <1>3. ctr' \in [VMs -> CtrStates] /\ dom' \in [VMs -> DomStates]
    BY <1>1 DEF Inv, TypeOK
  <1> QED BY <1>1, <1>2, <1>3, GotoInv DEF Inv, TypeOK

\* The calls that read the Podman state, or none of it.
LEMMA QueryInv ==
  ASSUME Inv, NEW p \in Procs,
         \/ CLoad(p) \/ NewPodmanClient(p) \/ ExistsVM(p) \/ EnsureImage(p)
         \/ PrepareSizedDisks(p) \/ RestoreRuntimeSupport(p)
         \/ StartInspect(p) \/ StartPoll(p) \/ Sleep(p) \/ StopPoll(p)
         \/ FinalState(p) \/ InspectVM(p)
  PROVE  Inv'
  <1> USE DEF At, CreateCalls, StartCalls, StopCalls, ConsentedCalls,
             DeleteCalls, Done, Labels, OwnCall
  <1>1. /\ cmd[p] \in Commands /\ flag[p] \in BOOLEAN
        /\ left \in [Procs -> 0..MaxTicks]
        /\ OwnCall(pc[p], cmd[p], flag[p])
    BY DEF Inv, TypeOK, OwnCalls
  <1>2. UNCHANGED <<podman, args>>
    BY DEF CLoad, NewPodmanClient, ExistsVM, EnsureImage, PrepareSizedDisks,
           RestoreRuntimeSupport, StartInspect, StartPoll, Sleep, StopPoll,
           FinalState, InspectVM
  <1>3. left' \in [Procs -> 0..MaxTicks]
    <2>1. CASE StartPoll(p) \/ StopPoll(p)
      <3>1. left' = left \/ \E n \in 0..left[p] : left' = [left EXCEPT ![p] = n]
        BY <2>1 DEF StartPoll, StopPoll
      <3> QED BY <1>1, <3>1, MaxTicksAssumption
    <2>2. CASE Sleep(p)
      <3>1. \/ left' = left
            \/ left[p] # 0 /\ \E n \in 0..(left[p] - 1) : left' = [left EXCEPT ![p] = n]
        BY <2>2 DEF Sleep
      <3> QED BY <1>1, <3>1, MaxTicksAssumption
    <2>3. CASE ~(StartPoll(p) \/ StopPoll(p) \/ Sleep(p))
      <3>1. left' = left
        BY <2>3 DEF CLoad, NewPodmanClient, ExistsVM, EnsureImage,
           PrepareSizedDisks, RestoreRuntimeSupport, StartInspect, FinalState,
           InspectVM
      <3> QED BY <1>1, <3>1
    <2> QED BY <2>1, <2>2, <2>3
  <1>4. \E l \in Labels : Goto(p, l) /\ OwnCall(l, cmd[p], flag[p])
    <2>1. CASE CLoad(p)
      BY <1>1, <2>1 DEF CLoad
    <2>2. CASE NewPodmanClient(p)
      BY <1>1, <2>2 DEF NewPodmanClient
    <2>3. CASE ExistsVM(p)
      <3>1. \E found \in BOOLEAN : Goto(p, AfterExists(p, found)) \/ Goto(p, "err")
        BY <2>3 DEF ExistsVM
      <3>2. ASSUME NEW found \in BOOLEAN
            PROVE  /\ AfterExists(p, found) \in Labels
                   /\ OwnCall(AfterExists(p, found), cmd[p], flag[p])
        BY <1>1 DEF AfterExists, Commands
      <3> QED BY <3>1, <3>2
    <2>4. CASE EnsureImage(p)
      BY <1>1, <2>4 DEF EnsureImage
    <2>5. CASE PrepareSizedDisks(p)
      BY <1>1, <2>5 DEF PrepareSizedDisks
    <2>6. CASE RestoreRuntimeSupport(p)
      BY <1>1, <2>6 DEF RestoreRuntimeSupport
    <2>7. CASE StartInspect(p)
      BY <1>1, <2>7 DEF StartInspect
    <2>8. CASE StartPoll(p)
      BY <1>1, <2>8 DEF StartPoll
    <2>9. CASE Sleep(p)
      BY <1>1, <2>9 DEF Sleep
    <2>10. CASE StopPoll(p)
      <3>1. Goto(p, "t_final") \/ Goto(p, "t_sleep")
        BY <2>10 DEF StopPoll
      <3>2. cmd[p] = "stop"
        BY <1>1, <2>10 DEF StopPoll
      <3> QED BY <3>1, <3>2
    <2>11. CASE FinalState(p)
      <3>1. Goto(p, "t_stop") \/ Goto(p, "t_destroy")
        BY <2>11 DEF FinalState
      <3>2. cmd[p] = "stop"
        BY <1>1, <2>11 DEF FinalState
      <3> QED BY <3>1, <3>2
    <2>12. CASE InspectVM(p)
      BY <1>1, <2>12 DEF InspectVM
    <2> QED BY <2>1, <2>2, <2>3, <2>4, <2>5, <2>6, <2>7, <2>8, <2>9, <2>10,
               <2>11, <2>12
  <1> HIDE DEF OwnCall, Labels
  <1> QED BY <1>2, <1>3, <1>4, LocalStepInv

\* The part of the invariant that is about containers and domains.
PodmanOK ==
    /\ ctr \in [VMs -> CtrStates]
    /\ dom \in [VMs -> DomStates]
    /\ DomainInContainer

\* A call that changes the Podman state keeps the invariant if it leaves
\* every domain inside a running container.
LEMMA EffectInv ==
  ASSUME Inv, NEW p \in Procs, NEW l \in Labels, Goto(p, l),
         OwnCall(l, cmd[p], flag[p]), UNCHANGED args, PodmanOK',
         left' \in [Procs -> 0..MaxTicks]
  PROVE  Inv'
  BY GotoInv DEF Inv, TypeOK, PodmanOK

\* What virsh shutdown and virsh destroy do keeps domains inside containers.
LEMMA DomCallInv ==
  ASSUME Inv, NEW v \in VMs, NEW s \in DomStates, NEW failed \in BOOLEAN,
         DomCall(v, s, failed), ctr' = ctr
  PROVE  PodmanOK'
  <1>1. dom' = dom \/ (ctr[v] = "running" /\ dom' = [dom EXCEPT ![v] = s])
    BY DEF DomCall, SetDom
  <1> QED BY <1>1 DEF Inv, TypeOK, DomainInContainer, PodmanOK

\* Every call that can change a container or a domain keeps the invariant.
LEMMA CommandInv ==
  ASSUME Inv, NEW p \in Procs,
         \/ CreateVM(p) \/ StartVM(p) \/ Shutdown(p) \/ Destroy(p)
         \/ StopVM(p) \/ RemoveVM(p)
  PROVE  Inv'
  <1> USE DEF At, CreateCalls, StartCalls, StopCalls, ConsentedCalls,
             DeleteCalls, Done, Labels, OwnCall
  <1>1. /\ cmd[p] \in Commands /\ flag[p] \in BOOLEAN /\ vm[p] \in VMs
        /\ left \in [Procs -> 0..MaxTicks]
        /\ ctr \in [VMs -> CtrStates] /\ dom \in [VMs -> DomStates]
        /\ DomainInContainer
        /\ OwnCall(pc[p], cmd[p], flag[p])
    BY DEF Inv, TypeOK, OwnCalls
  <1>2. UNCHANGED args
    BY DEF CreateVM, StartVM, Shutdown, Destroy, StopVM, RemoveVM
  <1>3. left' \in [Procs -> 0..MaxTicks]
    <2>1. left' = left \/ \E n \in 0..MaxTicks : left' = [left EXCEPT ![p] = n]
      BY DEF CreateVM, StartVM, Shutdown, Destroy, StopVM, RemoveVM, SetDeadline
    <2> QED BY <1>1, <2>1
  <1>4. PodmanOK'
    <2>1. CASE CreateVM(p)
      BY <1>1, <2>1 DEF CreateVM, SetCtr, PodmanOK, DomainInContainer, CtrStates
    <2>2. CASE StartVM(p)
      <3>1. dom' = dom /\ (ctr' = ctr \/ ctr' = [ctr EXCEPT ![vm[p]] = "running"])
        BY <2>2 DEF StartVM, SetCtr
      <3> QED BY <1>1, <3>1 DEF PodmanOK, DomainInContainer, CtrStates
    <2>3. CASE Shutdown(p)
      <3>1. ctr' = ctr /\ \E failed \in BOOLEAN : DomCall(vm[p], "other", failed)
        BY <2>3 DEF Shutdown
      <3> QED BY <1>1, <3>1, DomCallInv DEF DomStates
    <2>4. CASE Destroy(p)
      <3>1. ctr' = ctr /\ \E failed \in BOOLEAN : DomCall(vm[p], "shut off", failed)
        BY <2>4 DEF Destroy
      <3> QED BY <1>1, <3>1, DomCallInv DEF DomStates
    <2>5. CASE StopVM(p)
      <3>1. \/ ctr' = ctr /\ dom' = dom
            \/ /\ ctr' = [ctr EXCEPT ![vm[p]] = IF ctr[vm[p]] = "running"
                                                 THEN "exited" ELSE ctr[vm[p]]]
               /\ dom' = [dom EXCEPT ![vm[p]] = "none"]
        BY <2>5 DEF StopVM, SetCtr, SetDom, podman
      <3> QED BY <1>1, <3>1 DEF PodmanOK, DomainInContainer, CtrStates, DomStates
    <2>6. CASE RemoveVM(p)
      <3>1. \/ ctr' = ctr /\ dom' = dom
            \/ /\ ctr' = [ctr EXCEPT ![vm[p]] = "absent"]
               /\ dom' = [dom EXCEPT ![vm[p]] = "none"]
        BY <2>6 DEF RemoveVM, SetCtr, SetDom, podman
      <3> QED BY <1>1, <3>1 DEF PodmanOK, DomainInContainer, CtrStates, DomStates
    <2> QED BY <2>1, <2>2, <2>3, <2>4, <2>5, <2>6
  <1>5. \E l \in Labels : Goto(p, l) /\ OwnCall(l, cmd[p], flag[p])
    <2>1. CASE CreateVM(p)
      BY <1>1, <2>1 DEF CreateVM
    <2>2. CASE StartVM(p)
      BY <1>1, <2>2 DEF StartVM
    <2>3. CASE Shutdown(p)
      <3>1. Goto(p, "t_poll") \/ Goto(p, "t_destroy")
        BY <2>3 DEF Shutdown
      <3>2. cmd[p] = "stop"
        BY <1>1, <2>3 DEF Shutdown
      <3> QED BY <3>1, <3>2
    <2>4. CASE Destroy(p)
      <3>1. \/ cmd[p] = "stop" /\ Goto(p, "t_stop")
            \/ cmd[p] = "delete" /\ flag[p] /\ Goto(p, "d_stop")
        BY <1>1, <2>4 DEF Destroy
      <3> QED BY <3>1
    <2>5. CASE StopVM(p)
      <3>1. \/ cmd[p] = "stop" /\ (Goto(p, "ok") \/ Goto(p, "err"))
            \/ cmd[p] = "delete" /\ flag[p] /\ Goto(p, "d_remove")
        BY <1>1, <2>5 DEF StopVM
      <3> QED BY <3>1
    <2>6. CASE RemoveVM(p)
      BY <1>1, <2>6 DEF RemoveVM
    <2> QED BY <2>1, <2>2, <2>3, <2>4, <2>5, <2>6
  <1> HIDE DEF OwnCall, Labels
  <1> QED BY <1>2, <1>3, <1>4, <1>5, EffectInv

\* A step that sets the locals of a process, and nothing else.
LEMMA LocalsInv ==
  ASSUME Inv, NEW p \in Procs, NEW l \in Labels, NEW c \in Commands,
         NEW v \in VMs, NEW n \in 0..MaxTicks,
         pc' = [pc EXCEPT ![p] = l], cmd' = [cmd EXCEPT ![p] = c],
         vm' = [vm EXCEPT ![p] = v], left' = [left EXCEPT ![p] = n],
         flag' \in [Procs -> BOOLEAN],
         \A q \in Procs \ {p} : flag'[q] = flag[q],
         OwnCall(l, c, flag'[p]), UNCHANGED podman
  PROVE  Inv'
  <1>1. ctr' = ctr /\ dom' = dom
    BY DEF podman
  <1>2. TypeOK'
    BY <1>1 DEF Inv, TypeOK
  <1>3. OwnCalls'
    BY DEF Inv, TypeOK, OwnCalls
  <1> QED BY <1>1, <1>2, <1>3 DEF Inv, DomainInContainer

\* A command begins, is answered at the prompt, returns or is interrupted.
LEMMA ControlInv ==
  ASSUME Inv, NEW p \in Procs,
         Call(p) \/ ConfirmAction(p) \/ Return(p) \/ Kill(p)
  PROVE  Inv'
  <1>1. /\ vm' = vm => vm' = [vm EXCEPT ![p] = vm[p]]
        /\ flag' = flag => flag' = [flag EXCEPT ![p] = flag[p]]
        /\ cmd' = cmd => cmd' = [cmd EXCEPT ![p] = cmd[p]]
        /\ left' = left => left' = [left EXCEPT ![p] = left[p]]
        /\ vm[p] \in VMs /\ flag[p] \in BOOLEAN /\ left[p] \in 0..MaxTicks
        /\ cmd[p] \in Commands /\ OwnCall(pc[p], cmd[p], flag[p])
    BY DEF Inv, TypeOK, OwnCalls
  <1>2. CASE Call(p)
    <2>1. PICK c \in Commands, v \in VMs, f \in BOOLEAN :
            /\ cmd' = [cmd EXCEPT ![p] = c]
            /\ vm' = [vm EXCEPT ![p] = v]
            /\ flag' = [flag EXCEPT ![p] = f]
            /\ pc' = [pc EXCEPT ![p] = IF c = "create" THEN "c_load" ELSE "client"]
      BY <1>2 DEF Call, Goto
    <2> DEFINE l == IF c = "create" THEN "c_load" ELSE "client"
    <2>2. l \in Labels /\ OwnCall(l, c, f)
      BY DEF Labels, OwnCall, CreateCalls, StartCalls, StopCalls,
             ConsentedCalls, DeleteCalls
    <2>3. UNCHANGED podman /\ left' = [left EXCEPT ![p] = left[p]]
      BY <1>1, <1>2 DEF Call
    <2>4. pc' = [pc EXCEPT ![p] = l]
      BY <2>1
    <2>5. /\ flag' \in [Procs -> BOOLEAN] /\ flag'[p] = f
          /\ \A q \in Procs \ {p} : flag'[q] = flag[q]
      BY <2>1 DEF Inv, TypeOK
    <2> HIDE DEF l
    <2> QED BY <1>1, <2>1, <2>2, <2>3, <2>4, <2>5, LocalsInv
  <1>3. CASE ConfirmAction(p)
    <2>1. /\ UNCHANGED podman
          /\ cmd' = [cmd EXCEPT ![p] = "delete"]
          /\ vm' = [vm EXCEPT ![p] = vm[p]]
          /\ left' = [left EXCEPT ![p] = left[p]]
      BY <1>1, <1>3 DEF ConfirmAction, At, OwnCall, DeleteCalls
    <2>2. PICK l \in {"d_inspect", "aborted", "err"} :
            /\ pc' = [pc EXCEPT ![p] = l]
            /\ flag' = [flag EXCEPT ![p] = IF l = "d_inspect" THEN TRUE ELSE flag[p]]
      BY <1>1, <1>3 DEF ConfirmAction, Goto
    <2> DEFINE f == IF l = "d_inspect" THEN TRUE ELSE flag[p]
    <2>3. l \in Labels /\ OwnCall(l, "delete", f)
      BY DEF Labels, OwnCall, CreateCalls, StartCalls, StopCalls,
             ConsentedCalls, DeleteCalls, Done
    <2>4. "delete" \in Commands /\ f \in BOOLEAN
      BY <1>1 DEF Commands
    <2>5. /\ pc' = [pc EXCEPT ![p] = l]
          /\ flag' \in [Procs -> BOOLEAN] /\ flag'[p] = f
          /\ \A q \in Procs \ {p} : flag'[q] = flag[q]
      BY <2>2 DEF Inv, TypeOK
    <2> HIDE DEF f
    <2> QED BY <1>1, <2>1, <2>3, <2>4, <2>5, LocalsInv
  <1>4. CASE Return(p) \/ Kill(p)
    <2>1. /\ pc' = [pc EXCEPT ![p] = "idle"]
          /\ cmd' = [cmd EXCEPT ![p] = "create"]
          /\ vm' = [vm EXCEPT ![p] = vm[p]]
          /\ flag' = [flag EXCEPT ![p] = FALSE]
          /\ left' = [left EXCEPT ![p] = 0]
          /\ UNCHANGED podman
      BY <1>1, <1>4 DEF Return, Kill, Exit, Goto
    <2>2. "idle" \in Labels /\ OwnCall("idle", "create", FALSE)
      BY DEF Labels, OwnCall, CreateCalls, StartCalls, StopCalls,
             ConsentedCalls, DeleteCalls, Done
    <2>3. "create" \in Commands /\ 0 \in 0..MaxTicks
      BY MaxTicksAssumption DEF Commands
    <2>4. /\ flag' \in [Procs -> BOOLEAN] /\ flag'[p] = FALSE
          /\ \A q \in Procs \ {p} : flag'[q] = flag[q]
      BY <2>1 DEF Inv, TypeOK
    <2> QED BY <1>1, <2>1, <2>2, <2>3, <2>4, LocalsInv
  <1> QED BY <1>2, <1>3, <1>4

\* Guests and containers that change by themselves keep the invariant.
LEMMA GuestInv ==
  ASSUME Inv, NEW v \in VMs, Boot(v) \/ GuestChange(v) \/ ContainerExit(v)
  PROVE  Inv'
  <1>1. UNCHANGED <<pc, cmd, vm, flag, left>>
    BY DEF Boot, GuestChange, ContainerExit, args
  <1>2. PodmanOK'
    <2>1. \/ /\ ctr' = ctr /\ ctr[v] = "running"
             /\ \E s \in DomStates : dom' = [dom EXCEPT ![v] = s]
          \/ /\ ctr' = [ctr EXCEPT ![v] = "exited"]
             /\ dom' = [dom EXCEPT ![v] = "none"]
      BY DEF Boot, GuestChange, ContainerExit, SetCtr, SetDom, DomStates
    <2> QED BY <2>1 DEF Inv, TypeOK, DomainInContainer, PodmanOK, CtrStates,
                        DomStates
  <1> QED BY <1>1, <1>2 DEF Inv, TypeOK, PodmanOK, OwnCalls

\* Every step keeps the invariant.
LEMMA NextInv == Inv /\ [Next]_vars => Inv'
  <1> SUFFICES ASSUME Inv, [Next]_vars PROVE Inv'
    OBVIOUS
  <1>1. CASE UNCHANGED vars
    BY <1>1 DEF vars, Inv, TypeOK, DomainInContainer, OwnCalls
  <1>2. ASSUME NEW p \in Procs, Step(p) \/ Call(p) \/ ConfirmAction(p) \/ Kill(p)
        PROVE  Inv'
    BY <1>2, QueryInv, CommandInv, ControlInv DEF Step
  <1>3. ASSUME NEW v \in VMs, Boot(v) \/ GuestChange(v) \/ ContainerExit(v)
        PROVE  Inv'
    BY <1>3, GuestInv
  <1> QED BY <1>1, <1>2, <1>3 DEF Next

\* The invariant of the run, for any VMs, processes and timeouts: domains
\* live only inside running containers, and every process makes only the
\* calls of its own command.
THEOREM Invariance == Spec => []Inv
  BY InitInv, NextInv, PTL DEF Spec

-----------------------------------------------------------------------------
\* A container disappears only in RemoveVM, which a process reaches only with
\* --force or after "y", and only the one the process was asked to delete.
THEOREM Consent == Spec => ConsentBeforeRemoval
  <1> DEFINE Asked == \A v \in VMs : ctr[v] # "absent" /\ ctr'[v] = "absent" =>
                 \E p \in Procs : cmd[p] = "delete" /\ vm[p] = v /\ flag[p]
  <1>1. ASSUME Inv, [Next]_vars PROVE [Asked]_vars
    <2> SUFFICES ASSUME Next, NEW v \in VMs, ctr[v] # "absent", ctr'[v] = "absent"
                 PROVE  \E p \in Procs : cmd[p] = "delete" /\ vm[p] = v /\ flag[p]
      BY <1>1
    <2>1. \E p \in Procs : RemoveVM(p) /\ vm[p] = v
      <3> USE DEF Inv, TypeOK, CtrStates
      <3>1. ASSUME NEW p \in Procs, Step(p) \/ Call(p) \/ ConfirmAction(p) \/ Kill(p)
            PROVE  RemoveVM(p) /\ vm[p] = v
        <4>1. CASE Call(p) \/ ConfirmAction(p) \/ Kill(p) \/ Return(p)
          BY <4>1, <1>1 DEF Call, ConfirmAction, Kill, Return, Exit, podman
        <4>2. CASE CLoad(p) \/ NewPodmanClient(p) \/ ExistsVM(p) \/ EnsureImage(p)
                   \/ PrepareSizedDisks(p) \/ RestoreRuntimeSupport(p)
                   \/ StartInspect(p) \/ StartPoll(p) \/ Sleep(p) \/ StopPoll(p)
                   \/ FinalState(p) \/ InspectVM(p)
          BY <4>2, <1>1 DEF CLoad, NewPodmanClient, ExistsVM, EnsureImage,
             PrepareSizedDisks, RestoreRuntimeSupport, StartInspect, StartPoll,
             Sleep, StopPoll, FinalState, InspectVM, podman
        <4>3. CASE CreateVM(p) \/ StartVM(p) \/ Shutdown(p) \/ Destroy(p)
          BY <4>3, <1>1 DEF CreateVM, StartVM, Shutdown, Destroy, SetCtr
        <4>4. CASE StopVM(p)
          BY <4>4, <1>1 DEF StopVM, SetCtr, podman
        <4>5. CASE RemoveVM(p)
          BY <4>5, <1>1 DEF RemoveVM, SetCtr, podman
        <4> QED BY <3>1, <4>1, <4>2, <4>3, <4>4, <4>5 DEF Step
      <3>2. ASSUME NEW w \in VMs, Boot(w) \/ GuestChange(w) \/ ContainerExit(w)
            PROVE  FALSE
        BY <3>2, <1>1 DEF Boot, GuestChange, ContainerExit, SetCtr
      <3> QED BY <3>1, <3>2 DEF Next
    <2> QED BY <2>1, <1>1 DEF Inv, OwnCalls, OwnCall, RemoveVM, At, DeleteCalls,
                              ConsentedCalls
  <1> QED BY <1>1, Invariance, PTL DEF Spec, ConsentBeforeRemoval

-----------------------------------------------------------------------------
(* stop --graceful waits its time out, if nobody disturbs it. *)

\* A process changes no other one's locals and, while at work, only the VM
\* it names; an idle one changes no VM.
LEMMA Frame ==
  ASSUME Inv, NEW q \in Procs, Step(q) \/ Call(q) \/ ConfirmAction(q) \/ Kill(q)
  PROVE  /\ \A p \in Procs \ {q} : /\ pc'[p] = pc[p] /\ vm'[p] = vm[p]
                                   /\ left'[p] = left[p]
         /\ \A v \in VMs : v # vm[q] \/ pc[q] = "idle" =>
               ctr'[v] = ctr[v] /\ dom'[v] = dom[v]
  <1> USE DEF Inv, TypeOK, Goto, SetDeadline, SetCtr, SetDom, DomCall, At, podman, args
  <1>1. CASE Call(q) \/ ConfirmAction(q) \/ Kill(q) \/ Return(q)
    BY <1>1 DEF Call, ConfirmAction, Kill, Return, Exit
  <1>2. CASE CLoad(q) \/ NewPodmanClient(q) \/ ExistsVM(q) \/ EnsureImage(q)
             \/ PrepareSizedDisks(q) \/ RestoreRuntimeSupport(q)
             \/ StartInspect(q) \/ InspectVM(q) \/ FinalState(q)
    BY <1>2 DEF CLoad, NewPodmanClient, ExistsVM, EnsureImage, FinalState,
       PrepareSizedDisks, RestoreRuntimeSupport, StartInspect, InspectVM
  <1>3. CASE StartPoll(q) \/ Sleep(q) \/ StopPoll(q)
    BY <1>3 DEF StartPoll, Sleep, StopPoll
  <1>4. CASE CreateVM(q) \/ StartVM(q)
    BY <1>4 DEF CreateVM, StartVM
  <1>5. CASE Shutdown(q) \/ Destroy(q)
    BY <1>5 DEF Shutdown, Destroy
  <1>6. CASE StopVM(q)
    BY <1>6 DEF StopVM
  <1>7. CASE RemoveVM(q)
    BY <1>7 DEF RemoveVM
  <1> QED BY <1>1, <1>2, <1>3, <1>4, <1>5, <1>6, <1>7 DEF Step

\* A process that waits came there by its own shutdown request, which the
\* domain took, and looks at the domain before it gives up.
LEMMA OwnWait ==
  ASSUME ~VirshFaults, Inv, NEW p \in Procs, WaitOK(p),
         Step(p) \/ Call(p) \/ ConfirmAction(p) \/ Kill(p)
  PROVE  WaitOK(p)'
  <1> USE DEF Inv, TypeOK, Goto, At, podman, args
  <1>1. CASE Call(p) \/ ConfirmAction(p) \/ Kill(p) \/ Return(p)
    <2>1. pc'[p] \in {"client", "c_load", "d_inspect", "aborted", "err", "idle"}
      BY <1>1 DEF Call, ConfirmAction, Kill, Return, Exit
    <2> QED BY <2>1 DEF WaitOK
  <1>2. CASE CLoad(p) \/ NewPodmanClient(p) \/ EnsureImage(p)
             \/ PrepareSizedDisks(p) \/ RestoreRuntimeSupport(p)
             \/ StartInspect(p) \/ InspectVM(p)
    <2>1. pc'[p] \notin {"t_poll", "t_sleep", "t_final"}
      BY <1>2 DEF CLoad, NewPodmanClient, EnsureImage, PrepareSizedDisks,
                  RestoreRuntimeSupport, StartInspect, InspectVM
    <2> QED BY <2>1 DEF WaitOK
  <1>3. CASE ExistsVM(p)
    <2>1. \E found \in BOOLEAN : pc'[p] = AfterExists(p, found) \/ pc'[p] = "err"
      BY <1>3 DEF ExistsVM
    <2>2. pc'[p] \notin {"t_poll", "t_sleep", "t_final"}
      BY <2>1 DEF AfterExists, Commands
    <2> QED BY <2>2 DEF WaitOK
  <1>4. CASE CreateVM(p) \/ StartVM(p) \/ StartPoll(p) \/ Destroy(p) \/ StopVM(p)
             \/ RemoveVM(p) \/ FinalState(p)
    <2>1. pc'[p] \notin {"t_poll", "t_sleep", "t_final"}
      BY <1>4 DEF CreateVM, StartVM, StartPoll, Destroy, StopVM, RemoveVM, FinalState
    <2> QED BY <2>1 DEF WaitOK
  <1>5. CASE Sleep(p)
    <2>1. /\ pc'[p] = "s_poll" \/ (pc'[p] = "t_poll" /\ pc[p] = "t_sleep")
          /\ ctr' = ctr /\ dom' = dom /\ vm' = vm
      BY <1>5 DEF Sleep
    <2> QED BY <2>1 DEF WaitOK
  <1>6. CASE Shutdown(p)
    <2>1. /\ pc'[p] = "t_destroy" \/ (pc'[p] = "t_poll" /\ DomCall(vm[p], "other", FALSE))
          /\ ctr' = ctr /\ vm' = vm
      BY <1>6 DEF Shutdown
    <2>2. DomCall(vm[p], "other", FALSE) => dom'[vm[p]] = "other"
      BY DEF DomCall, SetDom
    <2> QED BY <2>1, <2>2 DEF WaitOK
  <1>7. CASE StopPoll(p)
    <2>1. /\ pc[p] = "t_poll" /\ pc'[p] \in {"t_final", "t_sleep"}
          /\ ctr' = ctr /\ dom' = dom /\ vm' = vm
      BY <1>7 DEF StopPoll
    <2>2. CASE left[p] = 0 /\ left' = left
      BY <2>1, <2>2 DEF WaitOK
    <2>3. CASE \E s \in DomState(vm[p]) :
                 pc'[p] = IF s \in {"error", "shut off"} THEN "t_final" ELSE "t_sleep"
      <3>1. dom[vm[p]] \in {"none", "shut off"} \/ pc'[p] = "t_sleep"
        BY <2>3 DEF DomState, DomainInContainer, DomStates
      <3> QED BY <2>1, <3>1 DEF WaitOK
    <2> QED BY <1>7, <2>2, <2>3 DEF StopPoll
  <1> QED BY <1>1, <1>2, <1>3, <1>4, <1>5, <1>6, <1>7 DEF Step

\* While no two commands are at work on one VM, every step keeps WaitInv: a
\* guest that is off stays off, for nobody but the waiting process could
\* start its container anew.
LEMMA NextWait ==
  ASSUME ~VirshFaults, Inv, OneCommandPerVM, WaitInv, [Next]_vars
  PROVE  WaitInv'
  <1> SUFFICES ASSUME NEW p \in Procs PROVE WaitOK(p)'
    BY DEF WaitInv
  <1>1. WaitOK(p) /\ vm[p] \in VMs
    BY DEF WaitInv, Inv, TypeOK
  <1>2. CASE UNCHANGED vars
    BY <1>1, <1>2 DEF WaitOK, vars
  <1>3. ASSUME NEW q \in Procs, Step(q) \/ Call(q) \/ ConfirmAction(q) \/ Kill(q)
        PROVE  WaitOK(p)'
    <2>1. CASE q = p
      BY <1>1, <1>3, <2>1, OwnWait
    <2>2. CASE q # p
      <3>1. pc'[p] = pc[p] /\ vm'[p] = vm[p] /\ left'[p] = left[p]
        BY <1>3, <2>2, Frame
      <3>2. CASE pc[p] = "idle"
        BY <3>1, <3>2 DEF WaitOK
      <3>3. CASE pc[p] # "idle"
        <4>1. pc[q] = "idle" \/ vm[p] # vm[q]
          BY <2>2, <3>3 DEF OneCommandPerVM
        <4>2. ctr'[vm[p]] = ctr[vm[p]] /\ dom'[vm[p]] = dom[vm[p]]
          BY <1>1, <1>3, <4>1, Frame
        <4> QED BY <1>1, <3>1, <4>2 DEF WaitOK
      <3> QED BY <3>2, <3>3
    <2> QED BY <2>1, <2>2
  <1>4. ASSUME NEW v \in VMs, Boot(v) \/ GuestChange(v) \/ ContainerExit(v)
        PROVE  WaitOK(p)'
    <2>1. pc' = pc /\ vm' = vm /\ left' = left
      BY <1>4 DEF Boot, GuestChange, ContainerExit, args
    <2>2. CASE v # vm[p]
      <3>1. ctr'[vm[p]] = ctr[vm[p]] /\ dom'[vm[p]] = dom[vm[p]]
        BY <1>1, <1>4, <2>2 DEF Boot, GuestChange, ContainerExit, SetCtr, SetDom,
                                Inv, TypeOK
      <3> QED BY <1>1, <2>1, <3>1 DEF WaitOK
    <2>3. CASE v = vm[p]
      <3>1. \/ ctr[v] = "running" /\ ctr' = ctr /\ dom[v] = "none"
            \/ dom[v] \in {"running", "other"} /\ dom'[v] # "none" /\ ctr' = ctr
            \/ ctr'[v] = "exited" /\ dom'[v] = "none"
        BY <1>4 DEF Boot, GuestChange, ContainerExit, SetCtr, SetDom, Inv, TypeOK
      <3> QED BY <1>1, <2>1, <2>3, <3>1 DEF WaitOK
    <2> QED BY <2>2, <2>3
  <1> QED BY <1>2, <1>3, <1>4 DEF Next

\* If virsh answers truly and no two commands are at work on one VM at the
\* same time, stop --graceful forces a guest that still runs only when its
\* time is used up, for every timeout, every number of VMs and of commands
\* on other VMs.  (The run with virsh faults shows that the first assumption
\* is needed.)
THEOREM GracefulWait ==
  ASSUME ~VirshFaults
  PROVE  Spec /\ []OneCommandPerVM => GracefulWaitsOut
  <1> DEFINE Waited == \A p \in Procs :
                 pc[p] = "t_final" /\ pc'[p] = "t_destroy"
                   /\ dom[vm[p]] = "running" => left[p] = 0
  <1>1. Init => WaitInv
    BY DEF Init, WaitInv, WaitOK
  <1>2. Inv /\ OneCommandPerVM /\ WaitInv /\ [Next]_vars => WaitInv'
    BY NextWait
  <1>3. WaitInv => [Waited]_vars
    BY DEF WaitInv, WaitOK
  <1> QED BY <1>1, <1>2, <1>3, Invariance, PTL DEF Spec, GracefulWaitsOut

-----------------------------------------------------------------------------
(* VmLifecycle implements VmStore.  The abstract variables are functions of *)
(* the concrete ones; a call of p changes them at p and at its VM only.     *)

Conds == [v \in VMs |-> Condition(v)]
Ops == [p \in Procs |-> Op(p)]
Ress == [p \in Procs |-> Result(p)]

\* A call of p that keeps its arguments changes the abstract processes only
\* in the result of p, as long as p does not leave its command.
LEMMA ResultStep ==
  ASSUME Inv, NEW p \in Procs, NEW l \in Labels \ {"idle"}, Goto(p, l),
         pc[p] # "idle", UNCHANGED args
  PROVE  /\ Ops' = Ops
         /\ Ress' = [Ress EXCEPT ![p] = Result(p)']
         /\ vm' = vm
  <1>1. cmd' = cmd /\ vm' = vm /\ flag' = flag
    BY DEF args
  <1>2. \A q \in Procs : pc'[q] = IF q = p THEN l ELSE pc[q]
    BY DEF Inv, TypeOK, Goto
  <1>3. \A q \in Procs : Op(q)' = Op(q)
    BY <1>1, <1>2 DEF Op
  <1>4. \A q \in Procs \ {p} : Result(q)' = Result(q)
    BY <1>2 DEF Result
  <1> QED BY <1>1, <1>3, <1>4 DEF Ops, Ress

\* A step that changes the container or the domain of v alone changes the
\* abstract VMs at v alone.
LEMMA CondStep ==
  ASSUME Inv, NEW v \in VMs, NEW c, NEW d,
         ctr' = [ctr EXCEPT ![v] = c], dom' = [dom EXCEPT ![v] = d]
  PROVE  Conds' = [Conds EXCEPT ![v] = Condition(v)']
  <1>1. \A w \in VMs \ {v} : ctr'[w] = ctr[w] /\ dom'[w] = dom[w]
    BY DEF Inv, TypeOK
  <1>2. \A w \in VMs \ {v} : Condition(w)' = Condition(w)
    BY <1>1 DEF Condition
  <1> QED BY <1>2 DEF Conds

\* Containers and domains that stay as they are keep the abstract VMs.
LEMMA CondSame ==
  ASSUME UNCHANGED podman
  PROVE  Conds' = Conds
  BY DEF podman, Conds, Condition

\* The conditions a container and its domain stand for.
LEMMA CondValue ==
  ASSUME Inv, NEW v \in VMs
  PROVE  /\ Condition(v) \in {"absent", "stopped", "launched", "up"}
         /\ Condition(v) = "absent" <=> ctr[v] = "absent"
         /\ Condition(v) = "stopped" <=> ctr[v] \in {"created", "exited"}
         /\ Condition(v) = "up" <=> ctr[v] = "running" /\ dom[v] = "running"
  BY DEF Inv, TypeOK, CtrStates, Condition

\* A call that leaves the Podman state alone fails, has seen the guest up, or
\* is invisible.
LEMMA QueryStore ==
  ASSUME Inv, NEW p \in Procs,
         \/ CLoad(p) \/ NewPodmanClient(p) \/ ExistsVM(p) \/ EnsureImage(p)
         \/ PrepareSizedDisks(p) \/ RestoreRuntimeSupport(p)
         \/ StartInspect(p) \/ StartPoll(p) \/ Sleep(p) \/ StopPoll(p)
         \/ FinalState(p) \/ InspectVM(p)
  PROVE  Store!Fail(p) \/ Store!SeenUp(p) \/ UNCHANGED Store!vars
  <1>1. /\ cmd[p] \in Commands /\ flag[p] \in BOOLEAN /\ vm[p] \in VMs
        /\ OwnCall(pc[p], cmd[p], flag[p])
    BY DEF Inv, TypeOK, OwnCalls
  <1>2. UNCHANGED podman /\ UNCHANGED args /\ pc[p] # "idle"
    BY DEF CLoad, NewPodmanClient, ExistsVM, EnsureImage, PrepareSizedDisks,
           RestoreRuntimeSupport, StartInspect, StartPoll, Sleep, StopPoll,
           FinalState, InspectVM, At
  <1>3. PICK l \in Labels \ {"idle"} :
          /\ Goto(p, l)
          /\ \/ l \in {"s_poll", "s_sleep"} /\ pc[p] \in {"s_poll", "s_sleep"}
             \/ l = "err" /\ pc[p] \notin Done
             \/ /\ l = "ok" /\ pc[p] = "s_poll"
                /\ ctr[vm[p]] = "running" /\ dom[vm[p]] = "running"
             \/ l \notin Done \cup {"s_poll", "s_sleep"}
                /\ pc[p] \notin Done \cup {"s_poll", "s_sleep"}
    <2> USE DEF At, Labels, Done, CreateCalls, StartCalls, StopCalls,
               ConsentedCalls, DeleteCalls
    <2>1. CASE ExistsVM(p)
      <3>1. \E found \in BOOLEAN : Goto(p, AfterExists(p, found)) \/ Goto(p, "err")
        BY <2>1 DEF ExistsVM
      <3>2. \A found \in BOOLEAN : AfterExists(p, found) \in
              {"err", "c_image", "s_inspect", "t_shutdown", "t_destroy",
               "d_inspect", "d_confirm"}
        BY <1>1 DEF AfterExists, Commands
      <3>3. pc[p] = "exists"
        BY <2>1 DEF ExistsVM
      <3> QED BY <3>1, <3>2, <3>3
    <2>2. CASE StartPoll(p)
      <3>1. pc[p] = "s_poll"
        BY <2>2 DEF StartPoll
      <3>2. \/ Goto(p, "err") \/ Goto(p, "s_sleep")
            \/ Goto(p, "ok") /\ "running" \in DomState(vm[p])
        BY <2>2 DEF StartPoll
      <3>3. "running" \in DomState(vm[p]) =>
              ctr[vm[p]] = "running" /\ dom[vm[p]] = "running"
        BY VirshFaultsAssumption DEF DomState
      <3> QED BY <3>1, <3>2, <3>3
    <2>3. CASE Sleep(p)
      BY <2>3 DEF Sleep
    <2>4. CASE StopPoll(p)
      <3>1. pc[p] = "t_poll" /\ (Goto(p, "t_final") \/ Goto(p, "t_sleep"))
        BY <2>4 DEF StopPoll
      <3> QED BY <3>1
    <2>5. CASE FinalState(p)
      <3>1. pc[p] = "t_final" /\ (Goto(p, "t_stop") \/ Goto(p, "t_destroy"))
        BY <2>5 DEF FinalState
      <3> QED BY <3>1
    <2>6. CASE CLoad(p) \/ NewPodmanClient(p) \/ EnsureImage(p)
               \/ PrepareSizedDisks(p)
      BY <2>6 DEF CLoad, NewPodmanClient, EnsureImage, PrepareSizedDisks
    <2>7. CASE RestoreRuntimeSupport(p) \/ StartInspect(p)
      BY <2>7 DEF RestoreRuntimeSupport, StartInspect
    <2>8. CASE InspectVM(p)
      <3>1. pc[p] = "d_inspect" /\ (Goto(p, "d_destroy") \/ Goto(p, "d_remove"))
        BY <2>8 DEF InspectVM
      <3> QED BY <3>1
    <2> QED BY <2>1, <2>2, <2>3, <2>4, <2>5, <2>6, <2>7, <2>8
  <1>4. Conds' = Conds /\ Ops' = Ops /\ vm' = vm
        /\ Ress' = [Ress EXCEPT ![p] = Result(p)']
    BY <1>2, <1>3, CondSame, ResultStep
  <1>5. pc'[p] = l
    BY <1>3 DEF Goto, Inv, TypeOK
  <1>6. Op(p) # "none"
    BY <1>1, <1>2 DEF Op, Commands
  <1>7. CASE l = "err" /\ pc[p] \notin Done
    <2>1. Result(p)' = "err" /\ Result(p) \in {"pending", "started"}
      BY <1>5, <1>7 DEF Result, Done
    <2> QED BY <1>4, <1>6, <2>1 DEF Store!Fail, Conds, Ops, Ress
  <1>8. CASE l = "ok" /\ pc[p] = "s_poll"
    <2>1. Result(p)' = "ok" /\ Result(p) = "started" /\ Condition(vm[p]) = "up"
      BY <1>1, <1>3, <1>5, <1>8, CondValue DEF Result, Done
    <2> QED BY <1>1, <1>4, <2>1 DEF Store!SeenUp, Conds, Ops, Ress
  <1>9. CASE ~(l = "err" /\ pc[p] \notin Done) /\ ~(l = "ok" /\ pc[p] = "s_poll")
    <2>1. Result(p)' = Result(p)
      BY <1>3, <1>5, <1>9 DEF Result, Done
    <2> QED BY <1>4, <2>1 DEF Store!vars, Conds, Ops, Ress
  <1> QED BY <1>7, <1>8, <1>9

\* What a guest does, or what virsh does to it, is a step of the guest.
LEMMA GuestStore ==
  ASSUME Inv, Inv', NEW v \in VMs, ctr[v] = "running",
         ctr'[v] \in {"running", "exited"},
         ctr' = [ctr EXCEPT ![v] = ctr'[v]], dom' = [dom EXCEPT ![v] = dom'[v]],
         Ops' = Ops, Ress' = Ress, vm' = vm
  PROVE  Store!Guest(v)
  <1>1. Conds' = [Conds EXCEPT ![v] = Condition(v)']
    BY CondStep
  <1>2. Condition(v) \in {"launched", "up"}
    BY CondValue
  <1>3. Condition(v)' \in {"stopped", "launched", "up"}
    BY DEF Condition
  <1> QED BY <1>1, <1>2, <1>3 DEF Store!Guest, Conds, Ops, Ress

\* A virsh call is a step of the guest, or invisible.
LEMMA DomCallStore ==
  ASSUME Inv, Inv', NEW v \in VMs, NEW s \in DomStates, NEW failed \in BOOLEAN,
         DomCall(v, s, failed), ctr' = ctr, Ops' = Ops, Ress' = Ress, vm' = vm
  PROVE  Store!Guest(v) \/ UNCHANGED Store!vars
  <1>1. CASE dom' = dom
    BY <1>1, CondSame DEF podman, Store!vars, Conds, Ops, Ress
  <1>2. CASE dom' = [dom EXCEPT ![v] = s] /\ ctr[v] = "running"
    <2>1. dom'[v] = s /\ ctr' = [ctr EXCEPT ![v] = ctr'[v]] /\ ctr'[v] = "running"
      BY <1>2 DEF Inv, TypeOK
    <2> QED BY <1>2, <2>1, GuestStore
  <1> QED BY <1>1, <1>2 DEF DomCall, SetDom

\* A call that fails without an effect.
LEMMA FailStore ==
  ASSUME Inv, NEW p \in Procs, pc[p] \notin Done \cup {"idle"},
         Goto(p, "err"), UNCHANGED podman, UNCHANGED args
  PROVE  Store!Fail(p)
  <1>1. "err" \in Labels \ {"idle"}
    BY DEF Labels, Done
  <1>2. Conds' = Conds /\ Ops' = Ops /\ vm' = vm
        /\ Ress' = [Ress EXCEPT ![p] = Result(p)']
    BY <1>1, CondSame, ResultStep
  <1>3. Result(p)' = "err" /\ Result(p) \in {"pending", "started"}
    BY DEF Result, Done, Goto, Inv, TypeOK
  <1>4. Op(p) # "none"
    BY DEF Op, Inv, TypeOK, Commands
  <1> QED BY <1>2, <1>3, <1>4 DEF Store!Fail, Conds, Ops, Ress

\* A call that takes effect on the VM of p and has the result l.
LEMMA EffectStore ==
  ASSUME Inv, NEW p \in Procs, NEW l \in {"ok", "err", "s_poll"}, Goto(p, l),
         UNCHANGED args, pc[p] \notin Done \cup {"idle", "s_poll", "s_sleep"},
         NEW c, NEW d, ctr' = [ctr EXCEPT ![vm[p]] = c],
         dom' = [dom EXCEPT ![vm[p]] = d]
  PROVE  /\ Conds' = [Conds EXCEPT ![vm[p]] = Condition(vm[p])']
         /\ Ops' = Ops /\ vm' = vm /\ Result(p) = "pending"
         /\ Ress' = [Ress EXCEPT ![p] = IF l = "s_poll" THEN "started" ELSE l]
  <1>1. l \in Labels \ {"idle"} /\ vm[p] \in VMs
    BY DEF Labels, Done, StartCalls, Inv, TypeOK
  <1>2. Result(p) = "pending"
    BY DEF Result, Done
  <1>3. Result(p)' = IF l = "s_poll" THEN "started" ELSE l
    BY DEF Result, Goto, Inv, TypeOK
  <1> QED BY <1>1, <1>2, <1>3, CondStep, ResultStep

\* Every call that can change a container or a domain takes the effect of
\* its command, fails, is a step of the guest or is invisible.
LEMMA CommandStore ==
  ASSUME Inv, Inv', NEW p \in Procs,
         \/ CreateVM(p) \/ StartVM(p) \/ Shutdown(p) \/ Destroy(p)
         \/ StopVM(p) \/ RemoveVM(p)
  PROVE  \/ Store!DoCreate(p) \/ Store!DoStart(p) \/ Store!DoStop(p)
         \/ Store!DoDelete(p) \/ Store!Fail(p) \/ Store!Guest(vm[p])
         \/ UNCHANGED Store!vars
  <1>1. /\ cmd[p] \in Commands /\ flag[p] \in BOOLEAN /\ vm[p] \in VMs
        /\ OwnCall(pc[p], cmd[p], flag[p])
        /\ ctr \in [VMs -> CtrStates] /\ dom \in [VMs -> DomStates]
        /\ (dom[vm[p]] # "none" => ctr[vm[p]] = "running")
    BY DEF Inv, TypeOK, OwnCalls, DomainInContainer
  <1>2. dom' = dom => dom' = [dom EXCEPT ![vm[p]] = dom[vm[p]]]
    BY <1>1
  <1>3. CASE CreateVM(p)
    <2>1. pc[p] = "c_create" /\ cmd[p] = "create" /\ UNCHANGED args /\ dom' = dom
      BY <1>1, <1>3 DEF CreateVM, At, OwnCall, CreateCalls
    <2>2. CASE ctr[vm[p]] = "absent" /\ ctr' = [ctr EXCEPT ![vm[p]] = "created"]
               /\ \E l \in {"ok", "err"} : Goto(p, l)
      <3>1. PICK l \in {"ok", "err"} : Goto(p, l)
        BY <2>2
      <3>2. /\ Conds' = [Conds EXCEPT ![vm[p]] = Condition(vm[p])']
            /\ Ops' = Ops /\ vm' = vm /\ Result(p) = "pending"
            /\ Ress' = [Ress EXCEPT ![p] = l]
        BY <1>2, <2>1, <2>2, <3>1, EffectStore DEF Done
      <3>3. Condition(vm[p]) = "absent" /\ Condition(vm[p])' = "stopped"
        BY <1>1, <2>1, <2>2 DEF Condition, args
      <3>4. Op(p) = "create"
        BY <2>1 DEF Op
      <3> QED BY <1>1, <3>1, <3>2, <3>3, <3>4 DEF Store!DoCreate, Store!Effect,
                 Conds, Ops, Ress
    <2>3. CASE ctr' = ctr /\ Goto(p, "err")
      BY <2>1, <2>3, FailStore DEF podman, Done
    <2> QED BY <1>3, <2>2, <2>3 DEF CreateVM, SetCtr
  <1>4. CASE StartVM(p)
    <2>1. pc[p] = "s_start" /\ cmd[p] = "start" /\ UNCHANGED args /\ dom' = dom
      BY <1>1, <1>4 DEF StartVM, At, OwnCall, StartCalls
    <2>2. CASE ctr[vm[p]] # "absent" /\ ctr' = [ctr EXCEPT ![vm[p]] = "running"]
      <3>1. PICK l \in {"ok", "err", "s_poll"} :
              Goto(p, l) /\ (l = "ok" => ~flag[p]) /\ (l = "s_poll" => flag[p])
        BY <1>4, <2>2 DEF StartVM
      <3>2. /\ Conds' = [Conds EXCEPT ![vm[p]] = Condition(vm[p])']
            /\ Ops' = Ops /\ vm' = vm /\ Result(p) = "pending"
            /\ Ress' = [Ress EXCEPT ![p] = IF l = "s_poll" THEN "started" ELSE l]
        BY <1>2, <2>1, <2>2, <3>1, EffectStore DEF Done
      <3>3. \/ Condition(vm[p]) = "stopped" /\ Condition(vm[p])' = "launched"
            \/ /\ Condition(vm[p]) \in {"launched", "up"}
               /\ Condition(vm[p])' = Condition(vm[p])
        BY <1>1, <2>1, <2>2 DEF Condition, args, CtrStates
      <3>4. Op(p) = IF flag[p] THEN "start_wait" ELSE "start"
        BY <2>1 DEF Op
      <3> DEFINE result == IF Op(p) = "start" THEN "ok" ELSE "started"
      <3>5. \E r \in {result, "err"} : Ress' = [Ress EXCEPT ![p] = r]
        BY <1>1, <3>1, <3>2, <3>4
      <3>6. Op(p) \in {"start", "start_wait"}
        BY <3>4
      <3> HIDE DEF result
      <3>7. \/ Store!Effect(p, Op(p), {"stopped"}, "launched", result)
            \/ Store!Effect(p, Op(p), {"launched", "up"}, Conds[vm[p]], result)
        BY <1>1, <3>2, <3>3, <3>5, <3>6 DEF Store!Effect, Conds, Ops, Ress
      <3> QED BY <3>6, <3>7 DEF Store!DoStart, Conds, result
    <2>3. CASE ctr' = ctr /\ Goto(p, "err")
      BY <2>1, <2>3, FailStore DEF podman, Done
    <2> QED BY <1>4, <2>2, <2>3 DEF StartVM, SetCtr
  <1>5. CASE Shutdown(p)
    <2>1. /\ pc[p] = "t_shutdown" /\ ctr' = ctr /\ UNCHANGED args
          /\ \E failed \in BOOLEAN : DomCall(vm[p], "other", failed)
          /\ \E l \in {"t_poll", "t_destroy"} : Goto(p, l)
      BY <1>5 DEF Shutdown, At
    <2>2. Ops' = Ops /\ vm' = vm /\ Ress' = Ress
      <3>1. PICK l \in {"t_poll", "t_destroy"} : Goto(p, l)
        BY <2>1
      <3>2. l \in Labels \ {"idle"} /\ pc'[p] = l
        BY <3>1 DEF Labels, StopCalls, Goto, Inv, TypeOK
      <3>3. Result(p)' = Result(p)
        BY <2>1, <3>2 DEF Result
      <3> QED BY <2>1, <3>1, <3>2, <3>3, ResultStep DEF Ress
    <2> QED BY <1>1, <2>1, <2>2, DomCallStore DEF DomStates
  <1>6. CASE Destroy(p)
    <2>1. /\ pc[p] \in {"t_destroy", "d_destroy"} /\ ctr' = ctr /\ UNCHANGED args
          /\ \E failed \in BOOLEAN : DomCall(vm[p], "shut off", failed)
          /\ \E l \in {"t_stop", "d_stop"} : Goto(p, l)
      BY <1>6 DEF Destroy, At
    <2>2. Ops' = Ops /\ vm' = vm /\ Ress' = Ress
      <3>1. PICK l \in {"t_stop", "d_stop"} : Goto(p, l)
        BY <2>1
      <3>2. l \in Labels \ {"idle"} /\ pc'[p] = l
        BY <3>1 DEF Labels, StopCalls, DeleteCalls, ConsentedCalls, Goto, Inv, TypeOK
      <3>3. Result(p)' = Result(p)
        BY <2>1, <3>2 DEF Result
      <3> QED BY <2>1, <3>1, <3>2, <3>3, ResultStep DEF Ress
    <2> QED BY <1>1, <2>1, <2>2, DomCallStore DEF DomStates
  <1>7. CASE StopVM(p)
    <2> DEFINE c == IF ctr[vm[p]] = "running" THEN "exited" ELSE ctr[vm[p]]
    <2>1. /\ UNCHANGED args /\ pc[p] \in {"t_stop", "d_stop"}
          /\ pc[p] = "t_stop" => cmd[p] = "stop"
          /\ pc[p] = "d_stop" => cmd[p] = "delete"
      <3>1. UNCHANGED args /\ pc[p] \in {"t_stop", "d_stop"}
        BY <1>7 DEF StopVM, At
      <3> QED BY <1>1, <3>1 DEF OwnCall, StopCalls, DeleteCalls, ConsentedCalls
    <2>2. CASE /\ ctr[vm[p]] # "absent" /\ ctr' = [ctr EXCEPT ![vm[p]] = c]
               /\ dom' = [dom EXCEPT ![vm[p]] = "none"] /\ cmd[p] = "stop"
               /\ \E l \in {"ok", "err"} : Goto(p, l)
      <3>1. PICK l \in {"ok", "err"} : Goto(p, l)
        BY <2>2
      <3>2. /\ Conds' = [Conds EXCEPT ![vm[p]] = Condition(vm[p])']
            /\ Ops' = Ops /\ vm' = vm /\ Result(p) = "pending"
            /\ Ress' = [Ress EXCEPT ![p] = l]
        BY <2>1, <2>2, <3>1, EffectStore DEF Done
      <3>3. /\ Condition(vm[p]) \in {"stopped", "launched", "up"}
            /\ Condition(vm[p])' = "stopped"
        BY <1>1, <2>1, <2>2 DEF Condition, args, CtrStates
      <3>4. Op(p) = "stop"
        BY <2>1, <2>2 DEF Op
      <3> QED BY <1>1, <3>1, <3>2, <3>3, <3>4 DEF Store!DoStop, Store!Effect,
                 Store!Conditions, Conds, Ops, Ress
    <2>3. CASE cmd[p] = "delete" /\ Goto(p, "d_remove")
      <3>1. "d_remove" \in Labels \ {"idle"} /\ pc'[p] = "d_remove"
        BY <2>3 DEF Labels, DeleteCalls, ConsentedCalls, Goto, Inv, TypeOK
      <3>2. Result(p)' = Result(p)
        BY <2>1, <2>3, <3>1 DEF Result
      <3>3. Ops' = Ops /\ vm' = vm /\ Ress' = Ress
        BY <2>1, <2>3, <3>1, <3>2, ResultStep DEF Ress
      <3>4. CASE ctr[vm[p]] = "running" /\ ctr' = [ctr EXCEPT ![vm[p]] = "exited"]
                 /\ dom' = [dom EXCEPT ![vm[p]] = "none"]
        <4>1. ctr'[vm[p]] = "exited" /\ dom'[vm[p]] = "none"
          BY <1>1, <3>4
        <4> QED BY <1>1, <3>3, <3>4, <4>1, GuestStore
      <3>5. CASE UNCHANGED podman
        BY <3>3, <3>5, CondSame DEF Store!vars, Conds, Ops, Ress
      <3>6. \/ /\ ctr[vm[p]] = "running" /\ ctr' = [ctr EXCEPT ![vm[p]] = "exited"]
               /\ dom' = [dom EXCEPT ![vm[p]] = "none"]
            \/ UNCHANGED podman
        <4>1. \/ /\ ctr' = [ctr EXCEPT ![vm[p]] = c]
                 /\ dom' = [dom EXCEPT ![vm[p]] = "none"]
              \/ UNCHANGED podman
          BY <1>7 DEF StopVM, SetCtr, SetDom
        <4>2. CASE ctr[vm[p]] # "running"
          BY <1>1, <4>1, <4>2 DEF podman
        <4> QED BY <4>1, <4>2
      <3> QED BY <3>4, <3>5, <3>6
    <2>4. CASE UNCHANGED podman /\ cmd[p] = "stop" /\ Goto(p, "err")
      BY <2>1, <2>4, FailStore DEF Done
    <2> QED BY <1>7, <2>1, <2>2, <2>3, <2>4 DEF StopVM, SetCtr, SetDom
  <1>8. CASE RemoveVM(p)
    <2>1. pc[p] = "d_remove" /\ cmd[p] = "delete" /\ UNCHANGED args
      BY <1>1, <1>8 DEF RemoveVM, At, OwnCall, DeleteCalls, ConsentedCalls
    <2>2. CASE /\ ctr[vm[p]] # "absent" /\ ctr' = [ctr EXCEPT ![vm[p]] = "absent"]
               /\ dom' = [dom EXCEPT ![vm[p]] = "none"]
               /\ \E l \in {"ok", "err"} : Goto(p, l)
      <3>1. PICK l \in {"ok", "err"} : Goto(p, l)
        BY <2>2
      <3>2. /\ Conds' = [Conds EXCEPT ![vm[p]] = Condition(vm[p])']
            /\ Ops' = Ops /\ vm' = vm /\ Result(p) = "pending"
            /\ Ress' = [Ress EXCEPT ![p] = l]
        BY <2>1, <2>2, <3>1, EffectStore DEF Done
      <3>3. /\ Condition(vm[p]) \in {"stopped", "launched", "up"}
            /\ Condition(vm[p])' = "absent"
        BY <1>1, <2>1, <2>2 DEF Condition, args, CtrStates
      <3>4. Op(p) = "delete"
        BY <2>1 DEF Op
      <3> QED BY <1>1, <3>1, <3>2, <3>3, <3>4 DEF Store!DoDelete, Store!Effect,
                 Store!Conditions, Conds, Ops, Ress
    <2>3. CASE UNCHANGED podman /\ Goto(p, "err")
      BY <2>1, <2>3, FailStore DEF Done
    <2> QED BY <1>8, <2>2, <2>3 DEF RemoveVM, SetCtr, SetDom
  <1> QED BY <1>3, <1>4, <1>5, <1>6, <1>7, <1>8

\* A command begins, is answered at the prompt, returns or is interrupted.
LEMMA ControlStore ==
  ASSUME Inv, Inv', NEW p \in Procs,
         Call(p) \/ ConfirmAction(p) \/ Return(p) \/ Kill(p)
  PROVE  \/ Store!Call(p) \/ Store!Decline(p) \/ Store!Fail(p)
         \/ Store!Return(p) \/ UNCHANGED Store!vars
  <1>1. UNCHANGED podman
    BY DEF Call, ConfirmAction, Return, Kill, Exit
  <1>2. Conds' = Conds
    BY <1>1, CondSame
  <1>3. CASE Call(p)
    <2>1. PICK c \in Commands, v \in VMs, f \in BOOLEAN :
            /\ cmd' = [cmd EXCEPT ![p] = c]
            /\ vm' = [vm EXCEPT ![p] = v]
            /\ flag' = [flag EXCEPT ![p] = f]
            /\ pc' = [pc EXCEPT ![p] = IF c = "create" THEN "c_load" ELSE "client"]
      BY <1>3 DEF Call, Goto
    <2> DEFINE o == IF c = "start" /\ f THEN "start_wait" ELSE c
    <2>2. o \in Store!Commands
      BY DEF Commands, Store!Commands
    <2>3. /\ Op(p)' = o
          /\ \A q \in Procs \ {p} : Op(q)' = Op(q)
      BY <2>1 DEF Op, Inv, TypeOK
    <2>4. /\ Result(p)' = "pending"
          /\ \A q \in Procs \ {p} : Result(q)' = Result(q)
      BY <2>1 DEF Result, Inv, TypeOK
    <2>5. Ops' = [Ops EXCEPT ![p] = o] /\ Ress' = [Ress EXCEPT ![p] = "pending"]
      BY <2>3, <2>4 DEF Ops, Ress
    <2>6. Op(p) = "none"
      BY <1>3 DEF Op, Call, At
    <2> HIDE DEF o
    <2> QED BY <1>2, <2>1, <2>2, <2>5, <2>6 DEF Store!Call, Conds, Ops, Ress
  <1>4. CASE ConfirmAction(p)
    <2>1. /\ pc[p] = "d_confirm" /\ cmd' = cmd /\ vm' = vm /\ cmd[p] = "delete"
      BY <1>4 DEF ConfirmAction, At, Inv, OwnCalls, OwnCall, DeleteCalls
    <2>2. PICK l \in {"d_inspect", "aborted", "err"} : pc' = [pc EXCEPT ![p] = l]
      BY <1>4 DEF ConfirmAction, Goto
    <2>3. Ops' = Ops
      <3>1. Op(p)' = Op(p)
        BY <2>1, <2>2 DEF Op, Inv, TypeOK
      <3>2. \A q \in Procs \ {p} : Op(q)' = Op(q)
        BY <1>4, <2>1, <2>2 DEF Op, Inv, TypeOK, ConfirmAction
      <3> QED BY <3>1, <3>2 DEF Ops
    <2>4. Ress' = [Ress EXCEPT ![p] = Result(p)']
      <3>1. \A q \in Procs \ {p} : Result(q)' = Result(q)
        BY <2>2 DEF Result, Inv, TypeOK
      <3> QED BY <3>1 DEF Ress
    <2>5. Result(p) = "pending" /\ Op(p) = "delete"
      BY <2>1 DEF Result, Op
    <2>6. CASE l = "aborted"
      <3>1. Result(p)' = "declined"
        BY <2>2, <2>6 DEF Result, Inv, TypeOK
      <3> QED BY <1>2, <2>1, <2>3, <2>4, <2>5, <3>1 DEF Store!Decline, Conds, Ops, Ress
    <2>7. CASE l = "err"
      <3>1. Result(p)' = "err"
        BY <2>2, <2>7 DEF Result, Inv, TypeOK
      <3> QED BY <1>2, <2>1, <2>3, <2>4, <2>5, <3>1 DEF Store!Fail, Conds, Ops, Ress
    <2>8. CASE l = "d_inspect"
      <3>1. Result(p)' = "pending"
        BY <2>2, <2>8 DEF Result, Inv, TypeOK
      <3> QED BY <1>2, <2>1, <2>3, <2>4, <2>5, <3>1 DEF Store!vars, Conds, Ops, Ress
    <2> QED BY <2>6, <2>7, <2>8
  <1>5. CASE Return(p) \/ Kill(p)
    <2>1. /\ pc[p] # "idle" /\ vm' = vm
          /\ pc' = [pc EXCEPT ![p] = "idle"]
          /\ cmd' = [cmd EXCEPT ![p] = "create"]
          /\ flag' = [flag EXCEPT ![p] = FALSE]
      BY <1>5 DEF Return, Kill, Exit, Goto, At, Done
    <2>2. Op(p) # "none"
      BY <2>1 DEF Op, Inv, TypeOK, Commands
    <2>3. /\ Op(p)' = "none"
          /\ \A q \in Procs \ {p} : Op(q)' = Op(q)
      BY <2>1 DEF Op, Inv, TypeOK
    <2>4. /\ Result(p)' = "pending"
          /\ \A q \in Procs \ {p} : Result(q)' = Result(q)
      BY <2>1 DEF Result, Inv, TypeOK
    <2>5. Ops' = [Ops EXCEPT ![p] = "none"] /\ Ress' = [Ress EXCEPT ![p] = "pending"]
      BY <2>3, <2>4 DEF Ops, Ress
    <2> QED BY <1>2, <2>1, <2>2, <2>5 DEF Store!Return, Conds, Ops, Ress
  <1> QED BY <1>3, <1>4, <1>5

\* Every step of the commands is a step of the store or invisible in it.
LEMMA NextStore ==
  ASSUME Inv, Inv', [Next]_vars
  PROVE  [Store!Next]_(Store!vars)
  <1>1. CASE UNCHANGED vars
    <2>1. UNCHANGED podman /\ pc' = pc /\ cmd' = cmd /\ vm' = vm /\ flag' = flag
      BY <1>1 DEF vars, podman
    <2>2. Ops' = Ops /\ Ress' = Ress /\ Conds' = Conds
      BY <2>1, CondSame DEF Ops, Ress, Op, Result
    <2> QED BY <2>1, <2>2 DEF Store!vars, Conds, Ops, Ress
  <1>2. ASSUME NEW p \in Procs, Step(p) \/ Call(p) \/ ConfirmAction(p) \/ Kill(p)
        PROVE  Store!Next \/ UNCHANGED Store!vars
    <2>1. vm[p] \in VMs
      BY DEF Inv, TypeOK
    <2> QED BY <1>2, <2>1, QueryStore, CommandStore, ControlStore
            DEF Step, Store!Next
  <1>3. ASSUME NEW v \in VMs, Boot(v) \/ GuestChange(v) \/ ContainerExit(v)
        PROVE  Store!Next
    <2>1. /\ ctr[v] = "running" /\ pc' = pc /\ cmd' = cmd /\ vm' = vm /\ flag' = flag
          /\ ctr'[v] \in {"running", "exited"}
          /\ ctr' = [ctr EXCEPT ![v] = ctr'[v]] /\ dom' = [dom EXCEPT ![v] = dom'[v]]
      BY <1>3 DEF Boot, GuestChange, ContainerExit, SetCtr, SetDom, args, Inv, TypeOK
    <2>2. Ops' = Ops /\ Ress' = Ress
      BY <2>1 DEF Ops, Ress, Op, Result
    <2> QED BY <2>1, <2>2, GuestStore DEF Store!Next
  <1> QED BY <1>1, <1>2, <1>3 DEF Next

\* The commands implement the VM store for any VMs, processes and timeouts:
\* each takes effect at most once and atomically, reports success only for
\* what was done, and touches only the VM it names.
THEOREM Refinement == Spec => ImplementsStore
  <1>1. Init => Store!Init
    BY DEF Init, Store!Init, Condition, Op, Result
  <1>2. Inv /\ Inv' /\ [Next]_vars => [Store!Next]_(Store!vars)
    BY NextStore
  <1> QED BY <1>1, <1>2, Invariance, PTL DEF Spec, ImplementsStore, Store!Spec
=============================================================================
