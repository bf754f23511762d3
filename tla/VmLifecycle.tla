---------------------------- MODULE VmLifecycle ----------------------------
(***************************************************************************)
(* The commands create, start, stop and delete (cmd/*.go) as processes     *)
(* that share one Podman service.  podvirt keeps no state of its own: a VM *)
(* is the Podman container podvirt-<name> and, inside a running one, the   *)
(* libvirt domain default_<name>.  Every call of the Podman API or of      *)
(* virsh is one atomic step; between two calls of a command anything else  *)
(* may happen to the VM, because no command takes a lock.                  *)
(*                                                                         *)
(* What create does to files on the host before it creates the container,  *)
(* and what start and create do to the QEMU support directory, succeeds or *)
(* fails here; QemuSupport models it.                                      *)
(***************************************************************************)
EXTENDS Naturals

CONSTANTS
    VMs,          \* VM names
    Procs,        \* podvirt processes
    Matches,      \* Matches[v]: the names whose container name contains
                  \* podvirt-v (Podman's name filter is an unanchored match)
    MaxTicks,     \* bound on the polls before a --timeout or --wait-timeout
    VirshFaults   \* TRUE: virsh may fail or answer garbage on a live domain

ASSUME MatchesAssumption ==
    Matches \in [VMs -> SUBSET VMs] /\ \A v \in VMs : v \in Matches[v]
ASSUME MaxTicksAssumption == MaxTicks \in Nat
ASSUME VirshFaultsAssumption == VirshFaults \in BOOLEAN

VARIABLES
    ctr,    \* state of the container of each VM, as Podman lists it
    dom,    \* state of the libvirt domain inside it
    pc,     \* next call of each process
    cmd,    \* its command
    vm,     \* the VM name on its command line
    flag,   \* start: --wait; stop: --graceful without --force;
            \* delete: --force, or the prompt was answered "y"
    left    \* polls left before the deadline

podman == <<ctr, dom>>
args == <<cmd, vm, flag>>
vars == <<ctr, dom, pc, cmd, vm, flag, left>>

Commands == {"create", "start", "stop", "delete"}
CtrStates == {"absent", "created", "running", "exited"}
\* "other": paused, in shutdown, crashed or a state parseDomainState does not
\* know; the commands tell only running and shut off apart.
DomStates == {"none", "running", "other", "shut off"}
Done == {"ok", "err", "aborted"}

\* The calls that only one of the commands makes.
CreateCalls == {"c_load", "c_image", "c_disks", "c_support", "c_create"}
StartCalls == {"s_inspect", "s_support", "s_start", "s_poll", "s_sleep"}
StopCalls == {"t_shutdown", "t_poll", "t_sleep", "t_final", "t_destroy", "t_stop"}
ConsentedCalls == {"d_inspect", "d_destroy", "d_stop", "d_remove"}
DeleteCalls == {"d_confirm"} \cup ConsentedCalls
Labels == {"idle", "client", "exists"} \cup Done \cup CreateCalls
          \cup StartCalls \cup StopCalls \cup DeleteCalls

Init ==
    /\ ctr = [v \in VMs |-> "absent"]
    /\ dom = [v \in VMs |-> "none"]
    /\ pc = [p \in Procs |-> "idle"]
    /\ cmd = [p \in Procs |-> "create"]
    /\ vm \in [Procs -> VMs]
    /\ flag = [p \in Procs |-> FALSE]
    /\ left = [p \in Procs |-> 0]

-----------------------------------------------------------------------------
(* Steps of a process *)

At(p, l) == pc[p] = l
Goto(p, l) == pc' = [pc EXCEPT ![p] = l]
SetCtr(v, s) == ctr' = [ctr EXCEPT ![v] = s]
SetDom(v, s) == dom' = [dom EXCEPT ![v] = s]
\* A deadline some polls away; a timeout of 0 or less leaves none.
SetDeadline(p) == \E n \in 0..MaxTicks : left' = [left EXCEPT ![p] = n]

\* A new command: its name, the VM it is given and the flags that matter.
Call(p) ==
    /\ At(p, "idle")
    /\ \E c \in Commands, v \in VMs, f \in BOOLEAN :
          /\ c = "create" => ~f
          /\ cmd' = [cmd EXCEPT ![p] = c]
          /\ vm' = [vm EXCEPT ![p] = v]
          /\ flag' = [flag EXCEPT ![p] = f]
          /\ Goto(p, IF c = "create" THEN "c_load" ELSE "client")
    /\ UNCHANGED <<podman, left>>

\* The configuration is loaded, merged with the flags and validated.
CLoad(p) ==
    /\ At(p, "c_load")
    /\ \E l \in {"client", "err"} : Goto(p, l)
    /\ UNCHANGED <<podman, args, left>>

\* Pre-flight check and connection to the Podman service.
NewPodmanClient(p) ==
    /\ At(p, "client")
    /\ \E l \in {"exists", "err"} : Goto(p, l)
    /\ UNCHANGED <<podman, args, left>>

\* Mutant: delete asks for confirmation when --force is given, not without.
AfterExistsUnasked(p, found) ==
    CASE cmd[p] = "create" -> IF found THEN "err" ELSE "c_image"
      [] cmd[p] = "start"  -> IF found THEN "s_inspect" ELSE "err"
      [] cmd[p] = "stop"   -> IF ~found THEN "err"
                              ELSE IF flag[p] THEN "t_shutdown" ELSE "t_destroy"
      [] cmd[p] = "delete" -> IF ~found THEN "err"
                              ELSE IF flag[p] THEN "d_confirm" ELSE "d_inspect"

\* The next call once the VM has been looked up, by the answer.
AfterExists(p, found) ==
    CASE cmd[p] = "create" -> IF found THEN "err" ELSE "c_image"
      [] cmd[p] = "start"  -> IF found THEN "s_inspect" ELSE "err"
      [] cmd[p] = "stop"   -> IF ~found THEN "err"
                              ELSE IF flag[p] THEN "t_shutdown" ELSE "t_destroy"
      [] cmd[p] = "delete" -> IF ~found THEN "err"
                              ELSE IF flag[p] THEN "d_inspect" ELSE "d_confirm"

\* Every status but 2xx reads as "does not exist", an error of the service
\* included; a request that gets no answer is an error.
ExistsVM(p) ==
    /\ At(p, "exists")
    /\ \/ ctr[vm[p]] # "absent" /\ Goto(p, AfterExists(p, TRUE))
       \/ Goto(p, AfterExists(p, FALSE))
       \/ Goto(p, "err")
    /\ UNCHANGED <<podman, args, left>>

-----------------------------------------------------------------------------
(* libvirt, through virsh inside the container *)

\* What GetState may answer.  Without a running container or a domain virsh
\* fails; the exit status is never looked at, so that a virsh that dies
\* without output reads as an unknown state.
DomState(v) ==
    IF ctr[v] # "running" THEN {"error"}
    ELSE {IF dom[v] = "none" THEN "error" ELSE dom[v]}
         \cup IF VirshFaults THEN {"error", "other"} ELSE {}

\* What virsh shutdown and virsh destroy do to the domain (become), and
\* whether they report an error.  A virsh call that is given up after 30s may
\* have taken effect; one that dies silently has not and reports none.
DomCall(v, become, failed) ==
    \/ /\ ctr[v] # "running" \/ dom[v] \in {"none", "shut off"}
       /\ failed
       /\ UNCHANGED dom
    \/ /\ ctr[v] = "running" /\ dom[v] \in {"running", "other"}
       /\ ~failed \/ VirshFaults
       /\ SetDom(v, become)
    \/ /\ ctr[v] = "running" /\ VirshFaults
       /\ UNCHANGED dom

-----------------------------------------------------------------------------
(* create *)

\* Pull the launcher image unless it is there.
EnsureImage(p) ==
    /\ At(p, "c_image")
    /\ \E l \in {"c_disks", "err"} : Goto(p, l)
    /\ UNCHANGED <<podman, args, left>>

\* Build the resized disks and convert the configuration.
PrepareSizedDisks(p) ==
    /\ At(p, "c_disks")
    /\ \E l \in {"c_support", "err"} : Goto(p, l)
    /\ UNCHANGED <<podman, args, left>>

\* restoreRuntimeSupport, the first call of CreateVM and the second of StartVM.
RestoreRuntimeSupport(p) ==
    /\ \/ At(p, "c_support") /\ \E l \in {"c_create", "err"} : Goto(p, l)
       \/ At(p, "s_support") /\ \E l \in {"s_start", "err"} : Goto(p, l)
    /\ UNCHANGED <<podman, args, left>>

\* Mutant: an existing container of that name is replaced.
CreateVMReplacing(p) ==
    /\ At(p, "c_create")
    /\ \/ /\ SetCtr(vm[p], "created")
          /\ SetDom(vm[p], "none")
          /\ \E l \in {"ok", "err"} : Goto(p, l)
       \/ UNCHANGED podman /\ Goto(p, "err")
    /\ UNCHANGED <<args, left>>

\* Podman refuses a name in use; a call that succeeds may lose its reply.
CreateVM(p) ==
    /\ At(p, "c_create")
    /\ \/ /\ ctr[vm[p]] = "absent"
          /\ SetCtr(vm[p], "created")
          /\ \E l \in {"ok", "err"} : Goto(p, l)
       \/ UNCHANGED ctr /\ Goto(p, "err")
    /\ UNCHANGED <<dom, args, left>>

-----------------------------------------------------------------------------
(* start *)

\* StartVM reads the launcher image of the container before it starts it.
StartInspect(p) ==
    /\ At(p, "s_inspect")
    /\ \/ ctr[vm[p]] # "absent" /\ Goto(p, "s_support")
       \/ Goto(p, "err")
    /\ UNCHANGED <<podman, args, left>>

\* Podman starts a container that does not run (its domain is yet to be
\* defined) and answers 304, no error, for one that does.
StartVM(p) ==
    /\ At(p, "s_start")
    /\ \/ /\ ctr[vm[p]] # "absent"
          /\ SetCtr(vm[p], "running")
          /\ \/ flag[p] /\ Goto(p, "s_poll") /\ SetDeadline(p)
             \/ ~flag[p] /\ Goto(p, "ok") /\ UNCHANGED left
             \/ Goto(p, "err") /\ UNCHANGED left
       \/ UNCHANGED <<ctr, left>> /\ Goto(p, "err")
    /\ UNCHANGED <<dom, args>>

\* Mutant: the deadline is not looked at.
StartPollForever(p) ==
    /\ At(p, "s_poll")
    /\ \E s \in DomState(vm[p]) :
          Goto(p, IF s = "running" THEN "ok" ELSE "s_sleep")
    /\ UNCHANGED <<podman, args, left>>

\* One turn of the loop of start --wait: give up at the deadline, or ask
\* for the state; the answer may take time.
StartPoll(p) ==
    /\ At(p, "s_poll")
    /\ \/ left[p] = 0 /\ Goto(p, "err") /\ UNCHANGED left
       \/ /\ left[p] > 0
          /\ \E s \in DomState(vm[p]) :
                Goto(p, IF s = "running" THEN "ok" ELSE "s_sleep")
          /\ \E n \in 0..left[p] : left' = [left EXCEPT ![p] = n]
    /\ UNCHANGED <<podman, args>>

\* time.Sleep between two polls of start --wait and of stop --graceful.
Sleep(p) ==
    /\ \/ At(p, "s_sleep") /\ Goto(p, "s_poll")
       \/ At(p, "t_sleep") /\ Goto(p, "t_poll")
    /\ IF left[p] = 0 THEN UNCHANGED left
       ELSE \E n \in 0..(left[p] - 1) : left' = [left EXCEPT ![p] = n]
    /\ UNCHANGED <<podman, args>>

-----------------------------------------------------------------------------
(* stop *)

\* The guest is asked to power off; the deadline counts from the answer.
Shutdown(p) ==
    /\ At(p, "t_shutdown")
    /\ \/ DomCall(vm[p], "other", FALSE) /\ Goto(p, "t_poll") /\ SetDeadline(p)
       \/ DomCall(vm[p], "other", TRUE) /\ Goto(p, "t_destroy") /\ UNCHANGED left
    /\ UNCHANGED <<ctr, args>>

\* Mutant: whatever does not run counts as shut off.
StopPollHasty(p) ==
    /\ At(p, "t_poll")
    /\ \/ left[p] = 0 /\ Goto(p, "t_final") /\ UNCHANGED left
       \/ /\ left[p] > 0
          /\ \E s \in DomState(vm[p]) :
                Goto(p, IF s = "running" THEN "t_sleep" ELSE "t_final")
          /\ \E n \in 0..left[p] : left' = [left EXCEPT ![p] = n]
    /\ UNCHANGED <<podman, args>>

\* One turn of the waiting loop: it ends at the deadline, when the domain is
\* shut off, and on any error.
StopPoll(p) ==
    /\ At(p, "t_poll")
    /\ \/ left[p] = 0 /\ Goto(p, "t_final") /\ UNCHANGED left
       \/ /\ left[p] > 0
          /\ \E s \in DomState(vm[p]) :
                Goto(p, IF s \in {"error", "shut off"} THEN "t_final" ELSE "t_sleep")
          /\ \E n \in 0..left[p] : left' = [left EXCEPT ![p] = n]
    /\ UNCHANGED <<podman, args>>

\* The state after the loop decides whether to force; its error is ignored.
FinalState(p) ==
    /\ At(p, "t_final")
    /\ \E s \in DomState(vm[p]) :
          Goto(p, IF s = "shut off" THEN "t_stop" ELSE "t_destroy")
    /\ UNCHANGED <<podman, args, left>>

\* stop and delete destroy the domain; an error is a warning.
Destroy(p) ==
    /\ \/ At(p, "t_destroy") /\ Goto(p, "t_stop")
       \/ At(p, "d_destroy") /\ Goto(p, "d_stop")
    /\ \E failed \in BOOLEAN : DomCall(vm[p], "shut off", failed)
    /\ UNCHANGED <<ctr, args, left>>

\* Podman stops a running container, and the domain with it; one that does
\* not run stays as it is.  stop returns the error, delete only prints it.
StopVM(p) ==
    LET v == vm[p]
        After(failed) ==
            IF cmd[p] = "delete" THEN "d_remove" ELSE IF failed THEN "err" ELSE "ok"
    IN  /\ At(p, "t_stop") \/ At(p, "d_stop")
        /\ \/ /\ ctr[v] # "absent"
              /\ SetCtr(v, IF ctr[v] = "running" THEN "exited" ELSE ctr[v])
              /\ SetDom(v, "none")
              /\ \E failed \in BOOLEAN : Goto(p, After(failed))
           \/ UNCHANGED podman /\ Goto(p, After(TRUE))
        /\ UNCHANGED <<args, left>>

-----------------------------------------------------------------------------
(* delete *)

\* The prompt: only "y" goes on; end of input counts as "no".
ConfirmAction(p) ==
    /\ At(p, "d_confirm")
    /\ \/ Goto(p, "d_inspect") /\ flag' = [flag EXCEPT ![p] = TRUE]
       \/ \E l \in {"aborted", "err"} : Goto(p, l) /\ UNCHANGED flag
    /\ UNCHANGED <<podman, cmd, vm, left>>

\* The state of the first container that Podman's name filter lets through,
\* which may be another VM's; an error counts as "not running".
InspectVM(p) ==
    /\ At(p, "d_inspect")
    /\ \/ \E v \in Matches[vm[p]] :
             /\ ctr[v] # "absent"
             /\ Goto(p, IF ctr[v] = "running" THEN "d_destroy" ELSE "d_remove")
       \/ Goto(p, "d_remove")
    /\ UNCHANGED <<podman, args, left>>

\* Mutant: the container that InspectVM's name filter found is removed.
RemoveVMMatched(p) ==
    /\ At(p, "d_remove")
    /\ \/ \E v \in Matches[vm[p]] :
             /\ ctr[v] # "absent"
             /\ SetCtr(v, "absent")
             /\ SetDom(v, "none")
             /\ \E l \in {"ok", "err"} : Goto(p, l)
       \/ UNCHANGED podman /\ Goto(p, "err")
    /\ UNCHANGED <<args, left>>

\* The container is removed by force: a running one is killed first.
RemoveVM(p) ==
    /\ At(p, "d_remove")
    /\ \/ /\ ctr[vm[p]] # "absent"
          /\ SetCtr(vm[p], "absent")
          /\ SetDom(vm[p], "none")
          /\ \E l \in {"ok", "err"} : Goto(p, l)
       \/ UNCHANGED podman /\ Goto(p, "err")
    /\ UNCHANGED <<args, left>>

-----------------------------------------------------------------------------
(* The end of a process, and the world around the processes *)

\* The process exits; its locals go with it.
Exit(p) ==
    /\ Goto(p, "idle")
    /\ cmd' = [cmd EXCEPT ![p] = "create"]
    /\ flag' = [flag EXCEPT ![p] = FALSE]
    /\ left' = [left EXCEPT ![p] = 0]
    /\ UNCHANGED <<podman, vm>>

Return(p) == pc[p] \in Done /\ Exit(p)

\* Interrupted (Ctrl-C) between two calls: no command catches a signal.
Kill(p) == ~At(p, "idle") /\ pc[p] \notin Done /\ Exit(p)

\* virt-launcher defines the domain and starts the guest.
Boot(v) ==
    /\ ctr[v] = "running" /\ dom[v] = "none"
    /\ SetDom(v, "running")
    /\ UNCHANGED <<ctr, pc, args, left>>

\* The guest pauses, resumes, begins to power off, is off, or crashes.
GuestChange(v) ==
    /\ ctr[v] = "running" /\ dom[v] \in {"running", "other"}
    /\ \E s \in {"running", "other", "shut off"} : SetDom(v, s)
    /\ UNCHANGED <<ctr, pc, args, left>>

\* The container ends: virt-launcher exits after its guest, or dies.
ContainerExit(v) ==
    /\ ctr[v] = "running"
    /\ SetCtr(v, "exited")
    /\ SetDom(v, "none")
    /\ UNCHANGED <<pc, args, left>>

\* The steps of a process that do not wait for the user.
Step(p) ==
    \/ CLoad(p) \/ NewPodmanClient(p) \/ ExistsVM(p)
    \/ EnsureImage(p) \/ PrepareSizedDisks(p) \/ RestoreRuntimeSupport(p)
    \/ CreateVM(p) \/ StartInspect(p) \/ StartVM(p) \/ StartPoll(p) \/ Sleep(p)
    \/ Shutdown(p) \/ StopPoll(p) \/ FinalState(p) \/ Destroy(p) \/ StopVM(p)
    \/ InspectVM(p) \/ RemoveVM(p) \/ Return(p)

Next ==
    \/ \E p \in Procs : Step(p) \/ Call(p) \/ ConfirmAction(p) \/ Kill(p)
    \/ \E v \in VMs : Boot(v) \/ GuestChange(v) \/ ContainerExit(v)

Spec == Init /\ [][Next]_vars

\* The Podman service answers every call, virsh is given up after 30s and
\* time passes: a process that need not wait for the user takes its next step.
FairSpec == Spec /\ \A p \in Procs : WF_vars(Step(p))

-----------------------------------------------------------------------------
(* Properties *)

\* The types of the state.
TypeOK ==
    /\ ctr \in [VMs -> CtrStates]
    /\ dom \in [VMs -> DomStates]
    /\ cmd \in [Procs -> Commands]
    /\ pc \in [Procs -> Labels]
    /\ vm \in [Procs -> VMs]
    /\ flag \in [Procs -> BOOLEAN]
    /\ left \in [Procs -> 0..MaxTicks]

\* The condition of a VM that VmStore speaks of.
Condition(v) ==
    CASE ctr[v] = "absent"              -> "absent"
      [] ctr[v] \in {"created", "exited"} -> "stopped"
      [] OTHER -> IF dom[v] = "running" THEN "up" ELSE "launched"

Op(p) ==
    IF pc[p] = "idle" THEN "none"
    ELSE IF cmd[p] = "start" /\ flag[p] THEN "start_wait" ELSE cmd[p]

Result(p) ==
    CASE pc[p] \in {"ok", "err"}         -> pc[p]
      [] pc[p] = "aborted"              -> "declined"
      [] pc[p] \in {"s_poll", "s_sleep"} -> "started"
      [] OTHER                          -> "pending"

Store == INSTANCE VmStore WITH
    vm     <- [v \in VMs |-> Condition(v)],
    op     <- [p \in Procs |-> Op(p)],
    target <- vm,
    res    <- [p \in Procs |-> Result(p)]

\* The commands, with every interleaving of their Podman and virsh calls,
\* implement the VM store: each takes effect at most once and atomically,
\* success is reported only for what was done, two creators of a name never
\* both win, start --wait succeeds only while the guest runs, and no VM comes
\* up or vanishes except by a command that names it.
ImplementsStore == Store!Spec

\* A domain exists only inside a running container: stop and rm take it down.
DomainInContainer == \A v \in VMs : dom[v] # "none" => ctr[v] = "running"

\* A command c makes only its own calls l; start polls only under --wait, and
\* delete goes past the prompt only with consent.
OwnCall(l, c, f) ==
    /\ l \in CreateCalls => c = "create"
    /\ l \in StartCalls => c = "start"
    /\ l \in StopCalls => c = "stop"
    /\ l \in DeleteCalls \cup {"aborted"} => c = "delete"
    /\ l \in {"s_poll", "s_sleep"} \cup ConsentedCalls => f

OwnCalls == \A p \in Procs : OwnCall(pc[p], cmd[p], flag[p])

\* The inductive invariant: podvirt's calls and the Podman state they leave.
Inv == TypeOK /\ DomainInContainer /\ OwnCalls

\* A container disappears only by a delete of that very VM whose user gave
\* --force or answered "y", whatever InspectVM's name filter matched.
ConsentBeforeRemoval ==
    [][\A v \in VMs : ctr[v] # "absent" /\ ctr'[v] = "absent" =>
          \E p \in Procs : cmd[p] = "delete" /\ vm[p] = v /\ flag[p]]_vars

\* stop --graceful forces a guest that still runs only when the timeout is
\* used up ("Seconds to wait for graceful shutdown before forcing").
GracefulWaitsOut ==
    [][\A p \in Procs : pc[p] = "t_final" /\ pc'[p] = "t_destroy"
          /\ dom[vm[p]] = "running" => left[p] = 0]_vars

\* Commands that are at work at the same time name different VMs.
OneCommandPerVM ==
    \A p, q \in Procs : p # q /\ pc[p] # "idle" /\ pc[q] # "idle" => vm[p] # vm[q]

\* What a graceful stop that nobody disturbs may rely on: the domain it waits
\* for stays defined while the container runs, and the wait is over only at
\* the deadline or with a domain that is gone or off.
WaitOK(p) ==
    /\ pc[p] \in {"t_poll", "t_sleep", "t_final"} /\ ctr[vm[p]] = "running" =>
          dom[vm[p]] # "none"
    /\ pc[p] = "t_final" => left[p] = 0 \/ dom[vm[p]] \in {"none", "shut off"}

WaitInv == \A p \in Procs : WaitOK(p)

\* Every command ends, or stands at the prompt: the polling loops reach their
\* deadline whatever virsh answers and whatever other commands do to the VM.
CommandsTerminate ==
    \A p \in Procs : pc[p] \notin {"idle", "d_confirm"}
                       ~> pc[p] \in {"idle", "d_confirm"}
=============================================================================
