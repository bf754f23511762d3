------------------------------ MODULE VmStore ------------------------------
(***************************************************************************)
(* What podvirt promises about the virtual machines it keeps: a map from   *)
(* VM names to a condition, changed by the commands create, start, stop    *)
(* and delete.  A command takes effect at most once, at one instant        *)
(* between its call and its return; a command that reports success did     *)
(* take effect; one that reports an error may have (a reply can be lost).  *)
(* Guests boot, power off and fail on their own, but no VM comes up, comes *)
(* into being or vanishes except by a command that names it.               *)
(*                                                                         *)
(* VmLifecycle, the model of the commands' code, implements this.          *)
(***************************************************************************)
CONSTANTS
    VMs,      \* VM names
    Procs     \* podvirt processes

VARIABLES
    vm,       \* condition of each VM name
    op,       \* command each process is running, or "none"
    target,   \* the VM name it was given
    res       \* its result so far

vars == <<vm, op, target, res>>

\* "up": the guest runs; "launched": the container runs, the guest does not.
Conditions == {"absent", "stopped", "launched", "up"}
Commands == {"create", "start", "start_wait", "stop", "delete"}
Results == {"pending", "started", "ok", "err", "declined"}

Init ==
    /\ vm = [v \in VMs |-> "absent"]
    /\ op = [p \in Procs |-> "none"]
    /\ target \in [Procs -> VMs]
    /\ res = [p \in Procs |-> "pending"]

Call(p) ==
    /\ op[p] = "none"
    /\ \E c \in Commands, v \in VMs :
          /\ op' = [op EXCEPT ![p] = c]
          /\ target' = [target EXCEPT ![p] = v]
    /\ res' = [res EXCEPT ![p] = "pending"]
    /\ UNCHANGED vm

\* A command c on a VM in a condition of "from" leaves it in condition "to".
Effect(p, c, from, to, result) ==
    /\ op[p] = c
    /\ res[p] = "pending"
    /\ vm[target[p]] \in from
    /\ vm' = [vm EXCEPT ![target[p]] = to]
    /\ \E r \in {result, "err"} : res' = [res EXCEPT ![p] = r]
    /\ UNCHANGED <<op, target>>

\* Of several creators of one name, only the one that finds it absent wins.
DoCreate(p) == Effect(p, "create", {"absent"}, "stopped", "ok")

\* Starting a VM that runs already changes nothing and succeeds.
DoStart(p) ==
    \E c \in {"start", "start_wait"} :
        LET result == IF c = "start" THEN "ok" ELSE "started"
        IN  \/ Effect(p, c, {"stopped"}, "launched", result)
            \/ Effect(p, c, {"launched", "up"}, vm[target[p]], result)

\* start --wait succeeds only at an instant when the guest runs.
SeenUp(p) ==
    /\ res[p] = "started"
    /\ vm[target[p]] = "up"
    /\ res' = [res EXCEPT ![p] = "ok"]
    /\ UNCHANGED <<vm, op, target>>

DoStop(p) == Effect(p, "stop", Conditions \ {"absent"}, "stopped", "ok")

DoDelete(p) == Effect(p, "delete", Conditions \ {"absent"}, "absent", "ok")

\* The user answers the confirmation prompt of delete with anything but "y".
Decline(p) ==
    /\ op[p] = "delete" /\ res[p] = "pending"
    /\ res' = [res EXCEPT ![p] = "declined"]
    /\ UNCHANGED <<vm, op, target>>

Fail(p) ==
    /\ op[p] # "none" /\ res[p] \in {"pending", "started"}
    /\ res' = [res EXCEPT ![p] = "err"]
    /\ UNCHANGED <<vm, op, target>>

\* Return the result, or die before there is one.
Return(p) ==
    /\ op[p] # "none"
    /\ op' = [op EXCEPT ![p] = "none"]
    /\ res' = [res EXCEPT ![p] = "pending"]
    /\ UNCHANGED <<vm, target>>

\* A guest boots, leaves the running state (by itself or shut down by a
\* command under way), or takes its container down with it.
Guest(v) ==
    /\ vm[v] \in {"launched", "up"}
    /\ \E c \in {"stopped", "launched", "up"} : vm' = [vm EXCEPT ![v] = c]
    /\ UNCHANGED <<op, target, res>>

Next ==
    \/ \E p \in Procs :
          \/ Call(p) \/ DoCreate(p) \/ DoStart(p) \/ SeenUp(p) \/ DoStop(p)
          \/ DoDelete(p) \/ Decline(p) \/ Fail(p) \/ Return(p)
    \/ \E v \in VMs : Guest(v)

Spec == Init /\ [][Next]_vars
=============================================================================
