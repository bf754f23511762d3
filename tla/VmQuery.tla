------------------------------ MODULE VmQuery ------------------------------
(***************************************************************************)
(* The commands that only look: list, status (with and without --watch),   *)
(* ssh and console (cmd/*.go), as a process beside those of VmLifecycle.   *)
(* They change no VM, and nothing keeps the VMs still while they look: the *)
(* list is one snapshot of the containers, followed by one virsh call per  *)
(* VM, and a watch goes on while VMs come and go.                          *)
(***************************************************************************)
EXTENDS VmLifecycle

CONSTANT Filters   \* the values given to list --state; "all" is its default

ASSUME FiltersAssumption == Filters \subseteq STRING /\ "all" \in Filters

VARIABLES
    qpc,      \* next call of the query
    qcmd,     \* its command
    qvm,      \* the VM name on its command line; list has none
    filter,   \* list --state
    todo,     \* list: the containers of the snapshot still to be asked about
    rows,     \* list: the state in the row of each VM listed so far
    steady    \* history: the VMs that have not changed since the snapshot

queryArgs == <<qcmd, qvm, filter>>
query == <<qpc, queryArgs, todo, rows>>
allVars == <<vars, query, steady>>

QueryCommands == {"list", "status", "watch", "ssh", "console"}
QueryLabels == {"idle", "client", "exists", "list", "rows", "inspect", "info",
                "sleep", "session", "ok", "err"}
NoArgument == CHOOSE v \in VMs : TRUE
Nothing == [v \in {} |-> "absent"]

QueryInit ==
    /\ Init
    /\ qpc = "idle"
    /\ qcmd = "list"
    /\ qvm = NoArgument
    /\ filter = "all"
    /\ todo = Nothing /\ rows = Nothing
    /\ steady = {}

QCall ==
    /\ qpc = "idle"
    /\ \E c \in QueryCommands, v \in VMs, f \in Filters :
          /\ IF c = "list" THEN v = NoArgument ELSE f = "all"
          /\ qcmd' = c /\ qvm' = v /\ filter' = f
    /\ qpc' = "client"
    /\ UNCHANGED <<todo, rows, steady>>

\* Pre-flight check and connection; ssh goes straight to InspectVM.
QConnect ==
    /\ qpc = "client"
    /\ qpc' \in {"err", CASE qcmd = "list" -> "list"
                          [] qcmd = "ssh" -> "inspect"
                          [] OTHER -> "exists"}
    /\ UNCHANGED <<queryArgs, todo, rows, steady>>

QExists ==
    /\ qpc = "exists"
    /\ \/ /\ ctr[qvm] # "absent"
          /\ qpc' = IF qcmd = "console" THEN "session" ELSE "inspect"
       \/ qpc' = "err"
    /\ UNCHANGED <<queryArgs, todo, rows, steady>>

-----------------------------------------------------------------------------
(* list *)

Listed == {v \in VMs : ctr[v] # "absent"}

\* Mutant: only running containers are listed (no WithAll).
ListVMsRunning ==
    /\ qpc = "list"
    /\ \/ /\ todo' = [v \in {w \in Listed : ctr[w] = "running"} |-> ctr[v]]
          /\ qpc' = IF todo' = Nothing THEN "ok" ELSE "rows"
          /\ steady' = VMs
       \/ qpc' = "err" /\ UNCHANGED <<todo, steady>>
    /\ rows' = Nothing
    /\ UNCHANGED queryArgs

\* Every container with the label, whatever its state, and the state it is in.
ListVMs ==
    /\ qpc = "list"
    /\ \/ /\ todo' = [v \in Listed |-> ctr[v]]
          /\ qpc' = IF todo' = Nothing THEN "ok" ELSE "rows"
          /\ steady' = VMs
       \/ qpc' = "err" /\ UNCHANGED <<todo, steady>>
    /\ rows' = Nothing
    /\ UNCHANGED queryArgs

\* Mutant: a failed dominfo is not noticed.
RowStateUnchecked(v, info) == info

\* The state of the domain, or of the container when dominfo fails.
RowState(v, info) == IF info = "error" THEN todo[v] ELSE info

\* One turn of the loop: GetInfo (its state is read as GetState's is) and the
\* filter, which is applied to what is shown; the last row ends the command.
ListRow ==
    /\ qpc = "rows"
    /\ \E v \in DOMAIN todo : \E info \in DomState(v) :
          /\ rows' = IF filter \notin {"all", RowState(v, info)} THEN rows
                     ELSE [w \in DOMAIN rows \cup {v} |->
                             IF w = v THEN RowState(v, info) ELSE rows[w]]
          /\ todo' = [w \in DOMAIN todo \ {v} |-> todo[w]]
          /\ qpc' = IF todo' = Nothing THEN "ok" ELSE "rows"
    /\ UNCHANGED <<queryArgs, steady>>

-----------------------------------------------------------------------------
(* status, ssh and console *)

\* Mutant: status --watch goes on after an error.
QInspectStubborn ==
    /\ qpc = "inspect"
    /\ \/ qcmd # "ssh" /\ qpc' = "info"
       \/ qcmd = "ssh" /\ qpc' = "err"
    /\ UNCHANGED <<queryArgs, todo, rows, steady>>

\* The first container that the name filter lets through, which may be
\* another VM's.  ssh gives up unless that one is running.
QInspect ==
    /\ qpc = "inspect"
    /\ \/ \E v \in Matches[qvm] :
             /\ ctr[v] # "absent"
             /\ qpc' = CASE qcmd # "ssh" -> "info"
                         [] qcmd = "ssh" /\ ctr[v] = "running" -> "session"
                         [] OTHER -> "err"
       \/ qpc' = "err"
    /\ UNCHANGED <<queryArgs, todo, rows, steady>>

\* GetInfo: an error is printed as "unavailable".
QInfo ==
    /\ qpc = "info"
    /\ qpc' = IF qcmd = "watch" THEN "sleep" ELSE "ok"
    /\ UNCHANGED <<queryArgs, todo, rows, steady>>

QSleep ==
    /\ qpc = "sleep"
    /\ qpc' = "inspect"
    /\ UNCHANGED <<queryArgs, todo, rows, steady>>

\* The ssh client, or podman exec for the console: it ends when it likes.
QSession ==
    /\ qpc = "session"
    /\ qpc' \in {"ok", "err"}
    /\ UNCHANGED <<queryArgs, todo, rows, steady>>

\* The command returns, or is interrupted; its locals go with it.
QExit ==
    /\ qpc' = "idle"
    /\ qcmd' = "list" /\ qvm' = NoArgument /\ filter' = "all"
    /\ todo' = Nothing /\ rows' = Nothing /\ steady' = {}

QReturn == qpc \in {"ok", "err"} /\ QExit
QKill == qpc \notin {"idle", "ok", "err"} /\ QExit

\* The steps that wait neither for the user nor for a session to end.
QueryStep ==
    QConnect \/ QExists \/ ListVMs \/ ListRow \/ QInspect \/ QInfo
    \/ QSleep \/ QReturn

\* A step of the world, which the query does not see until its next call.
WorldStep ==
    /\ Next
    /\ steady' = {v \in steady : ctr'[v] = ctr[v] /\ dom'[v] = dom[v]}
    /\ UNCHANGED query

QueryNext ==
    \/ WorldStep
    \/ (QueryStep \/ QCall \/ QSession \/ QKill) /\ UNCHANGED vars

QuerySpec == QueryInit /\ [][QueryNext]_allVars

\* The Podman service answers, virsh is given up after 30s and time passes.
FairQuerySpec == QuerySpec /\ WF_allVars(QueryStep /\ UNCHANGED vars)

-----------------------------------------------------------------------------
(* Properties *)

\* The state a VM is in, as list words it.
Own(v) == IF ctr[v] = "running" /\ dom[v] # "none" THEN dom[v] ELSE ctr[v]
RowStates == (CtrStates \cup DomStates) \ {"absent", "none"}

\* The types of the query's state: a row never shows an error for a state.
QueryTypeOK ==
    /\ qpc \in QueryLabels
    /\ qcmd \in QueryCommands
    /\ qvm \in VMs
    /\ filter \in Filters
    /\ DOMAIN todo \subseteq VMs /\ DOMAIN rows \subseteq VMs
    /\ \A v \in DOMAIN todo : todo[v] \in CtrStates \ {"absent"}
    /\ \A v \in DOMAIN rows : rows[v] \in RowStates
    /\ steady \subseteq VMs

\* What the row of v must be while v stays as it is.
RowRight(v) ==
    /\ v \in DOMAIN rows <=> ctr[v] # "absent" /\ filter \in {"all", Own(v)}
    /\ v \in DOMAIN rows => rows[v] = Own(v)

\* The inductive invariant of a list under way: of the VMs that have not
\* changed, the snapshot still holds for those to come and the rows for the
\* others.  (virsh answers truly, or not at all.)
LookInv ==
    /\ QueryTypeOK
    /\ qcmd = "list" => qpc \in {"idle", "client", "list", "rows", "ok", "err"}
    /\ qpc # "rows" => todo = Nothing
    /\ qcmd = "list" /\ qpc \in {"rows", "ok"} /\ ~VirshFaults =>
          \A v \in steady :
              IF v \in DOMAIN todo THEN todo[v] = ctr[v] /\ v \notin DOMAIN rows
              ELSE RowRight(v)

\* A list that is put together from one snapshot and several later calls is
\* right about every VM that does not change meanwhile, whatever happens to
\* the others: it is there iff it exists and is in the state asked for, with
\* its own state and nobody else's.  (virsh answers truly, or not at all.)
ListAccurate ==
    qpc = "ok" /\ qcmd = "list" /\ ~VirshFaults =>
        \A v \in steady : RowRight(v)

\* status --watch of a VM that was deleted ends by itself, unless the VM is
\* created anew in time, and unless its name is part of another's.
WatchEnds ==
    \A v \in VMs :
        Matches[v] = {v} =>
            (qcmd = "watch" /\ qvm = v /\ qpc # "idle" /\ ctr[v] = "absent"
                ~> qpc = "idle" \/ ctr[v] # "absent")
=============================================================================
