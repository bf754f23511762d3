--------------------------- MODULE VmQueryProofs ---------------------------
(***************************************************************************)
(* Proofs about VmQuery for every set of VMs and of processes beside the   *)
(* query: a list is right about the VMs that stay as they are.             *)
(***************************************************************************)
EXTENDS VmQuery, VmLifecycleProofs

\* The state that a query reads and does not change.
LEMMA Readable ==
  ASSUME Inv
  PROVE  ctr \in [VMs -> CtrStates] /\ dom \in [VMs -> DomStates]
  BY DEF Inv, TypeOK

LEMMA EmptyNothing == DOMAIN Nothing = {}
  BY DEF Nothing

LEMMA ArgumentType == (\E v : v \in VMs) => NoArgument \in VMs
  BY DEF NoArgument

LEMMA InitLook == (\E v : v \in VMs) /\ QueryInit => LookInv
  BY EmptyNothing, ArgumentType, FiltersAssumption
  DEF QueryInit, LookInv, QueryTypeOK, QueryLabels, QueryCommands

\* A step of the world keeps the VMs that count as steady as they are.
LEMMA WorldLook ==
  ASSUME LookInv, WorldStep
  PROVE  LookInv'
  <1>1. qpc' = qpc /\ qcmd' = qcmd /\ qvm' = qvm /\ filter' = filter
        /\ todo' = todo /\ rows' = rows
    BY DEF WorldStep, query, queryArgs
  <1>2. \A v \in steady' : v \in steady /\ ctr'[v] = ctr[v] /\ dom'[v] = dom[v]
    BY DEF WorldStep
  <1>3. \A v \in steady' : Own(v)' = Own(v)
    BY <1>2 DEF Own
  <1>4. \A v \in steady' : RowRight(v)' <=> RowRight(v)
    BY <1>1, <1>2, <1>3 DEF RowRight
  <1>5. QueryTypeOK'
    BY <1>1, <1>2 DEF LookInv, QueryTypeOK
  <1> QED BY <1>1, <1>2, <1>4, <1>5 DEF LookInv

\* The steps that touch neither the rows nor what they are about.
LEMMA PlainLook ==
  ASSUME LookInv, UNCHANGED vars, UNCHANGED <<queryArgs, todo, rows, steady>>,
         qpc' \in QueryLabels \ {"rows"},
         qcmd = "list" => qpc' \in {"idle", "client", "list", "err"},
         qpc # "rows"
  PROVE  LookInv'
  <1>1. qcmd' = qcmd /\ qvm' = qvm /\ filter' = filter
        /\ todo' = todo /\ rows' = rows /\ steady' = steady
    BY DEF queryArgs
  <1>2. QueryTypeOK'
    BY <1>1 DEF LookInv, QueryTypeOK
  <1> QED BY <1>1, <1>2 DEF LookInv

LEMMA CallLook ==
  ASSUME LookInv, QCall \/ QReturn \/ QKill
  PROVE  LookInv'
  <1>0. QueryTypeOK /\ qvm \in VMs
    BY DEF LookInv, QueryTypeOK
  <1>1. CASE QCall
    <2>1. /\ qpc = "idle" /\ qpc' = "client"
          /\ qcmd' \in QueryCommands /\ qvm' \in VMs /\ filter' \in Filters
          /\ todo' = todo /\ rows' = rows /\ steady' = steady
      BY <1>1 DEF QCall
    <2> QED BY <1>0, <2>1 DEF LookInv, QueryTypeOK, QueryLabels
  <1>2. CASE QReturn \/ QKill
    <2>1. /\ qpc' = "idle" /\ qcmd' = "list" /\ qvm' = NoArgument /\ filter' = "all"
          /\ todo' = Nothing /\ rows' = Nothing /\ steady' = {}
      BY <1>2 DEF QReturn, QKill, QExit
    <2>2. NoArgument \in VMs
      BY <1>0, ArgumentType
    <2> QED BY <2>1, <2>2, EmptyNothing, FiltersAssumption
         DEF LookInv, QueryTypeOK, QueryLabels, QueryCommands
  <1> QED BY <1>1, <1>2

LEMMA LookLook ==
  ASSUME LookInv, UNCHANGED vars,
         QConnect \/ QExists \/ QInspect \/ QInfo \/ QSleep \/ QSession
  PROVE  LookInv'
  <1>1. UNCHANGED <<queryArgs, todo, rows, steady>>
    BY DEF QConnect, QExists, QInspect, QInfo, QSleep, QSession
  <1>2. qpc' \in QueryLabels \ {"rows"}
    BY DEF QConnect, QExists, QInspect, QInfo, QSleep, QSession, QueryLabels
  <1>3. qcmd = "list" => qpc' \in {"idle", "client", "list", "err"}
    BY DEF LookInv, QConnect, QExists, QInspect, QInfo, QSleep, QSession
  <1>4. qpc # "rows"
    BY DEF QConnect, QExists, QInspect, QInfo, QSleep, QSession
  <1> QED BY <1>1, <1>2, <1>3, <1>4, PlainLook

\* The snapshot is right about every VM when it is taken.
LEMMA SnapshotLook ==
  ASSUME Inv, LookInv, UNCHANGED vars, ListVMs
  PROVE  LookInv'
  <1>1. /\ qcmd' = qcmd /\ qvm' = qvm /\ filter' = filter /\ ctr' = ctr /\ dom' = dom
        /\ rows' = Nothing /\ qpc = "list"
    BY DEF ListVMs, queryArgs, vars
  <1>2. QueryTypeOK /\ todo = Nothing
    BY <1>1 DEF LookInv
  <1>3. CASE qpc' = "err" /\ UNCHANGED <<todo, steady>>
    BY <1>1, <1>2, <1>3, EmptyNothing DEF LookInv, QueryTypeOK, QueryLabels
  <1>4. CASE /\ todo' = [v \in Listed |-> ctr[v]]
             /\ qpc' = IF todo' = Nothing THEN "ok" ELSE "rows"
             /\ steady' = VMs
    <2>1. DOMAIN todo' = Listed /\ \A v \in Listed : todo'[v] = ctr[v]
      BY <1>4
    <2>2. Listed \subseteq VMs /\ \A v \in Listed : ctr[v] \in CtrStates \ {"absent"}
      BY Readable DEF Listed
    <2>3. QueryTypeOK'
      BY <1>1, <1>2, <1>4, <2>1, <2>2, EmptyNothing DEF QueryTypeOK, QueryLabels
    <2>4. ASSUME NEW v \in VMs
          PROVE  IF v \in DOMAIN todo' THEN todo'[v] = ctr'[v] /\ v \notin DOMAIN rows'
                 ELSE RowRight(v)'
      BY <1>1, <2>1, EmptyNothing DEF Listed, RowRight
    <2>5. qpc' \in {"rows", "ok"} /\ (qpc' # "rows" => todo' = Nothing)
      BY <1>4
    <2>6. qcmd = "list" => qpc' \in {"idle", "client", "list", "rows", "ok", "err"}
      BY <2>5
    <2> QED BY <1>1, <1>4, <2>3, <2>4, <2>5, <2>6 DEF LookInv
  <1> QED BY <1>3, <1>4 DEF ListVMs

\* The row of a VM that is as it was in the snapshot shows its own state.
LEMMA RowLook ==
  ASSUME Inv, LookInv, UNCHANGED vars, ListRow
  PROVE  LookInv'
  <1>1. /\ qcmd' = qcmd /\ qvm' = qvm /\ filter' = filter /\ ctr' = ctr /\ dom' = dom
        /\ steady' = steady /\ qpc = "rows"
    BY DEF ListRow, queryArgs, vars
  <1> DEFINE Row(v, info) ==
               /\ rows' = IF filter \notin {"all", RowState(v, info)} THEN rows
                          ELSE [w \in DOMAIN rows \cup {v} |->
                                  IF w = v THEN RowState(v, info) ELSE rows[w]]
               /\ todo' = [w \in DOMAIN todo \ {v} |-> todo[w]]
               /\ qpc' = IF todo' = Nothing THEN "ok" ELSE "rows"
  <1>a. PICK v \in DOMAIN todo : \E info \in DomState(v) : Row(v, info)
    BY DEF ListRow
  <1>2. PICK info \in DomState(v) : Row(v, info)
    BY <1>a
  <1> DEFINE state == RowState(v, info)
  <1>3. /\ QueryTypeOK
        /\ v \in VMs /\ todo[v] \in CtrStates \ {"absent"}
        /\ ctr \in [VMs -> CtrStates] /\ dom \in [VMs -> DomStates]
    BY Readable DEF LookInv, QueryTypeOK
  <1>4. state \in RowStates
    BY <1>2, <1>3 DEF RowState, DomState, RowStates, CtrStates, DomStates
  <1>5. ~VirshFaults /\ todo[v] = ctr[v] => state = Own(v) /\ ctr[v] # "absent"
    BY <1>2, <1>3 DEF RowState, DomState, Own, DomStates
  <1> HIDE DEF state
  <1>6. rows' = IF filter \notin {"all", state} THEN rows
                ELSE [w \in DOMAIN rows \cup {v} |-> IF w = v THEN state ELSE rows[w]]
    BY <1>2 DEF state
  <1>7. /\ DOMAIN todo' = DOMAIN todo \ {v}
        /\ \A w \in DOMAIN todo' : todo'[w] = todo[w]
    BY <1>2
  <1>8. /\ DOMAIN rows' \subseteq DOMAIN rows \cup {v}
        /\ \A w \in DOMAIN rows' : rows'[w] \in {state, rows[w]}
        /\ \A w \in DOMAIN rows' : w \notin DOMAIN rows => rows'[w] = state
    BY <1>6
  <1>9. QueryTypeOK'
    <2>1. qpc' \in QueryLabels
      BY <1>2 DEF QueryLabels
    <2>2. \A w \in DOMAIN rows' : rows'[w] \in RowStates
      BY <1>3, <1>4, <1>8 DEF QueryTypeOK
    <2> QED BY <1>1, <1>3, <1>7, <1>8, <2>1, <2>2 DEF QueryTypeOK
  <1>10. ASSUME qcmd = "list", ~VirshFaults, NEW w \in steady
         PROVE  IF w \in DOMAIN todo' THEN todo'[w] = ctr'[w] /\ w \notin DOMAIN rows'
                ELSE RowRight(w)'
    <2>1. IF w \in DOMAIN todo THEN todo[w] = ctr[w] /\ w \notin DOMAIN rows
          ELSE RowRight(w)
      BY <1>1, <1>10 DEF LookInv
    <2>2. Own(w)' = Own(w)
      BY <1>1 DEF Own
    <2>3. CASE w = v
      <3>1. state = Own(v) /\ ctr[v] # "absent" /\ v \notin DOMAIN rows
        BY <1>2, <1>5, <1>10, <2>1, <2>3
      <3>2. v \in DOMAIN rows' <=> filter \in {"all", state}
        BY <1>6, <3>1
      <3>3. v \in DOMAIN rows' => rows'[v] = state
        BY <1>8, <3>1
      <3> QED BY <1>1, <1>7, <2>2, <2>3, <3>1, <3>2, <3>3 DEF RowRight
    <2>4. CASE w # v
      <3>1. /\ w \in DOMAIN todo' <=> w \in DOMAIN todo
            /\ w \in DOMAIN rows' <=> w \in DOMAIN rows
            /\ w \in DOMAIN rows => rows'[w] = rows[w]
        BY <1>6, <1>7, <2>4
      <3> QED BY <1>1, <1>7, <2>1, <2>2, <3>1 DEF RowRight
    <2> QED BY <2>3, <2>4
  <1>11. qpc' \in {"rows", "ok"} /\ (qpc' # "rows" => todo' = Nothing)
    BY <1>2
  <1>12. qcmd = "list" => qpc' \in {"idle", "client", "list", "rows", "ok", "err"}
    BY <1>11
  <1> QED BY <1>1, <1>9, <1>10, <1>11, <1>12 DEF LookInv

LEMMA QueryNextLook == Inv /\ LookInv /\ [QueryNext]_allVars => LookInv'
  <1> SUFFICES ASSUME Inv, LookInv, [QueryNext]_allVars PROVE LookInv'
    OBVIOUS
  <1>1. CASE UNCHANGED allVars
    <2>1. /\ qpc' = qpc /\ qcmd' = qcmd /\ qvm' = qvm /\ filter' = filter
          /\ todo' = todo /\ rows' = rows /\ steady' = steady /\ ctr' = ctr /\ dom' = dom
      BY <1>1 DEF allVars, vars, query, queryArgs
    <2> QED BY <2>1 DEF LookInv, QueryTypeOK, RowRight, Own
  <1>2. CASE WorldStep
    BY <1>2, WorldLook
  <1>3. CASE (QueryStep \/ QCall \/ QSession \/ QKill) /\ UNCHANGED vars
    BY <1>3, CallLook, LookLook, SnapshotLook, RowLook DEF QueryStep
  <1> QED BY <1>1, <1>2, <1>3 DEF QueryNext

\* The VMs beside a query are those of VmLifecycle.
LEMMA QueryWorld == [QueryNext]_allVars => [Next]_vars
  BY DEF QueryNext, WorldStep, allVars

LEMMA QueryNextInv == Inv /\ [QueryNext]_allVars => Inv'
  BY QueryWorld, NextInv

\* For every number of VMs and of commands beside it, list keeps its inductive
\* invariant: it is right about what it has and has not asked for yet.
THEOREM Looking ==
  ASSUME \E v : v \in VMs
  PROVE  QuerySpec => []LookInv
  <1>1. QueryInit => Inv /\ LookInv
    BY InitInv, InitLook DEF QueryInit
  <1> QED BY <1>1, QueryNextInv, QueryNextLook, PTL DEF QuerySpec

\* A finished list is right about every VM that stayed as it was meanwhile.
THEOREM ListRight ==
  ASSUME \E v : v \in VMs
  PROVE  QuerySpec => []ListAccurate
  <1>1. LookInv => ListAccurate
    BY EmptyNothing DEF LookInv, ListAccurate
  <1> QED BY <1>1, Looking, PTL

\* A query beside them takes nothing from what stop --graceful promises.
THEOREM GracefulBesideQuery ==
  ASSUME ~VirshFaults
  PROVE  QuerySpec /\ []OneCommandPerVM => GracefulWaitsOut
  <1>1. QuerySpec => Spec
    <2>1. QueryInit => Init
      BY DEF QueryInit
    <2> QED BY <2>1, QueryWorld, PTL DEF QuerySpec, Spec
  <1> QED BY <1>1, GracefulWait, PTL
=============================================================================
