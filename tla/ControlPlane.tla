---------------------------- MODULE ControlPlane ----------------------------
(***************************************************************************)
(* The automation cycle of the control plane in docker mode: it reads the  *)
(* topology, plans a rebalance (Rebalance), moves peers between nodes one  *)
(* by one, and pauses or resumes servers, all in one database transaction; *)
(* beside it the migration of one peer by an admin, the node scan, the     *)
(* health check, the traffic limits and the reconciliation loop, which     *)
(* acts on the committed rows while a cycle moves peers.                   *)
(***************************************************************************)
EXTENDS Naturals, Sequences, SequencesExt, FiniteSetsExt

CONSTANTS NNodes, Devs,
          Enterprise,      \* devices whose plan has an enterprise keyword
          OverLimit,       \* devices with more traffic than their server allows
          Cap,             \* max_connections of each server
          HighMark, TargetMark, MovesPerNode,
          Batch,           \* rebalance_batch_size
          MaxExec,         \* rebalance_max_executions_per_cycle
          StopOnError, RollbackOnError,
          NRuns,           \* bound: cycles and migrations
          MaxFaults,       \* bound: failed calls (a failed restore is free), crashes, changes of health
          MaxBlocks        \* bound: blocks by the limits check

Node == 1..NNodes
Run == 1..NRuns

ASSUME ControlPlaneAssumption ==
    /\ NNodes \in Nat \ {0} /\ NRuns \in Nat /\ MaxFaults \in Nat /\ MaxBlocks \in Nat
    /\ IsFiniteSet(Devs) /\ Enterprise \subseteq Devs /\ OverLimit \subseteq Devs
    \* check_control_plane_thresholds.
    /\ HighMark \in Nat /\ TargetMark \in Nat /\ TargetMark < HighMark /\ MovesPerNode \in Nat
    /\ Batch \in Nat \ {0} /\ MaxExec \in Nat \ {0} /\ Cap \in [Node -> Nat \ {0}]
    /\ StopOnError \in BOOLEAN /\ RollbackOnError \in BOOLEAN

VARIABLES
    srv,       \* devices.server_id, committed
    on,        \* peers on each node
    active,    \* servers.is_active
    sick,      \* nodes that discovery finds unhealthy
    deaf,      \* those of them on which every command fails; the others are slow and idle
    runs,      \* the cycles and migrations
    troubled,  \* observer: devices for which a call failed, two runs or a round interfered
    faults, blocks

cpVars == <<srv, on, active, sick, deaf, runs, troubled, faults, blocks>>

IdleRun == [pc |-> "idle", kind |-> "cycle", moves |-> <<>>, queue |-> <<>>, done |-> <<>>,
            back |-> <<>>, budget |-> 0, base |-> [d \in {} |-> 1], view |-> [d \in {} |-> 1],
            saw |-> {}, failed |-> FALSE]

CpInit ==
    /\ srv = [d \in Devs |-> 1]
    /\ on = [n \in Node |-> IF n = 1 THEN Devs ELSE {}]
    /\ active = Node
    /\ sick = {} /\ deaf = {}
    /\ runs = [r \in Run |-> IdleRun]
    /\ troubled = {} /\ faults = 0 /\ blocks = 0

-----------------------------------------------------------------------------
Pc(r) == runs[r].pc
Busy(r) == Pc(r) \notin {"idle", "end"}
\* The device a run is moving, from where and to where, as its session has it.
Cur(r) == IF runs[r].back # <<>> THEN Head(runs[r].back) ELSE Head(runs[r].queue)
From(r) == runs[r].view[Cur(r)]
To(r) == IF runs[r].back # <<>> THEN Head(runs[r].moves).source ELSE Head(runs[r].moves).target
\* The devices a run has loaded, and those whose server_id it has changed.
Touched(r) == DOMAIN runs[r].view
Changed(r) == {d \in Touched(r) : runs[r].view[d] # runs[r].base[d]}

\* Devices that another transaction has loaded.
Elsewhere(r) == UNION {Touched(s) : s \in {s \in Run \ {r} : Busy(s)}}
\* Devices that another transaction has moved since this one loaded them: the identity
\* map of the session keeps the server_id it has, whatever a later query reads.
Stale(r) == {d \in Touched(r) : runs[r].base[d] # srv[d]}

UnchangedWorld == UNCHANGED <<srv, active, sick, deaf, blocks>>

\* What discover_nodes reports of the nodes.
Seen == [n \in Node |->
    [peers |-> IF n \in deaf THEN 0 ELSE Cardinality(on[n]), max |-> Cap[n], health |-> IF n \in sick THEN 20 ELSE 100,
     silent |-> FALSE, drain |-> FALSE, region |-> "r1", latency |-> 0,
     pinned |-> Cardinality({d \in Enterprise : srv[d] = n})]]

Planning == INSTANCE Rebalance WITH
    topo <- Seen, nodeDiscovery <- "docker", NodeKinds <- {}, MaxNodes <- NNodes,
    High <- HighMark, Target <- TargetMark, MaxMoves <- MovesPerNode

\* POST /control-plane/automation/run.
StartCycle(r) ==
    /\ Pc(r) = "idle"
    /\ runs' = [runs EXCEPT ![r] = [IdleRun EXCEPT !.pc = "move", !.moves = Planning!PlanRebalance,
                                                   !.budget = MaxExec, !.saw = sick]]
    /\ UnchangedWorld /\ UNCHANGED <<on, troubled, faults>>

\* POST /peers/{id}/migrate, to an active server or the load balancer's choice.
StartMigration(r) ==
    /\ Pc(r) = "idle"
    /\ \E d \in Devs, n \in active \cup Planning!SelectNode :
          /\ runs' = [runs EXCEPT ![r] = [IdleRun EXCEPT
                !.pc = "remove", !.kind = "peer", !.queue = <<d>>, !.budget = 1,
                !.moves = <<[source |-> srv[d], target |-> n, n |-> 1]>>,
                !.base = [x \in {d} |-> srv[d]], !.view = [x \in {d} |-> srv[d]]]]
          /\ troubled' = troubled \cup (Elsewhere(r) \cap {d})
    /\ UnchangedWorld /\ UNCHANGED <<on, faults>>

Limit(r) == Min({Head(runs[r].moves).n, Batch, runs[r].budget})

\* Devices of the source that are not of an enterprise plan.  The query sees the
\* committed server_id (autoflush is off), also of a device that an earlier move of
\* this cycle has taken away; such a device keeps the server_id of the session.
OnSource(r) == {d \in Devs \ Enterprise : srv[d] = Head(runs[r].moves).source}

\* _qos_migration_key orders them by traffic and handshakes: any order.
PickDevices(r) ==
    /\ Pc(r) = "move" /\ runs[r].moves # <<>> /\ runs[r].budget > 0
    /\ \E q \in SetToAllKPermutations(OnSource(r)) :
          /\ Len(q) = Min({Limit(r), Cardinality(OnSource(r))})
          /\ LET picked == {q[i] : i \in DOMAIN q}
             IN /\ runs' = [runs EXCEPT ![r].queue = q, ![r].done = <<>>, ![r].failed = FALSE,
                      ![r].pc = IF q = <<>> THEN "next" ELSE "remove",
                      ![r].base = [d \in Touched(r) \cup OnSource(r) |->
                                      IF d \in Touched(r) THEN runs[r].base[d] ELSE srv[d]],
                      ![r].view = [d \in Touched(r) \cup OnSource(r) |->
                                      IF d \in Touched(r) THEN runs[r].view[d] ELSE srv[d]]]
                /\ troubled' = troubled \cup (picked \cap (Elsewhere(r) \cup Stale(r)))
    /\ UnchangedWorld /\ UNCHANGED <<on, faults>>

\* No moves, or execution_budget_reached.
NoMoreMoves(r) ==
    /\ Pc(r) = "move" /\ (runs[r].moves = <<>> \/ runs[r].budget = 0)
    /\ runs' = [runs EXCEPT ![r].pc = "commit"]
    /\ UnchangedWorld /\ UNCHANGED <<on, troubled, faults>>

-----------------------------------------------------------------------------
(* migrate_peer.                                                           *)

\* What the run does when migrate_peer has returned (ok) or raised.
Migrated(r, ok) ==
    LET d == Cur(r)
        x == IF ok THEN [runs[r] EXCEPT !.view[d] = To(r)] ELSE runs[r]
        rolling == x.back # <<>>
        rest == IF rolling THEN x ELSE [x EXCEPT !.queue = Tail(@)]
        back == IF ok \/ ~RollbackOnError \/ rest.kind = "peer" THEN <<>> ELSE Reverse(rest.done)
        y == IF rolling THEN [rest EXCEPT !.back = Tail(@)]
             ELSE IF ok THEN [rest EXCEPT !.done = Append(@, d), !.budget = @ - 1]
             ELSE [rest EXCEPT !.failed = TRUE, !.back = back, !.done = IF back = <<>> THEN @ ELSE <<>>]
        stop == y.failed /\ (StopOnError \/ y.kind = "peer")
        pc == IF y.back # <<>> THEN "remove"
              ELSE IF y.kind = "peer" THEN (IF y.failed THEN "abort" ELSE "commit")
              ELSE IF stop THEN "commit"
              ELSE IF y.queue = <<>> THEN "next" ELSE "remove"
    IN runs' = [runs EXCEPT ![r] = [y EXCEPT !.pc = pc]]

\* A call to a node fails: each one of a deaf node does.
CallFails(n) == IF n \in deaf THEN UNCHANGED faults ELSE faults < MaxFaults /\ faults' = faults + 1

\* A failing remove_peer is logged and ignored.
RemoveFromOld(r) ==
    /\ Pc(r) = "remove"
    /\ IF From(r) = To(r) THEN Migrated(r, TRUE) /\ UNCHANGED <<on, troubled, faults>>
       ELSE \/ /\ From(r) \notin deaf
               /\ on' = [on EXCEPT ![From(r)] = @ \ {Cur(r)}]
               /\ runs' = [runs EXCEPT ![r].pc = "add"]
               /\ UNCHANGED <<troubled, faults>>
            \/ /\ CallFails(From(r))
               /\ troubled' = troubled \cup {Cur(r)}
               /\ runs' = [runs EXCEPT ![r].pc = "add"]
               /\ UNCHANGED on
    /\ UnchangedWorld

AddToTarget(r) ==
    /\ Pc(r) = "add" /\ To(r) \notin deaf
    /\ on' = [on EXCEPT ![To(r)] = @ \cup {Cur(r)}]
    /\ Migrated(r, TRUE)
    /\ UnchangedWorld /\ UNCHANGED <<troubled, faults>>

AddFails(r) ==
    /\ Pc(r) = "add"
    /\ CallFails(To(r))
    /\ runs' = [runs EXCEPT ![r].pc = "restore"]
    /\ UnchangedWorld /\ UNCHANGED <<on, troubled>>

\* Mutant: the peer is not put back.
RestoreForgotten(r) ==
    /\ Pc(r) = "restore"
    /\ Migrated(r, FALSE)
    /\ UnchangedWorld /\ UNCHANGED <<on, troubled, faults>>

\* The peer is put back on the node it came from, which may fail too.
RestoreOnOld(r) ==
    /\ Pc(r) = "restore"
    /\ \/ /\ From(r) \notin deaf
          /\ on' = [on EXCEPT ![From(r)] = @ \cup {Cur(r)}] /\ UNCHANGED troubled
       \/ troubled' = troubled \cup {Cur(r)} /\ UNCHANGED on
    /\ Migrated(r, FALSE)
    /\ UnchangedWorld /\ UNCHANGED faults

-----------------------------------------------------------------------------
NextMove(r) ==
    /\ Pc(r) = "next"
    /\ runs' = [runs EXCEPT ![r].pc = "move", ![r].moves = Tail(@), ![r].done = <<>>]
    /\ UnchangedWorld /\ UNCHANGED <<on, troubled, faults>>

\* The end of a cycle: servers that were unhealthy in the topology are paused, the
\* others resumed, and everything is committed.  Only a server_id that the session has
\* changed is written.
CommitRun(r) ==
    /\ Pc(r) = "commit"
    /\ srv' = [d \in Devs |-> IF d \in Changed(r) THEN runs[r].view[d] ELSE srv[d]]
    /\ active' = IF runs[r].kind = "cycle" THEN Node \ runs[r].saw ELSE active
    /\ runs' = [runs EXCEPT ![r].pc = "end"]
    /\ UNCHANGED <<on, sick, deaf, troubled, faults, blocks>>

\* A migration that raised is answered with an error; nothing is written.
AbortMigration(r) ==
    /\ Pc(r) = "abort"
    /\ runs' = [runs EXCEPT ![r].pc = "end"]
    /\ UnchangedWorld /\ UNCHANGED <<on, troubled, faults>>

\* The API process dies: the peers stay where they are.
CrashRun(r) ==
    /\ Busy(r) /\ faults < MaxFaults /\ faults' = faults + 1
    /\ troubled' = troubled \cup Touched(r)
    /\ runs' = [runs EXCEPT ![r].pc = "end"]
    /\ UnchangedWorld /\ UNCHANGED on

-----------------------------------------------------------------------------
(* The loops of the worker.                                                *)

\* Mutant: a node that lists no peers is taken for one that has not answered.
ReconcileUnlessEmpty(n) ==
    LET missing == {d \in Devs : srv[d] = n /\ d \notin on[n]}
    IN /\ missing # {} /\ n \notin deaf /\ on[n] # {}
       /\ on' = [on EXCEPT ![n] = @ \cup missing]
       /\ troubled' = troubled \cup
             {d \in missing : \E r \in Run : Busy(r) /\ d \in Touched(r)}
       /\ UnchangedWorld /\ UNCHANGED <<runs, faults>>

\* A reconciliation round adds the peers that the committed rows say are on the node,
\* an unhealthy one too; on a deaf node all of its commands fail.
ReconcileNode(n) ==
    LET missing == {d \in Devs : srv[d] = n /\ d \notin on[n]}
    IN /\ missing # {} /\ n \notin deaf
       /\ on' = [on EXCEPT ![n] = @ \cup missing]
       /\ troubled' = troubled \cup
             {d \in missing : \E r \in Run : Busy(r) /\ d \in Touched(r)}
       /\ UnchangedWorld /\ UNCHANGED <<runs, faults>>

\* run_limits_check removes the peer and writes an audit entry; the device stays.
LimitsCheck(d) ==
    /\ d \in OverLimit /\ srv[d] \in active \ deaf /\ d \in on[srv[d]] /\ blocks < MaxBlocks
    /\ blocks' = blocks + 1
    /\ on' = [on EXCEPT ![srv[d]] = @ \ {d}]
    /\ troubled' = troubled \cup {d}
    /\ UNCHANGED <<srv, active, sick, deaf, runs, faults>>

\* The scan writes is_active of every node it discovers.
NodeScan ==
    /\ active' = Node \ sick
    /\ UNCHANGED <<srv, on, sick, deaf, runs, troubled, faults, blocks>>

\* run_health_check offers a server that answers, however slowly, and withdraws one that
\* has not answered N times (Servers counts them; here each time may be the last one).
HealthCheck(n) ==
    /\ active' \in IF n \in deaf THEN {active, active \ {n}} ELSE {active \cup {n}}
    /\ UNCHANGED <<srv, on, sick, deaf, runs, troubled, faults, blocks>>

HealthChanges(n) ==
    /\ faults < MaxFaults /\ faults' = faults + 1
    /\ \/ sick' = sick \ {n} /\ deaf' = deaf \ {n}
       \/ sick' = sick \cup {n} /\ deaf' = deaf \ {n}
       \/ sick' = sick \cup {n} /\ deaf' = deaf \cup {n}
    /\ UNCHANGED <<srv, on, active, runs, troubled, blocks>>

RunStep(r) ==
    \/ PickDevices(r) \/ NoMoreMoves(r) \/ RemoveFromOld(r) \/ AddToTarget(r) \/ AddFails(r)
    \/ RestoreOnOld(r) \/ NextMove(r) \/ CommitRun(r) \/ AbortMigration(r)

CpNext ==
    \/ \E r \in Run : StartCycle(r) \/ StartMigration(r) \/ RunStep(r) \/ CrashRun(r)
    \/ \E n \in Node : ReconcileNode(n) \/ HealthCheck(n) \/ HealthChanges(n)
    \/ \E d \in Devs : LimitsCheck(d)
    \/ NodeScan

\* A run that was started goes on (asyncio), and the worker's loops go on.
CpFairness ==
    /\ \A r \in Run : WF_cpVars(RunStep(r))
    /\ \A n \in Node : WF_cpVars(ReconcileNode(n))
    /\ WF_cpVars(NodeScan)

CpSpec == CpInit /\ [][CpNext]_cpVars
CpFairSpec == CpSpec /\ CpFairness

-----------------------------------------------------------------------------
(* Properties.                                                             *)

\* When no run is under way, the peer of a device is on the node of its row and
\* nowhere else, however moves, failed moves and rollbacks went, unless a call for
\* this very device failed, the run died, two runs had the device (one may have loaded
\* its row before the other moved it), or a reconciliation round came in between.
MovedIsInPlace ==
    (\A r \in Run : ~Busy(r)) =>
       \A d \in Devs \ troubled : {n \in Node : d \in on[n]} = {srv[d]}

\* A peer of an enterprise plan is never moved by a cycle.
PinnedStays == \A r \in Run : runs[r].kind = "cycle" => Changed(r) \cap Enterprise = {}

\* Whatever went wrong, the peer of a device is in the end on the node of its row, unless
\* that node answers no more or the device is over its limit: the reconciliation loop
\* repairs what a crash or two overlapping runs left behind, also on a server that is
\* paused.
EventuallyServed == \A d \in Devs \ OverLimit : <>[](d \in on[srv[d]] \/ srv[d] \in deaf)

\* In the end a healthy server is offered and one that does not answer is not, although
\* the cycle writes what it saw at its start: the next scan corrects it.  (One that is
\* slow and idle is switched on by the health check and off by the scan.)
PauseFollowsHealth == \A n \in Node : <>[](IF n \in sick THEN n \in deaf => n \notin active
                                           ELSE n \in active)

\* However cycles, migrations and rounds overlap and fail, moved peers are in their
\* place between runs, and no cycle touches a pinned one.
MovesAreRight == MovedIsInPlace /\ PinnedStays

\* The cycle's own writes do not last against what the nodes are: in the end all peers
\* are served where their rows say and the healthy servers are offered.
FleetSettles == EventuallyServed /\ PauseFollowsHealth
=============================================================================
