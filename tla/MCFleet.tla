------------------------------ MODULE MCFleet ------------------------------
(***************************************************************************)
(* What the control plane does with the fleet, in one run: the action      *)
(* queue, migrations and limits, plans and placement, the registry of      *)
(* servers and its list, bandwidth policies.  The parts share no variable, *)
(* so `part` picks the one that moves: each goes through all of its        *)
(* states, and the state spaces add up instead of multiplying.             *)
(***************************************************************************)
EXTENDS AgentActions, ControlPlane, Rebalance, Servers, ServerList, Throttling

VARIABLE part

fleetVars == <<actionVars, cpVars, rebVars, srvVars, table, thrVars>>

\* The parts that do not move start in one state only.
MCInit ==
    /\ part \in {"actions", "control", "plans", "servers", "list", "shaping"}
    /\ ActionsInit /\ CpInit /\ RebInit /\ SrvInit /\ ListInit /\ ThrInit
    /\ part # "plans" => nodeDiscovery = "docker"
    /\ part # "shaping" => rebuilds
    /\ part # "servers" => loops = {} /\ reg.there

\* Another node matters to the health check alone: it is there only beside the scan.
MCNext ==
    \/ part = "actions" /\ ActionsNext /\ UNCHANGED <<part, cpVars, rebVars, srvVars, table, thrVars>>
    \/ part = "control" /\ CpNext /\ UNCHANGED <<part, actionVars, rebVars, srvVars, table, thrVars>>
    \/ part = "plans" /\ RebNext /\ UNCHANGED <<part, actionVars, cpVars, srvVars, table, thrVars>>
    \/ part = "servers" /\ SrvNext /\ (spare' => "scan" \in loops) /\ UNCHANGED <<part, actionVars, cpVars, rebVars, table, thrVars>>
    \/ part = "list" /\ RowAdded
       /\ (\A i \in DOMAIN table' : table'[i].region = 1 => i = 1 /\ table'[i].health = 1)  \* one thing at a time
       /\ UNCHANGED <<part, actionVars, cpVars, rebVars, srvVars, thrVars>>
    \/ part = "shaping" /\ ThrNext /\ UNCHANGED <<part, actionVars, cpVars, rebVars, srvVars, table>>

\* The fairness of the part that moves, as its module states it.
MCFairness ==
    /\ WF_actionVars(part = "actions" /\ \E a \in Action : PollRead(a))
    /\ SF_actionVars(part = "actions" /\ \E a \in Action : PollAnswered(a))
    /\ WF_actionVars(part = "actions" /\ Work)
    /\ WF_actionVars(part = "actions" /\ SendReport)
    /\ \A r \in Run : WF_cpVars(part = "control" /\ RunStep(r))
    /\ \A n \in Node : WF_cpVars(part = "control" /\ ReconcileNode(n))
    /\ WF_cpVars(part = "control" /\ NodeScan)
    /\ WF_srvVars(part = "servers" /\ LoopStarts /\ UNCHANGED loops)
    /\ WF_srvVars(part = "servers" /\ IntervalPasses /\ UNCHANGED loops)
    /\ \A t \in Syncer : /\ WF_srvVars(part = "servers" /\ SyncReads(t) /\ UNCHANGED loops)
                         /\ WF_srvVars(part = "servers" /\ SyncCommits(t) /\ UNCHANGED loops)
    /\ WF_srvVars(part = "servers" /\ HealthReads /\ UNCHANGED loops)
    /\ WF_srvVars(part = "servers" /\ HealthCommits /\ UNCHANGED loops)
    /\ WF_srvVars(part = "servers" /\ ScanReads /\ UNCHANGED loops)
    /\ WF_srvVars(part = "servers" /\ ScanCommits /\ UNCHANGED loops)
    /\ WF_srvVars(part = "servers" /\ ListExpires /\ UNCHANGED loops)
    /\ WF_srvVars(part = "servers" /\ InvalidateList /\ UNCHANGED loops)
    /\ \A a \in Appliers : /\ WF_thrVars(part = "shaping" /\ Bind(a))
                           /\ WF_thrVars(part = "shaping" /\ Exec(a))
                           /\ WF_thrVars(part = "shaping" /\ Finish(a))

MCSpec == MCInit /\ [][MCNext]_<<part, fleetVars>> /\ MCFairness

-----------------------------------------------------------------------------
(* Instances.                                                              *)

\* A node of the fleet that has answered.
Answers(peerCount, most, score, drains, place, fixed) ==
    [peers |-> peerCount, max |-> most, health |-> score, silent |-> FALSE,
     drain |-> drains, region |-> place, pinned |-> fixed, latency |-> 0]
\* Loads around both watermarks, with and without pinned peers, scores around the
\* thresholds of the status, and a small, an empty, a draining and a full node.
FleetNodes ==
         {Answers(p, 10, 100, FALSE, "r1", k) : p \in {0, 3, 6, 7, 8, 9, 10}, k \in {0, 2}}
    \cup {Answers(4, 10, h, FALSE, "r1", 0) : h \in {20, 47, 70}}
    \cup {Answers(10, 10, 70, FALSE, "r2", 0), Answers(9, 10, 100, TRUE, "r2", 0),
          Answers(1, 4, 70, FALSE, "r2", 0), Answers(0, 0, 100, FALSE, "r2", 0),
          Answers(5, 5, 100, FALSE, "r2", 1)}

SmallAndLarge == <<3, 10>>
TwoPlans == <<"p1", "p2">>
OnePlanEach == [k1 |-> "p1", k2 |-> "p2"]
=============================================================================
