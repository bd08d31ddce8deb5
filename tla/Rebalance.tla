------------------------------ MODULE Rebalance ------------------------------
(***************************************************************************)
(* What the control plane decides about a cluster: the rebalance plan, the *)
(* graph that shows it, failover candidates and the placement of a new     *)
(* peer.  These are functions of a topology, which is built here node by   *)
(* node; ControlPlane executes the plans.                                  *)
(*                                                                         *)
(* Health scores and watermarks are in percent, a node's score for         *)
(* placement is in thousandths.                                            *)
(***************************************************************************)
EXTENDS Naturals, Integers, Sequences, SequencesExt, FiniteSetsExt

CONSTANTS NodeKinds,   \* what a node may look like
          MaxNodes,    \* bound: nodes in the cluster
          High,        \* high_watermark
          Target,      \* target_watermark
          MaxMoves     \* max_moves_per_node

ASSUME RebalanceAssumption ==
    /\ MaxNodes \in Nat /\ MaxMoves \in Nat /\ High \in Nat /\ Target \in Nat
    \* check_control_plane_thresholds, and plan_rebalance itself.
    /\ Target < High
    /\ \A k \in NodeKinds :
          /\ k.peers \in Nat /\ k.max \in Nat /\ k.health \in Nat /\ k.latency \in Nat
          /\ k.pinned \in Nat /\ k.silent \in BOOLEAN /\ k.drain \in BOOLEAN

VARIABLES nodeDiscovery,  \* NODE_DISCOVERY of the deployment: "docker" or "agent"
          topo            \* the nodes of ClusterTopology, in its order

rebVars == <<nodeDiscovery, topo>>

\* The status that the runtime reports with a health score.
DockerStatus(h) == IF h >= 90 THEN "healthy" ELSE IF h >= 50 THEN "degraded" ELSE "unhealthy"
AgentStatus(h) == IF h >= 90 THEN "healthy" ELSE IF h >= 45 THEN "degraded" ELSE "unhealthy"
StatusOf(x) == IF x.silent THEN "unknown"
               ELSE IF nodeDiscovery = "docker" THEN DockerStatus(x.health) ELSE AgentStatus(x.health)

InService == {"healthy", "degraded", "unknown"}
Nodes == DOMAIN topo
Usable(i) == StatusOf(topo[i]) \in InService /\ ~topo[i].drain
FreeSlots(i) == IF topo[i].max > topo[i].peers THEN topo[i].max - topo[i].peers ELSE 0

RebInit == nodeDiscovery \in {"docker", "agent"} /\ topo = <<>>

\* rebuild_topology finds one more node.
DiscoverNode ==
    /\ Len(topo) < MaxNodes
    /\ \E k \in NodeKinds : topo' = Append(topo, k)
    /\ UNCHANGED nodeDiscovery

-----------------------------------------------------------------------------
(* plan_rebalance.                                                         *)

Overloaded == {i \in Nodes : /\ topo[i].max > 0 /\ Usable(i)
                             /\ topo[i].peers * 100 >= High * topo[i].max}
Underloaded == {i \in Nodes : /\ topo[i].max > 0 /\ Usable(i)
                              /\ topo[i].peers * 100 < Target * topo[i].max}

\* int(max_peers * target_watermark).
TargetPeers(i) == (topo[i].max * Target) \div 100
NatMinus(a, b) == IF a > b THEN a - b ELSE 0

ReceiverSlots == [i \in Nodes |->
    IF i \in Underloaded THEN NatMinus(TargetPeers(i), topo[i].peers) ELSE 0]

\* sorted(overloaded, key=ratio, reverse=True) is stable.
Busier(i, j) ==
    LET a == topo[i].peers * topo[j].max
        b == topo[j].peers * topo[i].max
    IN a > b \/ (a = b /\ i < j)
ByLoad == CHOOSE q \in SetToSeqs(Overloaded) :
             \A i, j \in DOMAIN q : i < j => Busier(q[i], q[j])

\* Mutant: enterprise peers are counted as movable.
MovableAll(i, pinned) == NatMinus(topo[i].peers, TargetPeers(i))

\* Peers of enterprise plans are pinned to their node.
Movable(i, pinned) == NatMinus(NatMinus(topo[i].peers, pinned), TargetPeers(i))

\* max() returns the first of the receivers with the most free slots.
Receiver(slots, source) ==
    LET R == {i \in Nodes : slots[i] > 0 /\ i # source}
    IN CHOOSE i \in R : \A j \in R : slots[i] > slots[j] \/ (slots[i] = slots[j] /\ i <= j)

\* One turn of the loop: as many peers as the best receiver takes.
MoveOnce(s, source) ==
    IF s.pending = 0 \/ ~\E i \in Nodes : s.slots[i] > 0 /\ i # source THEN s
    ELSE LET t == Receiver(s.slots, source)
             n == Min({s.pending, s.slots[t]})
         IN [s EXCEPT !.pending = @ - n, !.slots[t] = @ - n,
                      !.moves = Append(@, [source |-> source, target |-> t, n |-> n])]

\* The loop of a source ends after as many turns as there are nodes: each turn ends
\* it or fills a receiver.
Serve(s, source, pinned) ==
    FoldLeft(LAMBDA t, turn : MoveOnce(t, source),
             [s EXCEPT !.pending = Min({Movable(source, pinned), MaxMoves})],
             [turn \in 1..Len(topo) |-> turn])

PlanRebalance ==
    FoldLeft(LAMBDA s, source : Serve(s, source, topo[source].pinned),
             [moves |-> <<>>, slots |-> ReceiverSlots, pending |-> 0], ByLoad).moves

\* _graph_rebalance_edges has a loop of its own, which knows no pinned peers.
GraphEdges ==
    FoldLeft(LAMBDA s, source : Serve(s, source, 0),
             [moves |-> <<>>, slots |-> ReceiverSlots, pending |-> 0], ByLoad).moves

-----------------------------------------------------------------------------
(* evaluate_failover, the load balancer and simulate_placement.            *)

\* calculate_node_score: free slots * 0.4 + health - latency in seconds * 0.2.
Score(i) == 400 * FreeSlots(i) + 10 * topo[i].health - topo[i].latency \div 5

Failed == {i \in Nodes : StatusOf(topo[i]) = "unhealthy" \/ topo[i].health < 50}
Fallbacks == {i \in Nodes : /\ StatusOf(topo[i]) \in {"healthy", "degraded"} /\ ~topo[i].drain
                            /\ topo[i].peers < topo[i].max}

\* max() returns the first of the best; nodes of the region come before all others.
Fallback(i) ==
    LET regional == {j \in Fallbacks : topo[j].region = topo[i].region}
        pool == IF regional # {} THEN regional ELSE Fallbacks
    IN IF pool = {} THEN {}
       ELSE {CHOOSE j \in pool : \A k \in pool : Score(j) > Score(k) \/ (Score(j) = Score(k) /\ j <= k)}

Eligible(i) == Usable(i) /\ topo[i].peers < topo[i].max /\ topo[i].health >= 50

\* select_node: a node with a score of 0.9 or more if there is one; ties by node id.
SelectNode ==
    LET all == {i \in Nodes : /\ Usable(i) /\ topo[i].health >= 50 /\ topo[i].peers < topo[i].max}
        healthy == {i \in all : topo[i].health >= 90}
        pool == IF healthy # {} THEN healthy ELSE all
    IN {i \in pool : \A j \in pool : Score(i) > Score(j) \/ (Score(i) = Score(j) /\ i >= j)}

\* simulate_placement ranks all eligible nodes, those of the preferred region if
\* there are some.
Simulate(region) ==
    LET all == {i \in Nodes : Eligible(i)}
        regional == {i \in all : topo[i].region = region}
        pool == IF regional # {} THEN regional ELSE all
        Rank(i) == <<Score(i), FreeSlots(i), i>>
        Before(a, b) == \/ a[1] > b[1]
                        \/ a[1] = b[1] /\ a[2] > b[2]
                        \/ a[1] = b[1] /\ a[2] = b[2] /\ a[3] >= b[3]
    IN {i \in pool : \A j \in pool : Before(Rank(i), Rank(j))}

RebNext == DiscoverNode
RebSpec == RebInit /\ [][RebNext]_rebVars

-----------------------------------------------------------------------------
(* Properties.                                                             *)

Total(f, S) == FoldSet(LAMBDA i, acc : acc + f[i], 0, S)
Sizes(moves) == [k \in DOMAIN moves |-> moves[k].n]
Gives(i, moves) == Total(Sizes(moves), {k \in DOMAIN moves : moves[k].source = i})
Takes(i, moves) == Total(Sizes(moves), {k \in DOMAIN moves : moves[k].target = i})

\* No receiver takes more than its free slots up to the target, and no source gives
\* away so many peers, or pinned ones, that it becomes the next receiver.
Settled(moves, pinned) ==
    \A i \in Nodes :
       /\ Takes(i, moves) > 0 => topo[i].peers + Takes(i, moves) <= TargetPeers(i)
       /\ Gives(i, moves) > 0 => /\ topo[i].peers - Gives(i, moves) >= TargetPeers(i) + pinned[i]
                                 /\ Gives(i, moves) <= MaxMoves
                                 /\ Takes(i, moves) = 0

\* A plan that is carried out ends: plan_rebalance and the edges of the topology graph
\* never fill a receiver so far that it is the next source, nor empty a source so far
\* that it is the next receiver.
PlanSettles ==
    /\ Settled(PlanRebalance, [i \in Nodes |-> topo[i].pinned])
    /\ Settled(GraphEdges, [i \in Nodes |-> 0])

\* The greedy loop leaves nothing to do: as much is moved as the sources have to
\* give and the receivers can take.
PlanIsComplete ==
    LET moves == PlanRebalance
        spare == [i \in Nodes |-> Min({Movable(i, topo[i].pinned), MaxMoves})]
        given == [i \in Nodes |-> Gives(i, moves)]
    IN Total(given, Nodes) = Min({Total(spare, Overloaded), Total(ReceiverSlots, Underloaded)})

\* An agent's node with this score is degraded for its status and failed for the failover.
Between(i) == nodeDiscovery = "agent" /\ topo[i].health \in 45..49

\* evaluate_failover agrees with the load balancer: it names a replacement when there is
\* a node that answers and that the load balancer would take, and names such a node,
\* unless its score is between the two thresholds: then a failed node may even be
\* replaced by itself.
FallbackWorks ==
    \A i \in Failed :
       /\ (\E j \in Nodes : Eligible(j) /\ ~topo[j].silent) => Fallback(i) # {}
       /\ \A j \in Fallback(i) : Eligible(j) \/ Between(j)

\* The simulation finds a node when the load balancer does, and never one that the
\* load balancer would refuse.
PlacementAgrees ==
    \A r \in {"r1", "r2"} :
       /\ (Simulate(r) = {}) = (SelectNode = {})
       /\ \A i \in Simulate(r) : Usable(i) /\ topo[i].peers < topo[i].max

\* What is decided from one topology agrees with itself: plans settle and leave nothing
\* to do, and failover and placement choose nodes that work.
PlansHold == PlanSettles /\ PlanIsComplete /\ FallbackWorks /\ PlacementAgrees
=============================================================================
