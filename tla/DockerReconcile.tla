--------------------------- MODULE DockerReconcile ---------------------------
(***************************************************************************)
(* NODE_DISCOVERY = docker: the worker's reconciliation loop beside the    *)
(* requests of Issuance.  One round reads the devices from the database,   *)
(* lists the peers of the node, and then removes, adds and re-creates      *)
(* peers one call at a time before it records what it added.  Requests     *)
(* and admins go on between any two of these steps.                        *)
(***************************************************************************)
EXTENDS Issuance

CONSTANTS RemoveOrphans,  \* RECONCILIATION_REMOVE_ORPHANS
          NodeFaults,     \* the node itself loses and damages peers
          MaxFaults       \* bound: failed calls, restarts and damaged peers

ASSUME ReconcileAssumption ==
    RemoveOrphans \in BOOLEAN /\ NodeFaults \in BOOLEAN /\ MaxFaults \in Nat

VARIABLES
    round,    \* where the round is
    want,     \* the devices it has read
    todo,     \* what it still has to do
    added,    \* the peers it has added
    faults

rvars == <<round, want, todo, added, faults>>
allVars == <<vars, rvars>>

InUse == {c \in Call : dev[c].st = "active"}
NothingToDo == [remove |-> {}, add |-> {}, update |-> {}]

RInit ==
    /\ Init
    /\ round = "idle" /\ want = {} /\ todo = NothingToDo /\ added = {}
    /\ faults = 0

Requests == Next /\ UNCHANGED rvars

-----------------------------------------------------------------------------
(* What fails.                                                             *)

Fault == faults < MaxFaults /\ faults' = faults + 1

NodeBecomes(peers) ==
    /\ node' = peers
    /\ UNCHANGED <<dev, limit, lock, pc, seen, addr, apply, cache, edits>>

\* The container of the node restarts without its peers.
NodeRestart ==
    /\ Fault
    /\ NodeFaults
    /\ NodeBecomes(Empty)
    /\ UNCHANGED <<round, want, todo, added>>

\* A peer is left with 0.0.0.0/0 or with no allowed-ips.
PeerDamaged(c) ==
    /\ Fault
    /\ NodeFaults
    /\ c \in DOMAIN node
    /\ \E listed \in {NoIp, Wide} : NodeBecomes([node EXCEPT ![c] = listed])
    /\ UNCHANGED <<round, want, todo, added>>

\* A round ends early: a query or ensure_reply_routes raises, or the worker dies.
RoundAborted ==
    /\ Fault
    /\ round # "idle"
    /\ round' = "idle" /\ want' = {} /\ todo' = NothingToDo /\ added' = {}
    /\ UNCHANGED vars

-----------------------------------------------------------------------------
(* One round of reconcile_node.                                            *)

\* Mutant: the query does not filter on revoked_at.
ReadAllDevices ==
    /\ round = "idle"
    /\ round' = "list"
    /\ want' = {c \in Call : dev[c].st # "none"}
    /\ UNCHANGED <<vars, todo, added, faults>>

ReadDevices ==
    /\ round = "idle"
    /\ round' = "list"
    /\ want' = InUse
    /\ UNCHANGED <<vars, todo, added, faults>>

\* Mutant: peers that are there count as good.
ComputeDiffByKey(peers) ==
    [remove |-> DOMAIN peers \ want, add |-> want \ DOMAIN peers, update |-> {}]

\* compute_diff: an address that differs is left alone unless it is 0.0.0.0/0 or empty,
\* which a dump never shows: it writes "(none)".
ComputeDiff(peers) ==
    [remove |-> DOMAIN peers \ want, add |-> want \ DOMAIN peers,
     update |-> {c \in want \cap DOMAIN peers : peers[c] = Wide}]

\* list_peers answers with no peers when its command fails.
ListPeers ==
    /\ round = "list"
    /\ \E peers \in {node, Empty} :
          /\ IF peers = node THEN UNCHANGED faults ELSE Fault
          /\ IF ComputeDiff(peers) = NothingToDo
               THEN round' = "idle" /\ todo' = NothingToDo /\ want' = {}
               ELSE /\ round' = "apply"
                    /\ todo' = [ComputeDiff(peers) EXCEPT !.remove = IF RemoveOrphans THEN @ ELSE {}]
                    /\ UNCHANGED want
    /\ UNCHANGED <<vars, added>>

Without(c) == [d \in DOMAIN node \ {c} |-> node[d]]

\* remove_peer raises, or removes the peer.
RemoveCall(c) ==
    \/ NodeBecomes(Without(c)) /\ UNCHANGED faults
    \/ UNCHANGED vars /\ Fault

\* add_peer succeeds, or raises with the peer set or not.
AddSucceeds(c) == CanAdd(c) /\ NodeBecomes(WgSet(c)) /\ UNCHANGED faults
AddRaises(c) ==
    \/ Clash(c) /\ UNCHANGED <<vars, faults>>
    \/ Fault /\ UNCHANGED vars
    \/ Fault /\ CanAdd(c) /\ NodeBecomes(WgSet(c))

RemovePeer(c) ==
    /\ round = "apply" /\ c \in todo.remove
    /\ todo' = [todo EXCEPT !.remove = @ \ {c}]
    /\ RemoveCall(c)
    /\ UNCHANGED <<round, want, added>>

ReAddPeer(c) ==
    /\ round = "apply" /\ todo.remove = {} /\ c \in todo.add
    /\ todo' = [todo EXCEPT !.add = @ \ {c}]
    /\ \/ AddSucceeds(c) /\ added' = added \cup {c}
       \/ AddRaises(c) /\ UNCHANGED added
    /\ UNCHANGED <<round, want>>

\* An update removes the peer and adds it again; in between it is not there.
UpdateRemoves(c) ==
    /\ round = "apply" /\ todo.remove = {} /\ todo.add = {} /\ c \in todo.update
    /\ \/ /\ round' = "update"
          /\ todo' = [todo EXCEPT !.update = @ \ {c}, !.add = {c}]
          /\ NodeBecomes(Without(c))
          /\ UNCHANGED faults
       \/ /\ todo' = [todo EXCEPT !.update = @ \ {c}]
          /\ Fault
          /\ UNCHANGED vars \/ NodeBecomes(Without(c))
          /\ UNCHANGED round
    /\ UNCHANGED <<want, added>>

UpdateAdds(c) ==
    /\ round = "update" /\ c \in todo.add
    /\ round' = "apply"
    /\ todo' = [todo EXCEPT !.add = {}]
    /\ AddSucceeds(c) \/ AddRaises(c)
    /\ UNCHANGED <<want, added>>

\* Mutant: everything that was wanted counts as applied.
RecordAllWanted ==
    /\ round = "apply" /\ todo = NothingToDo
    /\ round' = "idle" /\ want' = {} /\ added' = {}
    /\ dev' = [c \in Call |-> IF c \in want THEN [dev[c] EXCEPT !.apply = "APPLIED"] ELSE dev[c]]
    /\ UNCHANGED <<limit, lock, pc, seen, addr, apply, cache, node, edits, todo, faults>>

\* Mutant: the rows are written back whole, as the round has read them.
RecordWholeRows ==
    /\ round = "apply" /\ todo = NothingToDo
    /\ round' = "idle" /\ want' = {} /\ added' = {}
    /\ dev' = [c \in Call |-> IF c \in added THEN [dev[c] EXCEPT !.apply = "APPLIED", !.st = "active"]
                              ELSE dev[c]]
    /\ UNCHANGED <<limit, lock, pc, seen, addr, apply, cache, node, edits, todo, faults>>

\* The devices whose peers were added are APPLIED, whatever they are by now.
RecordAdded ==
    /\ round = "apply" /\ todo = NothingToDo
    /\ round' = "idle" /\ want' = {} /\ added' = {}
    /\ dev' = [c \in Call |-> IF c \in added THEN [dev[c] EXCEPT !.apply = "APPLIED"] ELSE dev[c]]
    /\ UNCHANGED <<limit, lock, pc, seen, addr, apply, cache, node, edits, todo, faults>>

Round ==
    \/ ReadDevices \/ ListPeers \/ RecordAdded
    \/ \E c \in Call : RemovePeer(c) \/ ReAddPeer(c) \/ UpdateRemoves(c) \/ UpdateAdds(c)

Faults == NodeRestart \/ RoundAborted \/ \E c \in Call : PeerDamaged(c)

-----------------------------------------------------------------------------
RNext == Requests \/ Round \/ Faults

RSpec == RInit /\ [][RNext]_allVars

\* The loop starts a round again and again, requests go on.
FairRSpec ==
    /\ RSpec
    /\ WF_allVars(Round)
    /\ \A c \in Call : WF_allVars(Step(c) /\ UNCHANGED rvars)

-----------------------------------------------------------------------------
(* Properties.                                                             *)

\* The types of the requests, the node and the round; apply_status is one that the
\* readers of a device know (reconcile_node, admin_issue_peer).
RoundTypeOK ==
    /\ TypeOK
    /\ round \in {"idle", "list", "apply", "update"}
    /\ want \in SUBSET Call /\ added \in SUBSET Call
    /\ todo \in [remove : SUBSET Call, add : SUBSET Call, update : SUBSET Call]
    /\ faults \in 0..MaxFaults

\* A device in use comes to have a good peer on the node and keeps it, whatever was
\* lost, damaged or failed on the way, unless its peer stays listed as "(none)": the
\* rounds leave such a peer alone, and only a new peer or a restart gets it out of that.
Bare(c) == c \in DOMAIN node /\ node[c] = NoIp
DevicesComeUp ==
    \A c \in Call : <>[]~Bare(c) => <>[](c \in InUse => c \in DOMAIN node /\ node[c] = dev[c].ip)

\* A peer of no device in use disappears for good: the peer of a revoked device,
\* also when a round that read it before has just put it back, and the peer of a
\* request that was rolled back.
OrphansAreRemoved == <>[](DOMAIN node \subseteq InUse)
=============================================================================
