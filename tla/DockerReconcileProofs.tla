------------------------ MODULE DockerReconcileProofs ------------------------
(***************************************************************************)
(* The reconciliation loop beside the requests: it disturbs neither the    *)
(* device limit nor the addresses, and issuing with the loop beside it     *)
(* still implements Entitlement.                                           *)
(***************************************************************************)
EXTENDS DockerReconcile, IssuanceProofs

Todo == [remove : SUBSET Call, add : SUBSET Call, update : SUBSET Call]

LEMMA WithoutType == ASSUME node \in Peers, NEW c \in Call PROVE Without(c) \in Peers
  <1>1. PICK D \in SUBSET Call : node \in [D -> Listed]
    BY DEF Peers
  <1>2. Without(c) \in [(D \ {c}) -> Listed]
    BY <1>1 DEF Without
  <1> QED
    BY <1>2 DEF Peers

LEMMA EmptyType == Empty \in Peers /\ NothingToDo \in Todo
  <1>1. Empty \in [{} -> Listed]
    BY DEF Empty
  <1> QED
    BY <1>1 DEF Peers, NothingToDo, Todo

\* What a step of the loop, or a fault, may do to the requests' state.
LEMMA LoopTouches ==
  ASSUME TypeOK, Round \/ Faults
  PROVE  /\ UNCHANGED <<limit, lock, pc, seen, addr, apply, cache, edits>>
         /\ UNCHANGED dev \/ RecordAdded
  BY DEF Round, Faults, ReadDevices, ListPeers, RecordAdded, RemovePeer, ReAddPeer, UpdateRemoves,
         UpdateAdds, NodeRestart, RoundAborted, PeerDamaged, RemoveCall, AddSucceeds, AddRaises,
         NodeBecomes, vars

LEMMA RecordKeeps ==
  ASSUME TypeOK, RecordAdded, NEW c \in Call
  PROVE  dev'[c] \in Row /\ dev'[c].st = dev[c].st /\ dev'[c].ip = dev[c].ip
  BY DEF TypeOK, Row, RecordAdded, ApplyStatus

LEMMA LoopKeeps ==
  ASSUME TypeOK, Round \/ Faults, NEW c \in Call
  PROVE  dev'[c].st = dev[c].st /\ dev'[c].ip = dev[c].ip
  BY LoopTouches, RecordKeeps

LEMMA LoopNodeType ==
  ASSUME TypeOK, Round \/ Faults
  PROVE  node' \in Peers
  <1> USE DEF NodeBecomes, vars
  <1>1. node \in Peers /\ addr \in [Call -> Ip \cup {NoIp}]
    BY DEF TypeOK
  <1>2. ASSUME NEW c \in Call, RemovePeer(c) \/ UpdateRemoves(c) PROVE node' \in Peers
    BY <1>1, <1>2, WithoutType DEF RemovePeer, RemoveCall, UpdateRemoves
  <1>3. ASSUME NEW c \in Call, ReAddPeer(c) \/ UpdateAdds(c) PROVE node' \in Peers
    BY <1>1, <1>3, PeersAfterAdd DEF ReAddPeer, UpdateAdds, AddSucceeds, AddRaises
  <1>4. ASSUME NEW c \in Call, PeerDamaged(c) PROVE node' \in Peers
    <2>1. PICK D \in SUBSET Call : node \in [D -> Listed]
      BY <1>1 DEF Peers
    <2>2. node' \in [D -> Listed]
      BY <1>4, <2>1 DEF PeerDamaged, NodeBecomes, Listed
    <2> QED
      BY <2>2 DEF Peers
  <1>5. CASE ReadDevices \/ ListPeers \/ RecordAdded \/ RoundAborted \/ NodeRestart
    BY <1>1, <1>5, EmptyType DEF ReadDevices, ListPeers, RecordAdded, RoundAborted, NodeRestart
  <1> QED
    BY <1>2, <1>3, <1>4, <1>5 DEF Round, Faults

LEMMA LoopTyped == TypeOK /\ (Round \/ Faults) => TypeOK'
  <1> SUFFICES ASSUME TypeOK, Round \/ Faults PROVE TypeOK'
    OBVIOUS
  <1>1. node' \in Peers
    BY LoopNodeType
  <1>2. dev' \in [Call -> Row]
    <2>1. CASE UNCHANGED dev
      BY <2>1 DEF TypeOK
    <2>2. CASE RecordAdded
      <3>1. dev' = [c \in Call |-> dev'[c]]
        BY <2>2 DEF RecordAdded
      <3> QED
        BY <2>2, <3>1, RecordKeeps
    <2> QED
      BY <2>1, <2>2, LoopTouches
  <1> QED
    BY <1>1, <1>2, LoopTouches DEF TypeOK

LEMMA RoundTypeStep == RoundTypeOK /\ [RNext]_allVars => RoundTypeOK'
  <1> SUFFICES ASSUME RoundTypeOK, [RNext]_allVars PROVE RoundTypeOK'
    OBVIOUS
  <1> USE ReconcileAssumption DEF RoundTypeOK
  <1>1. TypeOK'
    BY TypeStep, LoopTyped DEF RNext, Requests, allVars
  <1>2. CASE Requests \/ UNCHANGED allVars
    BY <1>1, <1>2 DEF Requests, allVars, rvars
  <1>3. CASE Faults
    <2>1. Fault
      BY <1>3 DEF Faults, NodeRestart, RoundAborted, PeerDamaged
    <2>2. faults' \in 0..MaxFaults
      BY <2>1 DEF Fault
    <2>3. CASE UNCHANGED <<round, want, todo, added>>
      BY <1>1, <2>2, <2>3
    <2>4. CASE RoundAborted
      BY <1>1, <2>2, <2>4, EmptyType DEF RoundAborted, Todo
    <2> QED
      BY <1>3, <2>3, <2>4 DEF Faults, NodeRestart, PeerDamaged
  <1>4. CASE ReadDevices \/ RecordAdded
    BY <1>1, <1>4 DEF ReadDevices, RecordAdded, InUse
  <1>5. CASE ListPeers
    <2>1. PICK peers \in {node, Empty} :
             /\ (peers = node /\ faults' = faults) \/ Fault
             /\ \/ todo' = NothingToDo
                \/ todo' = [ComputeDiff(peers) EXCEPT !.remove = IF RemoveOrphans THEN @ ELSE {}]
      BY <1>5 DEF ListPeers
    <2>2. DOMAIN peers \subseteq Call
      BY EmptyType DEF TypeOK, Peers
    <2>3. ComputeDiff(peers) \in Todo
      BY <2>2 DEF ComputeDiff, Todo
    <2>4. todo' \in Todo
      BY <2>1, <2>3, EmptyType DEF Todo
    <2> QED
      BY <1>1, <1>5, <2>1, <2>4 DEF ListPeers, Fault, Todo
  <1>6. ASSUME NEW c \in Call, RemovePeer(c) \/ ReAddPeer(c) \/ UpdateRemoves(c) \/ UpdateAdds(c)
        PROVE  RoundTypeOK'
    <2>1. todo' \in Todo
      <3>1. CASE RemovePeer(c)
        BY <3>1 DEF RemovePeer, Todo
      <3>2. CASE ReAddPeer(c)
        BY <3>2 DEF ReAddPeer, Todo
      <3>3. CASE UpdateRemoves(c)
        <4>1. CASE todo' = [todo EXCEPT !.update = @ \ {c}, !.add = {c}]
          <5>1. todo \in Todo /\ {c} \in SUBSET Call /\ todo.update \ {c} \in SUBSET Call
            BY DEF Todo
          <5> QED
            BY <4>1, <5>1 DEF Todo
        <4>2. CASE todo' = [todo EXCEPT !.update = @ \ {c}]
          BY <4>2 DEF Todo
        <4> QED
          BY <3>3, <4>1, <4>2 DEF UpdateRemoves
      <3>4. CASE UpdateAdds(c)
        BY <3>4 DEF UpdateAdds, Todo
      <3> QED
        BY <1>6, <3>1, <3>2, <3>3, <3>4
    <2>2. faults' \in 0..MaxFaults
      BY <1>6 DEF RemovePeer, ReAddPeer, UpdateRemoves, UpdateAdds, RemoveCall, AddSucceeds, AddRaises, Fault
    <2> QED
      BY <1>1, <1>6, <2>1, <2>2 DEF RemovePeer, ReAddPeer, UpdateRemoves, UpdateAdds, Todo
  <1> QED
    BY <1>2, <1>3, <1>4, <1>5, <1>6 DEF RNext, Round

\* Every variable of the requests, the node and the loop keeps its type, through
\* failed calls, damaged peers and rounds that are cut short.
THEOREM LoopTypedAlways == RSpec => []RoundTypeOK
  <1>1. RInit => RoundTypeOK
    BY TypeInit, EmptyType, ReconcileAssumption DEF RInit, RoundTypeOK, Todo
  <1> QED
    BY <1>1, RoundTypeStep, PTL DEF RSpec

-----------------------------------------------------------------------------
(* Issuing beside the loop.                                                *)

\* A step of the whole system is one of the requests, or it leaves alone all
\* that their invariants are about.
LEMMA SystemStep ==
  ASSUME TypeOK, [RNext]_allVars
  PROVE  \/ [Next]_vars
         \/ /\ UNCHANGED <<limit, lock, pc, seen, addr>>
            /\ \A c \in Call : dev'[c].st = dev[c].st /\ dev'[c].ip = dev[c].ip
  BY LoopTouches, LoopKeeps DEF RNext, Requests, allVars

LEMMA SystemKeepsRoom ==
  ASSUME LockedOnly, TypeOK, LockInv, RoomInv, FreshInv, [RNext]_allVars
  PROVE  TypeOK' /\ LockInv' /\ RoomInv' /\ FreshInv'
  <1>1. TypeOK'
    BY TypeStep, LoopTyped DEF RNext, Requests, allVars
  <1>2. CASE [Next]_vars
    BY <1>1, <1>2, LockStep, RoomStep, FreshStep
  <1>3. ASSUME UNCHANGED <<limit, lock, pc, seen, addr>>,
               \A c \in Call : dev'[c].st = dev[c].st
        PROVE  LockInv' /\ RoomInv' /\ FreshInv'
    <2>1. \A s \in Sub : Active(s)' = Active(s)
      BY <1>3 DEF Active
    <2> QED
      BY <1>3, <2>1, IssuanceAssumption DEF LockInv, RoomInv, FreshInv
  <1> QED
    BY <1>1, <1>2, <1>3, SystemStep

RoomAlways == TypeOK /\ LockInv /\ RoomInv /\ FreshInv

LEMMA RoomHolds == LockedOnly => (RSpec => []RoomAlways)
  <1> SUFFICES ASSUME LockedOnly PROVE RSpec => []RoomAlways
    OBVIOUS
  <1>1. RInit => RoomAlways
    BY TypeInit DEF RInit, Init, RoomAlways, LockInv, RoomInv, FreshInv, Holding, Counted
  <1>2. RoomAlways /\ [RNext]_allVars => RoomAlways'
    BY SystemKeepsRoom DEF RoomAlways
  <1> QED
    BY <1>1, <1>2, PTL DEF RSpec

\* With the loop running beside them, requests issue no device over the limit.
THEOREM LoopWithinLimit == LockedOnly => (RSpec => NoOverIssue)
  <1> SUFFICES ASSUME LockedOnly PROVE RSpec => NoOverIssue
    OBVIOUS
  <1>1. RoomAlways /\ RoomAlways' /\ [RNext]_allVars =>
          [\A c \in Call : dev[c].st = "none" /\ dev'[c].st = "active" =>
              Cardinality(Active(SubOf[c])') <= limit[SubOf[c]]]_vars
    BY SystemStep, CommitWithinLimit DEF RoomAlways, LockedOnly
  <1> QED
    BY <1>1, RoomHolds, PTL DEF RSpec, NoOverIssue

\* The whole system, requests, loop and node with its faults, still implements
\* Entitlement: nothing the loop writes is a device given out or taken back.
THEOREM LoopIsEntitled == LockedOnly => (RSpec => Entitled)
  <1> SUFFICES ASSUME LockedOnly PROVE RSpec => Entitled
    OBVIOUS
  <1>1. RInit => Ent!EntInit
    BY DEF RInit, Init, Ent!EntInit
  <1>2. RoomAlways /\ [RNext]_allVars => [Ent!EntNext]_<<[c \in Call |-> dev[c].st], limit>>
    BY SystemStep, StepEntitled DEF RoomAlways
  <1> QED
    BY <1>1, <1>2, RoomHolds, PTL DEF RSpec, Entitled, Ent!EntSpec

\* As long as all requests are for one subscription, addresses stay unique with
\* the loop beside them.
THEOREM LoopAddressesUnique == OneSubscription /\ ~WithPatch => (RSpec => []UniqueAddress)
  <1> SUFFICES ASSUME OneSubscription, ~WithPatch PROVE RSpec => []UniqueAddress
    OBVIOUS
  <1> DEFINE Inv == TypeOK /\ LockInv /\ AddressInv /\ UniqueAddress
  <1>1. RInit => Inv
    BY TypeInit DEF RInit, Init, LockInv, Holding, AddressInv, Allocated, UniqueAddress
  <1>2. Inv /\ [RNext]_allVars => Inv'
    <2> SUFFICES ASSUME Inv, [RNext]_allVars PROVE Inv'
      OBVIOUS
    <2>1. TypeOK'
      BY TypeStep, LoopTyped DEF RNext, Requests, allVars
    <2>2. CASE [Next]_vars
      BY <2>1, <2>2, LockStep, AddressStep
    <2>3. ASSUME UNCHANGED <<limit, lock, pc, seen, addr>>,
                 \A c \in Call : dev'[c].st = dev[c].st /\ dev'[c].ip = dev[c].ip
          PROVE  LockInv' /\ AddressInv' /\ UniqueAddress'
      BY <2>3 DEF LockInv, AddressInv, UniqueAddress
    <2> QED
      BY <2>1, <2>2, <2>3, SystemStep
  <1> QED
    BY <1>1, <1>2, PTL DEF RSpec
-----------------------------------------------------------------------------
(* The status of the peer beside the loop.                                 *)

\* The node loses no peer by itself, orphans are left alone, and add_peer sees every
\* clash, so that no peer is left without its address.
PeersLast == ~RemoveOrphans /\ ~NodeFaults /\ ~BlindAdds

Addressed == {c \in Call : addr[c] # NoIp}

\* Whoever has a peer, or may get one, has an address.
GoodInv ==
    /\ \A c \in DOMAIN node : node[c] # Wide
    /\ \A c \in Call : pc[c] \in {"apply", "commit", "phaseB", "addPeer"} \/ dev[c].st # "none"
                          => c \in Addressed

\* A round only ever adds peers, and what it has added is there.
AddsOnly ==
    /\ round # "update" /\ todo.remove = {} /\ todo.update = {}
    /\ want \subseteq Addressed /\ todo.add \subseteq Addressed
    /\ added \subseteq DOMAIN node

StatusInv == RoundTypeOK /\ SeenInv /\ GoodInv /\ AddsOnly

\* Adding a peer that clashes with none leaves the others as they are.
LEMMA AddKeepsGood ==
  ASSUME PeersLast, TypeOK, NEW c \in Addressed, \A d \in DOMAIN node : node[d] # Wide,
         node' = node \/ (CanAdd(c) /\ node' = WgSet(c))
  PROVE  DOMAIN node \subseteq DOMAIN node' /\ \A d \in DOMAIN node' : node'[d] # Wide
  <1>1. node \in Peers /\ addr \in [Call -> Ip \cup {NoIp}] /\ c \in Call /\ addr[c] # NoIp
    BY DEF TypeOK, Addressed
  <1>2. CASE node' = node
    BY <1>2
  <1>3. CASE CanAdd(c) /\ node' = WgSet(c)
    <2>1. \A d \in DOMAIN node \ {c} : node[d] # addr[c]
      BY <1>3 DEF CanAdd, Clash, PeersLast
    <2>2. DOMAIN node' = DOMAIN node \cup {c}
      BY <1>1, <1>3, PeersAfterAdd
    <2>3. \A d \in DOMAIN node' : node'[d] = IF d = c THEN addr[c] ELSE node[d]
      BY <1>3, <2>1, <2>2 DEF WgSet
    <2>4. addr[c] # Wide
      BY <1>1, IssuanceAssumption DEF Ip, NoIp, Wide
    <2> QED
      BY <2>2, <2>3, <2>4
  <1> QED
    BY <1>2, <1>3

\* A step of a request keeps the peers and their addresses good.
LEMMA RequestsKeepGood ==
  ASSUME PeersLast, TypeOK, GoodInv, [Next]_vars
  PROVE  GoodInv' /\ DOMAIN node \subseteq DOMAIN node' /\ Addressed \subseteq Addressed'
  <1> USE DEF TypeOK, Row, Goto, Addressed, NoIp, Ip
  <1>1. ASSUME NEW c \in Call,
               \/ Apply(c) \/ ApplyFails(c) \/ AddPeer(c) \/ AddPeerFails(c)
        PROVE  DOMAIN node \subseteq DOMAIN node' /\ \A d \in DOMAIN node' : node'[d] # Wide
    <2>1. c \in Addressed /\ MayAdd(c)
      BY <1>1 DEF GoodInv, Apply, ApplyFails, AddPeer, AddPeerFails, MayAdd
    <2> HIDE DEF Addressed, TypeOK
    <2> QED
      BY <2>1, AddKeepsGood DEF GoodInv, MayAdd
  <1>2. ASSUME NEW c \in Call, Allocate(c)
        PROVE  GoodInv' /\ DOMAIN node \subseteq DOMAIN node' /\ Addressed \subseteq Addressed'
    <2>1. addr'[c] # NoIp /\ \A d \in Call \ {c} : addr'[d] = addr[d]
      BY <1>2 DEF Allocate
    <2>2. node' = node /\ dev' = dev /\ \A d \in Call \ {c} : pc'[d] = pc[d]
      BY <1>2 DEF Allocate
    <2> QED
      BY <2>1, <2>2 DEF GoodInv
  <1>3. ASSUME NEW c \in Call, Step(c), ~Allocate(c)
        PROVE  /\ addr' = addr
               /\ \A d \in Call : pc'[d] \in {"apply", "commit", "phaseB", "addPeer"} \/ dev'[d].st # "none"
                      => pc[d] \in {"apply", "commit", "phaseB", "addPeer"} \/ dev[d].st # "none"
    BY <1>3 DEF Step, Lookup, LockSubscription, CountDevices, Apply, ApplyFails, Commit, Rollback,
                MarkApplying, AddPeer, MarkApplied, AddPeerFails, Store, Lost, SetApply
  <1>4. ASSUME NEW c \in Call, Step(c), ~(Apply(c) \/ ApplyFails(c) \/ AddPeer(c) \/ AddPeerFails(c))
        PROVE  node' = node
    BY <1>4 DEF Step, Lookup, LockSubscription, CountDevices, Allocate, Commit, Rollback,
                MarkApplying, MarkApplied, Store, Lost
  <1>5. ASSUME AdminEdit \/ UNCHANGED vars
        PROVE  /\ addr' = addr /\ node' = node /\ pc' = pc
               /\ \A d \in Call : dev'[d].st # "none" => dev[d].st # "none"
    BY <1>5 DEF AdminEdit, Revoke, Revive, ChangeLimit, vars
  <1>6. CASE AdminEdit \/ UNCHANGED vars
    BY <1>5, <1>6 DEF GoodInv
  <1>7. ASSUME NEW c \in Call, Step(c), ~Allocate(c)
        PROVE  GoodInv' /\ DOMAIN node \subseteq DOMAIN node' /\ Addressed \subseteq Addressed'
    <2>1. DOMAIN node \subseteq DOMAIN node' /\ \A d \in DOMAIN node' : node'[d] # Wide
      BY <1>1, <1>4, <1>7 DEF GoodInv
    <2> QED
      BY <1>3, <1>7, <2>1 DEF GoodInv
  <1> QED
    BY <1>2, <1>6, <1>7 DEF Next

\* So does a step of the loop, which takes no peer away.
LEMMA LoopKeepsStatus ==
  ASSUME PeersLast, StatusInv, Round \/ Faults
  PROVE  SeenInv' /\ GoodInv' /\ AddsOnly'
  <1>1. TypeOK /\ GoodInv /\ AddsOnly /\ SeenInv
    BY DEF StatusInv, RoundTypeOK
  <1>2. UNCHANGED <<pc, addr, apply>> /\ Addressed' = Addressed
    BY <1>1, LoopTouches DEF Addressed
  <1>3. \A c \in Call : dev'[c].st = dev[c].st
    BY <1>1, LoopKeeps
  <1>4. \A c \in Call : ~RemovePeer(c) /\ ~UpdateRemoves(c) /\ ~UpdateAdds(c)
    BY <1>1 DEF AddsOnly, RemovePeer, UpdateRemoves, UpdateAdds
  <1>5. ASSUME DOMAIN node \subseteq DOMAIN node', \A d \in DOMAIN node' : node'[d] # Wide, dev' = dev
        PROVE  SeenInv' /\ GoodInv'
    BY <1>1, <1>2, <1>5 DEF SeenInv, GoodInv
  <1>6. CASE Faults
    <2>1. RoundAborted
      BY <1>6 DEF Faults, NodeRestart, PeerDamaged, PeersLast
    <2>2. node' = node /\ dev' = dev
      BY <2>1 DEF RoundAborted, vars
    <2>3. AddsOnly'
      BY <2>1 DEF RoundAborted, AddsOnly, NothingToDo
    <2> QED
      BY <1>1, <1>5, <2>2, <2>3 DEF GoodInv
  <1>7. CASE ReadDevices
    <2>1. node' = node /\ dev' = dev /\ UNCHANGED <<todo, added>> /\ round' = "list" /\ want' = InUse
      BY <1>7 DEF ReadDevices, vars
    <2>2. InUse \subseteq Addressed
      BY <1>1 DEF InUse, GoodInv
    <2> QED
      BY <1>1, <1>2, <1>5, <2>1, <2>2 DEF AddsOnly, GoodInv
  <1>8. CASE ListPeers
    <2>1. node' = node /\ dev' = dev /\ added' = added /\ want' \subseteq want /\ round' \in {"idle", "apply"}
      BY <1>8 DEF ListPeers, vars
    <2>2. PICK peers \in {node, Empty} :
             \/ todo' = NothingToDo
             \/ todo' = [ComputeDiff(peers) EXCEPT !.remove = IF RemoveOrphans THEN @ ELSE {}]
      BY <1>8 DEF ListPeers
    <2>3. \A c \in DOMAIN peers : peers[c] # Wide
      BY <1>1 DEF GoodInv, Empty
    <2>4. todo'.remove = {} /\ todo'.update = {} /\ todo'.add \subseteq want
      <3>1. CASE todo' = NothingToDo
        BY <3>1 DEF NothingToDo
      <3>2. CASE todo' = [ComputeDiff(peers) EXCEPT !.remove = IF RemoveOrphans THEN @ ELSE {}]
        <4> DEFINE diff == ComputeDiff(peers)
        <4>1. diff.update = {} /\ diff.add = want \ DOMAIN peers
          BY <2>3 DEF ComputeDiff
        <4>2. diff = [remove |-> diff.remove, add |-> diff.add, update |-> diff.update]
          BY DEF ComputeDiff
        <4> HIDE DEF diff
        <4>3. todo' = [diff EXCEPT !.remove = {}]
          BY <3>2 DEF PeersLast, diff
        <4> QED
          BY <4>1, <4>2, <4>3
      <3> QED
        BY <2>2, <3>1, <3>2
    <2> QED
      BY <1>1, <1>2, <1>5, <2>1, <2>4 DEF AddsOnly, GoodInv
  <1>9. CASE RecordAdded
    <2>1. node' = node /\ round' = "idle" /\ todo' = todo /\ want' = {} /\ added' = {}
      BY <1>9 DEF RecordAdded
    <2>2. \A c \in Call : dev'[c].apply = "APPLIED" => dev[c].apply = "APPLIED" \/ c \in added
      BY <1>9 DEF RecordAdded
    <2>3. SeenInv'
      BY <1>1, <1>2, <2>1, <2>2 DEF SeenInv, AddsOnly
    <2>4. GoodInv'
      BY <1>1, <1>2, <1>3, <2>1 DEF GoodInv
    <2> QED
      BY <1>1, <1>2, <2>1, <2>3, <2>4 DEF AddsOnly
  <1>10. ASSUME NEW c \in Call, ReAddPeer(c) PROVE SeenInv' /\ GoodInv' /\ AddsOnly'
    <2>1. c \in Addressed
      BY <1>1, <1>10 DEF AddsOnly, ReAddPeer
    <2>2. dev' = dev /\ round' = round /\ want' = want /\ todo' = [todo EXCEPT !.add = @ \ {c}]
      BY <1>10 DEF ReAddPeer, AddSucceeds, AddRaises, NodeBecomes, vars
    <2>3. node' = node \/ (CanAdd(c) /\ node' = WgSet(c))
      BY <1>10 DEF ReAddPeer, AddSucceeds, AddRaises, NodeBecomes, vars
    <2>4. DOMAIN node \subseteq DOMAIN node' /\ \A d \in DOMAIN node' : node'[d] # Wide
      BY <1>1, <2>1, <2>3, AddKeepsGood DEF GoodInv
    <2>5. added' = added \/ (added' = added \cup {c} /\ c \in DOMAIN node')
      <3>1. node \in Peers /\ addr \in [Call -> Ip \cup {NoIp}]
        BY <1>1 DEF TypeOK
      <3>2. DOMAIN WgSet(c) = DOMAIN node \cup {c}
        BY <3>1, PeersAfterAdd
      <3> QED
        BY <1>10, <3>2 DEF ReAddPeer, AddSucceeds, NodeBecomes
    <2>6. todo'.remove = {} /\ todo'.update = {} /\ todo'.add \subseteq todo.add
      BY <1>1, <2>2 DEF AddsOnly, StatusInv, RoundTypeOK
    <2>7. AddsOnly'
      BY <1>1, <1>2, <2>2, <2>4, <2>5, <2>6 DEF AddsOnly
    <2> QED
      BY <1>5, <2>2, <2>4, <2>7
  <1> QED
    BY <1>4, <1>6, <1>7, <1>8, <1>9, <1>10 DEF Round

\* With the loop beside the requests a device marked APPLIED still has its peer on the
\* node: what a round records it has added itself, although the rows may have changed
\* since it read them.  It takes a node that keeps its peers, orphans that are left
\* alone and clashes that are seen: otherwise the loop removes peers that are marked.
THEOREM LoopAppliedExist == PeersLast => (RSpec => []AppliedIsOnNode)
  <1> SUFFICES ASSUME PeersLast PROVE RSpec => []AppliedIsOnNode
    OBVIOUS
  <1>1. RInit => StatusInv
    <2> SUFFICES ASSUME RInit PROVE StatusInv
      OBVIOUS
    <2>1. RoundTypeOK
      BY TypeInit, EmptyType, ReconcileAssumption DEF RInit, RoundTypeOK, Todo
    <2> QED
      BY <2>1 DEF RInit, Init, StatusInv, SeenInv, GoodInv, AddsOnly, NothingToDo, Empty
  <1>2. StatusInv /\ [RNext]_allVars => StatusInv'
    <2> SUFFICES ASSUME StatusInv, [RNext]_allVars PROVE StatusInv'
      OBVIOUS
    <2>1. RoundTypeOK' /\ TypeOK /\ SeenInv /\ GoodInv /\ AddsOnly
      BY RoundTypeStep DEF StatusInv, RoundTypeOK
    <2>2. CASE Requests \/ UNCHANGED allVars
      <3>1. [Next]_vars /\ UNCHANGED rvars
        BY <2>2 DEF Requests, allVars
      <3>2. GoodInv' /\ DOMAIN node \subseteq DOMAIN node' /\ Addressed \subseteq Addressed'
        BY <2>1, <3>1, RequestsKeepGood
      <3>3. SeenInv'
        BY <2>1, <3>1, SeenStep
      <3>4. AddsOnly'
        BY <2>1, <3>1, <3>2 DEF AddsOnly, rvars
      <3> QED
        BY <2>1, <3>2, <3>3, <3>4 DEF StatusInv
    <2>3. CASE Round \/ Faults
      BY <2>1, <2>3, LoopKeepsStatus DEF StatusInv
    <2> QED
      BY <2>2, <2>3 DEF RNext
  <1>3. StatusInv => AppliedIsOnNode
    BY DEF StatusInv, SeenInv, AppliedIsOnNode
  <1> QED
    BY <1>1, <1>2, <1>3, PTL DEF RSpec
=============================================================================
