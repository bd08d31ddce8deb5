--------------------------- MODULE IssuanceProofs ---------------------------
(***************************************************************************)
(* The subscription's row lock keeps issuing within the device limit, for  *)
(* any number of requests and subscriptions.                               *)
(***************************************************************************)
EXTENDS Issuance, FiniteSetTheorems, TLAPS

\* Two things the lock does not cover: the Mini App reads the limit before it
\* takes the lock, and PATCH revives a device without it.
LockedOnly == ~WithPatch /\ \A c \in Call : KindOf[c] # "webapp"

\* All requests are for one subscription.
OneSubscription == \A c, d \in Call : SubOf[c] = SubOf[d]

Holding == {"count", "allocate", "apply", "commit"}
Counted == {"allocate", "apply", "commit"}
Allocated == {"apply", "commit"}

\* Between its lock and its end a request holds the lock.
LockInv == \A c \in Call : pc[c] \in Holding => lock[SubOf[c]] = c

\* A request that holds the lock knows the limit, and one that has counted
\* still has room for its device.
RoomInv ==
    \A c \in Call :
        /\ pc[c] \in Holding => seen[c] = limit[SubOf[c]]
        /\ pc[c] \in Counted => Cardinality(Active(SubOf[c])) < limit[SubOf[c]]

\* Whoever says that a peer is applied, or is about to, has seen it on the node.
SeenInv ==
    \A c \in Call :
        apply[c] = "APPLIED" \/ pc[c] = "markApplied" \/ dev[c].apply = "APPLIED" => c \in DOMAIN node

\* The address a request has allocated is still free.
AddressInv ==
    \A c \in Call : pc[c] \in Allocated =>
        \A d \in Call : dev[d].st = "active" => dev[d].ip # addr[c]

LEMMA CallsFinite == \A S \in SUBSET Call : IsFiniteSet(S) /\ Cardinality(S) \in Nat
  <1>1. IsFiniteSet(Call)
    BY FS_Interval, IssuanceAssumption DEF Call
  <1> QED
    BY <1>1, FS_Subset, FS_CardinalityType

\* What add_peer makes of the peers of a node: one more peer at most.
LEMMA PeersAfterAdd ==
  ASSUME node \in Peers, addr \in [Call -> Ip \cup {NoIp}], NEW c \in Call
  PROVE  /\ WgSet(c) \in Peers
         /\ DOMAIN WgSet(c) = DOMAIN node \cup {c}
         /\ MayAdd(c) => node' \in Peers /\ DOMAIN node \subseteq DOMAIN node'
  <1>1. PICK D \in SUBSET Call : node \in [D -> Listed]
    BY DEF Peers
  <1>2. WgSet(c) \in [D \cup {c} -> Listed]
    BY <1>1 DEF WgSet, Listed
  <1>3. D \cup {c} \in SUBSET Call
    BY <1>1
  <1>4. WgSet(c) \in Peers
    BY <1>2, <1>3 DEF Peers
  <1>5. DOMAIN WgSet(c) = DOMAIN node \cup {c}
    BY <1>1 DEF WgSet
  <1> HIDE DEF WgSet
  <1>6. ASSUME MayAdd(c) PROVE node' \in Peers /\ DOMAIN node \subseteq DOMAIN node'
    BY <1>4, <1>5, <1>6 DEF MayAdd
  <1> QED
    BY <1>4, <1>5, <1>6

LEMMA TypeInit == Init => TypeOK
  <1>1. Empty \in Peers
    <2>1. Empty \in [{} -> Listed] /\ {} \in SUBSET Call
      BY DEF Empty
    <2> QED
      BY <2>1 DEF Peers
  <1> QED
    BY <1>1, IssuanceAssumption DEF Init, TypeOK, Row, ApplyStatus

LEMMA TypeStep == TypeOK /\ [Next]_vars => TypeOK'
  <1> SUFFICES ASSUME TypeOK, [Next]_vars PROVE TypeOK'
    OBVIOUS
  <1> USE IssuanceAssumption DEF TypeOK, Goto, Unlock, Row, ApplyStatus, Nobody
  <1>0. \A c \in Call : SubOf[c] \in Sub /\ limit[SubOf[c]] \in 0..MaxLimit
    OBVIOUS
  <1>1. ASSUME NEW c \in Call, Lookup(c) PROVE TypeOK'
    <2>1. seen' \in [Call -> 0..MaxLimit]
      BY <1>0, <1>1 DEF Lookup
    <2> QED
      BY <1>1, <2>1 DEF Lookup
  <1>11. ASSUME NEW c \in Call, LockSubscription(c) PROVE TypeOK'
    <2>1. seen' \in [Call -> 0..MaxLimit]
      BY <1>0, <1>11 DEF LockSubscription
    <2>2. lock' \in [Sub -> Call \cup {Nobody}]
      BY <1>0, <1>11 DEF LockSubscription
    <2> QED
      BY <1>11, <2>1, <2>2 DEF LockSubscription
  <1>12. ASSUME NEW c \in Call, CountDevices(c) PROVE TypeOK'
    BY <1>12 DEF CountDevices
  <1>2. ASSUME NEW c \in Call, Allocate(c) PROVE TypeOK'
    <2>1. addr' \in [Call -> Ip \cup {NoIp}]
      BY <1>2 DEF Allocate
    <2>2. apply' \in [Call -> ApplyStatus]
      BY <1>2 DEF Allocate
    <2>3. pc' \in [Call -> {"start", "lock", "count", "allocate", "apply", "commit",
                        "phaseB", "addPeer", "markApplied", "store", "done"}]
      BY <1>2 DEF Allocate
    <2> QED
      BY <1>2, <2>1, <2>2, <2>3 DEF Allocate
  <1>3. ASSUME NEW c \in Call, Apply(c) \/ ApplyFails(c) PROVE TypeOK'
    <2>0. node' = WgSet(c) \/ MayAdd(c)
      BY <1>3 DEF Apply, ApplyFails
    <2>1. node' \in Peers
      BY <2>0, PeersAfterAdd, Zenon
    <2>2. apply' \in [Call -> ApplyStatus]
      BY <1>3 DEF Apply, ApplyFails
    <2>3. lock' \in [Sub -> Call \cup {Nobody}]
      BY <1>3 DEF Apply, ApplyFails
    <2> QED
      BY <1>3, <2>1, <2>2, <2>3 DEF Apply, ApplyFails
  <1>4. ASSUME NEW c \in Call, Commit(c) PROVE TypeOK'
    BY <1>4 DEF Commit
  <1>5. ASSUME NEW c \in Call, Rollback(c) \/ Lost(c) PROVE TypeOK'
    BY <1>5 DEF Rollback, Lost
  <1>51. ASSUME NEW c \in Call, Store(c) PROVE TypeOK'
    <2>1. cache' \in [IdemKey -> Call \cup {Nobody}]
      BY <1>51 DEF Store
    <2> QED
      BY <1>51, <2>1 DEF Store
  <1>6. ASSUME NEW c \in Call,
               MarkApplying(c) \/ AddPeer(c) \/ MarkApplied(c) \/ AddPeerFails(c)
        PROVE  TypeOK'
    <2>1. node' \in Peers
      BY <1>6, PeersAfterAdd DEF MarkApplying, AddPeer, MarkApplied, AddPeerFails
    <2>2. CASE AddPeer(c)
      BY <2>1, <2>2 DEF AddPeer
    <2>3. CASE AddPeerFails(c)
      BY <2>1, <2>3 DEF AddPeerFails, SetApply
    <2>4. CASE MarkApplying(c)
      BY <2>4 DEF MarkApplying, SetApply
    <2>5. CASE MarkApplied(c)
      BY <2>5 DEF MarkApplied, SetApply
    <2> HIDE DEF TypeOK
    <2> QED
      BY <1>6, <2>2, <2>3, <2>4, <2>5
  <1>7. ASSUME NEW c \in Call, Revoke(c) \/ Revive(c) PROVE TypeOK'
    <2>1. edits' \in 0..MaxEdits
      BY <1>7 DEF Revoke, Revive, Edit
    <2>2. PICK st \in {"active", "revoked"} : dev' = [dev EXCEPT ![c].st = st]
      BY <1>7 DEF Revoke, Revive
    <2>3. dev' \in [Call -> Row]
      BY <2>2
    <2> QED
      BY <1>7, <2>1, <2>3 DEF Revoke, Revive
  <1>8. ASSUME NEW s \in Sub, NEW n \in 1..MaxLimit, ChangeLimit(s, n) PROVE TypeOK'
    BY <1>8 DEF ChangeLimit, Edit
  <1>9. CASE UNCHANGED vars
    BY <1>9 DEF vars
  <1> HIDE DEF TypeOK
  <1> QED
    BY <1>1, <1>11, <1>12, <1>2, <1>3, <1>4, <1>5, <1>51, <1>6, <1>7, <1>8, <1>9 DEF Next, AdminEdit, Step

\* Every variable keeps its type.
THEOREM IssuanceTyped == Spec => []TypeOK
  BY TypeInit, TypeStep, PTL DEF Spec
-----------------------------------------------------------------------------
(* The lock.                                                               *)

LEMMA LockStep == TypeOK /\ LockInv /\ [Next]_vars => LockInv'
  <1> SUFFICES ASSUME TypeOK, LockInv, [Next]_vars PROVE LockInv'
    OBVIOUS
  <1> USE IssuanceAssumption DEF TypeOK, LockInv, Holding, Goto, Nobody
  <1>1. ASSUME NEW c \in Call, Lookup(c) \/ CountDevices(c) PROVE LockInv'
    BY <1>1 DEF Lookup, CountDevices
  <1>2. ASSUME NEW c \in Call, LockSubscription(c) PROVE LockInv'
    <2>1. \A d \in Call : d # c /\ pc'[d] \in Holding => SubOf[d] # SubOf[c]
      BY <1>2 DEF LockSubscription, Call
    <2> QED
      BY <1>2, <2>1 DEF LockSubscription
  <1>3. ASSUME NEW c \in Call, Allocate(c) \/ Apply(c) PROVE LockInv'
    BY <1>3 DEF Allocate, Apply
  <1>4. ASSUME NEW c \in Call, ApplyFails(c) \/ Commit(c) \/ Rollback(c) PROVE LockInv'
    <2>1. Unlock(c) /\ pc'[c] \notin Holding /\ \A d \in Call \ {c} : pc'[d] = pc[d]
      BY <1>4 DEF ApplyFails, Commit, Rollback
    <2> QED
      BY <2>1 DEF Unlock
  <1>5. ASSUME NEW c \in Call, Store(c) \/ Lost(c) PROVE LockInv'
    BY <1>5 DEF Store, Lost
  <1>6. ASSUME NEW c \in Call,
               MarkApplying(c) \/ AddPeer(c) \/ MarkApplied(c) \/ AddPeerFails(c)
        PROVE  LockInv'
    BY <1>6 DEF MarkApplying, AddPeer, MarkApplied, AddPeerFails
  <1>7. CASE AdminEdit
    BY <1>7 DEF AdminEdit, Revoke, Revive, ChangeLimit
  <1>8. CASE UNCHANGED vars
    BY <1>8 DEF vars
  <1> HIDE DEF LockInv, TypeOK
  <1> QED
    BY <1>1, <1>2, <1>3, <1>4, <1>5, <1>6, <1>7, <1>8 DEF Next, Step

\* Apart from a commit, no step makes a device active; a commit does so for
\* its own device only.
LEMMA OnlyCommit ==
  ASSUME TypeOK, [Next]_vars, ~WithPatch, NEW d \in Call, ~Commit(d), dev'[d].st = "active"
  PROVE  dev[d].st = "active"
  <1> USE DEF TypeOK, Row
  <1>1. ASSUME NEW c \in Call, Step(c), ~Commit(c) PROVE dev[d].st = "active"
    BY <1>1 DEF Step, Lookup, LockSubscription, CountDevices, Allocate, Apply, ApplyFails,
                Rollback, MarkApplying, AddPeer, MarkApplied, AddPeerFails, SetApply,
                Store, Lost
  <1>2. ASSUME NEW c \in Call, Commit(c) PROVE dev[d].st = "active"
    BY <1>2 DEF Commit
  <1>3. CASE AdminEdit
    BY <1>3 DEF AdminEdit, Revoke, Revive, ChangeLimit
  <1>4. CASE UNCHANGED vars
    BY <1>4 DEF vars
  <1> QED
    BY <1>1, <1>2, <1>3, <1>4 DEF Next

-----------------------------------------------------------------------------
(* The device limit.                                                       *)

\* A subscription for which no request commits in this step does not gain a device.
LEMMA ActiveShrinks ==
  ASSUME TypeOK, TypeOK', [Next]_vars, ~WithPatch, NEW s \in Sub,
         \A c \in Call : SubOf[c] = s => ~Commit(c)
  PROVE  Cardinality(Active(s)') <= Cardinality(Active(s))
  <1>1. Active(s)' \subseteq Active(s)
    BY OnlyCommit DEF Active
  <1>2. IsFiniteSet(Active(s))
    BY CallsFinite DEF Active
  <1> QED
    BY <1>1, <1>2, FS_Subset

\* What a request knows of the limit.
LEMMA LimitStep ==
  ASSUME LockedOnly, TypeOK, LockInv, [Next]_vars,
         \A c \in Call : pc[c] \in Holding => seen[c] = limit[SubOf[c]]
  PROVE  \A c \in Call : pc'[c] \in Holding => seen'[c] = limit'[SubOf[c]]
  <1> USE IssuanceAssumption DEF LockedOnly, TypeOK, LockInv, Holding, Goto, Nobody
  <1>1. ASSUME NEW c \in Call, Lookup(c) \/ LockSubscription(c)
        PROVE  \A d \in Call : pc'[d] \in Holding => seen'[d] = limit'[SubOf[d]]
    BY <1>1 DEF Lookup, LockSubscription
  <1>2. ASSUME NEW c \in Call,
               \/ CountDevices(c) \/ Allocate(c) \/ Apply(c) \/ ApplyFails(c) \/ Commit(c)
               \/ Rollback(c) \/ Store(c) \/ Lost(c)
        PROVE  \A d \in Call : pc'[d] \in Holding => seen'[d] = limit'[SubOf[d]]
    BY <1>2 DEF CountDevices, Allocate, Apply, ApplyFails, Commit, Rollback, Store, Lost
  <1>3. ASSUME NEW c \in Call,
               MarkApplying(c) \/ AddPeer(c) \/ MarkApplied(c) \/ AddPeerFails(c)
        PROVE  \A d \in Call : pc'[d] \in Holding => seen'[d] = limit'[SubOf[d]]
    BY <1>3 DEF MarkApplying, AddPeer, MarkApplied, AddPeerFails
  <1>4. ASSUME NEW s \in Sub, NEW n \in 1..MaxLimit, ChangeLimit(s, n)
        PROVE  \A d \in Call : pc'[d] \in Holding => seen'[d] = limit'[SubOf[d]]
    BY <1>4 DEF ChangeLimit, Call
  <1>5. CASE UNCHANGED vars \/ \E c \in Call : Revoke(c) \/ Revive(c)
    BY <1>5 DEF vars, Revoke, Revive
  <1> QED
    BY <1>1, <1>2, <1>3, <1>4, <1>5 DEF Next, Step, AdminEdit

\* A request enters Counted by the count itself and stays there with the lock.
LEMMA CountedStep ==
  ASSUME TypeOK, LockInv, [Next]_vars, NEW d \in Call, pc'[d] \in Counted
  PROVE  /\ pc[d] \in Holding
         /\ limit'[SubOf[d]] = limit[SubOf[d]]
         /\ \A c \in Call : SubOf[c] = SubOf[d] => ~Commit(c)
         /\ pc[d] \notin Counted => Cardinality(Active(SubOf[d])) < seen[d]
  <1> USE IssuanceAssumption DEF TypeOK, LockInv, Holding, Counted, Goto, Nobody
  <1>1. ASSUME NEW c \in Call, SubOf[c] = SubOf[d], Commit(c) PROVE FALSE
    BY <1>1 DEF Commit
  <1>2. ASSUME NEW c \in Call, Step(c)
        PROVE  /\ pc[d] \in Holding
               /\ limit'[SubOf[d]] = limit[SubOf[d]]
               /\ pc[d] \notin Counted => Cardinality(Active(SubOf[d])) < seen[d]
    BY <1>2 DEF Step, Lookup, LockSubscription, CountDevices, Allocate, Apply, ApplyFails,
                Commit, Rollback, MarkApplying, AddPeer, MarkApplied, AddPeerFails, Store, Lost
  <1>3. ASSUME NEW s \in Sub, NEW n \in 1..MaxLimit, ChangeLimit(s, n)
        PROVE  pc[d] \in Holding /\ pc[d] \in Counted /\ limit'[SubOf[d]] = limit[SubOf[d]]
    BY <1>3 DEF ChangeLimit, Call
  <1>4. CASE UNCHANGED vars \/ \E c \in Call : Revoke(c) \/ Revive(c)
    BY <1>1, <1>4 DEF vars, Revoke, Revive
  <1> QED
    BY <1>1, <1>2, <1>3, <1>4 DEF Next, AdminEdit

LEMMA RoomStep ==
  LockedOnly /\ TypeOK /\ TypeOK' /\ LockInv /\ RoomInv /\ [Next]_vars => RoomInv'
  <1> SUFFICES ASSUME LockedOnly, TypeOK, TypeOK', LockInv, RoomInv, [Next]_vars
               PROVE  RoomInv'
    OBVIOUS
  <1>1. \A d \in Call : pc'[d] \in Holding => seen'[d] = limit'[SubOf[d]]
    BY LimitStep DEF RoomInv
  <1>2. ASSUME NEW d \in Call, pc'[d] \in Counted
        PROVE  Cardinality(Active(SubOf[d])') < limit'[SubOf[d]]
    <2>1. /\ pc[d] \in Holding
          /\ limit'[SubOf[d]] = limit[SubOf[d]]
          /\ \A c \in Call : SubOf[c] = SubOf[d] => ~Commit(c)
          /\ pc[d] \notin Counted => Cardinality(Active(SubOf[d])) < seen[d]
      BY <1>2, CountedStep
    <2>2. Cardinality(Active(SubOf[d])) < limit[SubOf[d]]
      BY <2>1 DEF RoomInv
    <2>3. SubOf[d] \in Sub /\ limit[SubOf[d]] \in Nat
      BY IssuanceAssumption DEF TypeOK
    <2>4. Cardinality(Active(SubOf[d])') <= Cardinality(Active(SubOf[d]))
      BY <2>1, <2>3, ActiveShrinks DEF LockedOnly
    <2>5. Active(SubOf[d]) \in SUBSET Call /\ Active(SubOf[d])' \in SUBSET Call
      BY DEF Active
    <2>6. Cardinality(Active(SubOf[d])) \in Nat /\ Cardinality(Active(SubOf[d])') \in Nat
      BY <2>5, CallsFinite
    <2> QED
      BY <2>1, <2>2, <2>3, <2>4, <2>6
  <1> QED
    BY <1>1, <1>2 DEF RoomInv

\* The commit of a request that has counted brings the device within the limit.
LEMMA CommitWithinLimit ==
  ASSUME TypeOK, TypeOK', LockInv, RoomInv, ~WithPatch, [Next]_vars, NEW c \in Call,
         dev[c].st = "none", dev'[c].st = "active"
  PROVE  Cardinality(Active(SubOf[c])') <= limit[SubOf[c]]
  <1>1. Commit(c)
    BY OnlyCommit
  <1>2. Active(SubOf[c])' \subseteq Active(SubOf[c]) \cup {c}
    <2>1. \A d \in Call \ {c} : dev'[d] = dev[d]
      BY <1>1 DEF Commit, TypeOK
    <2> QED
      BY <2>1 DEF Active
  <1>3. Cardinality(Active(SubOf[c])) < limit[SubOf[c]] /\ limit[SubOf[c]] \in Nat
    <2>1. pc[c] \in Counted
      BY <1>1 DEF Commit, Goto, Counted
    <2>2. SubOf[c] \in Sub /\ limit[SubOf[c]] \in 1..MaxLimit
      BY IssuanceAssumption DEF TypeOK
    <2> QED
      BY <2>1, <2>2, IssuanceAssumption DEF RoomInv
  <1>4. /\ Active(SubOf[c]) \in SUBSET Call
        /\ Active(SubOf[c])' \in SUBSET Call
        /\ Active(SubOf[c]) \cup {c} \in SUBSET Call
    BY DEF Active
  <1>5. c \notin Active(SubOf[c])
    BY DEF Active
  <1>6. Cardinality(Active(SubOf[c]) \cup {c}) = Cardinality(Active(SubOf[c])) + 1
    BY <1>4, <1>5, CallsFinite, FS_AddElement
  <1>7. Cardinality(Active(SubOf[c])') <= Cardinality(Active(SubOf[c]) \cup {c})
    BY <1>2, <1>4, CallsFinite, FS_Subset
  <1> QED
    BY <1>3, <1>4, <1>6, <1>7, CallsFinite

\* Where every request reads the limit under the lock and nothing else revives a
\* device, no schedule of any number of requests, revocations and changes of the
\* limits issues a device over the limit.
THEOREM IssuedWithinLimit == LockedOnly => (Spec => NoOverIssue)
  <1> SUFFICES ASSUME LockedOnly PROVE Spec => NoOverIssue
    OBVIOUS
  <1> DEFINE Inv == TypeOK /\ LockInv /\ RoomInv
  <1>1. Init => Inv
    BY TypeInit DEF Init, LockInv, RoomInv, Holding, Counted
  <1>2. Inv /\ [Next]_vars => Inv'
    BY TypeStep, LockStep, RoomStep
  <1>3. Inv /\ Inv' /\ [Next]_vars =>
          [\A c \in Call : dev[c].st = "none" /\ dev'[c].st = "active" =>
              Cardinality(Active(SubOf[c])') <= limit[SubOf[c]]]_vars
    BY CommitWithinLimit DEF LockedOnly
  <1> QED
    BY <1>1, <1>2, <1>3, PTL DEF Spec, NoOverIssue

-----------------------------------------------------------------------------
(* Issuing implements Entitlement.                                         *)

\* A request that has not committed has no device yet.
FreshInv ==
    \A c \in Call : pc[c] \in {"start", "lock"} \cup Holding => dev[c].st = "none"

LEMMA FreshStep == TypeOK /\ FreshInv /\ [Next]_vars => FreshInv'
  <1> SUFFICES ASSUME TypeOK, FreshInv, [Next]_vars PROVE FreshInv'
    OBVIOUS
  <1> USE DEF TypeOK, Row, FreshInv, Holding, Goto
  <1>1. ASSUME NEW c \in Call,
               \/ Lookup(c) \/ LockSubscription(c) \/ CountDevices(c) \/ Allocate(c)
               \/ Apply(c) \/ ApplyFails(c) \/ Rollback(c) \/ AddPeer(c) \/ Store(c) \/ Lost(c)
        PROVE  FreshInv'
    BY <1>1 DEF Lookup, LockSubscription, CountDevices, Allocate, Apply, ApplyFails,
                Rollback, AddPeer, Store, Lost
  <1>2. ASSUME NEW c \in Call, Commit(c) PROVE FreshInv'
    BY <1>2 DEF Commit
  <1>3. ASSUME NEW c \in Call, MarkApplying(c) \/ MarkApplied(c) \/ AddPeerFails(c)
        PROVE  FreshInv'
    BY <1>3 DEF MarkApplying, MarkApplied, AddPeerFails, SetApply
  <1>4. CASE AdminEdit
    BY <1>4 DEF AdminEdit, Revoke, Revive, ChangeLimit
  <1>5. CASE UNCHANGED vars
    BY <1>5 DEF vars
  <1> HIDE DEF FreshInv, TypeOK
  <1> QED
    BY <1>1, <1>2, <1>3, <1>4, <1>5 DEF Next, Step

\* The devices of a subscription are the same set in both specifications.
LEMMA InUseIsActive == \A s \in Sub : Ent!InUse(s) = Active(s)
  BY DEF Ent!InUse, Active

\* A step that is neither a commit, a revocation nor a new limit is invisible.
LEMMA Invisible ==
  ASSUME TypeOK, NEW c \in Call, Step(c), ~Commit(c)
  PROVE  limit' = limit /\ \A d \in Call : dev'[d].st = dev[d].st
  BY DEF TypeOK, Row, Step, Lookup, LockSubscription, CountDevices, Allocate, Apply, ApplyFails,
         Rollback, MarkApplying, AddPeer, MarkApplied, AddPeerFails, SetApply, Store, Lost

\* The commit is the moment at which the device is given out.
LEMMA CommitGives ==
  ASSUME TypeOK, LockInv, RoomInv, FreshInv, NEW c \in Call, Commit(c)
  PROVE  Ent!Give(c)
  <1>1. pc[c] \in Counted /\ pc[c] \in Holding
    BY DEF Commit, Goto, Counted, Holding
  <1>2. dev[c].st = "none"
    BY <1>1 DEF FreshInv
  <1>3. Ent!Cardinality(Ent!InUse(SubOf[c])) < limit[SubOf[c]]
    <2>1. \A S : Ent!Cardinality(S) = Cardinality(S)
      BY DEF Ent!Cardinality, Cardinality, Ent!IsFiniteSet, IsFiniteSet
    <2> QED
      BY <1>1, <2>1, InUseIsActive, IssuanceAssumption DEF RoomInv
  <1>4. [d \in Call |-> dev'[d].st] = [[d \in Call |-> dev[d].st] EXCEPT ![c] = "active"]
    BY DEF Commit, TypeOK, Row
  <1>5. limit' = limit
    BY DEF Commit
  <1> QED
    BY <1>2, <1>3, <1>4, <1>5 DEF Ent!Give

LEMMA StepEntitled ==
  ASSUME LockedOnly, TypeOK, LockInv, RoomInv, FreshInv, [Next]_vars
  PROVE  [Ent!EntNext]_<<[c \in Call |-> dev[c].st], limit>>
  <1>1. ASSUME NEW c \in Call, Step(c)
        PROVE  [Ent!EntNext]_<<[d \in Call |-> dev[d].st], limit>>
    <2>1. CASE Commit(c)
      BY <2>1, CommitGives DEF Ent!EntNext
    <2>2. CASE ~Commit(c)
      BY <1>1, <2>2, Invisible
    <2> QED
      BY <2>1, <2>2
  <1>2. ASSUME NEW c \in Call, Revoke(c) PROVE Ent!Withdraw(c)
    <2>1. [d \in Call |-> dev'[d].st] = [[d \in Call |-> dev[d].st] EXCEPT ![c] = "revoked"]
      BY <1>2 DEF Revoke, TypeOK, Row
    <2> QED
      BY <1>2, <2>1 DEF Revoke, Ent!Withdraw
  <1>3. ASSUME NEW c \in Call, Revive(c) PROVE FALSE
    BY <1>3 DEF Revive, LockedOnly
  <1>4. ASSUME NEW s \in Sub, NEW n \in 1..MaxLimit, ChangeLimit(s, n) PROVE Ent!SetLimit(s, n)
    BY <1>4 DEF ChangeLimit, Ent!SetLimit
  <1>5. CASE UNCHANGED vars
    BY <1>5 DEF vars
  <1> QED
    BY <1>1, <1>2, <1>3, <1>4, <1>5 DEF Next, AdminEdit, Ent!EntNext

\* Under the same condition as the limit itself, every behaviour of issuing is a
\* behaviour of Entitlement: the row lock makes count, check and insert one step.
THEOREM IssuingIsEntitled == LockedOnly => (Spec => Entitled)
  <1> SUFFICES ASSUME LockedOnly PROVE Spec => Entitled
    OBVIOUS
  <1> DEFINE Inv == TypeOK /\ LockInv /\ RoomInv /\ FreshInv
  <1>1. Init => Inv
    BY TypeInit DEF Init, LockInv, RoomInv, FreshInv, Holding, Counted
  <1>2. Inv /\ [Next]_vars => Inv'
    BY TypeStep, LockStep, RoomStep, FreshStep
  <1>3. Init => Ent!EntInit
    BY DEF Init, Ent!EntInit
  <1>4. Inv /\ [Next]_vars => [Ent!EntNext]_<<[c \in Call |-> dev[c].st], limit>>
    BY StepEntitled
  <1> QED
    BY <1>1, <1>2, <1>3, <1>4, PTL DEF Spec, Entitled, Ent!EntSpec

-----------------------------------------------------------------------------
(* Addresses.                                                              *)

\* With one subscription the row lock is a lock on the whole address pool.
LEMMA OneHolder ==
  ASSUME OneSubscription, LockInv, NEW c \in Call, NEW d \in Call,
         pc[c] \in Holding, pc[d] \in Holding
  PROVE  c = d
  BY DEF OneSubscription, LockInv

\* A step that is not a commit gives no device in use an address.
LEMMA InUseKept ==
  ASSUME TypeOK, [Next]_vars, ~WithPatch, NEW d \in Call, ~Commit(d), dev'[d].st = "active"
  PROVE  dev[d].st = "active" /\ dev'[d].ip = dev[d].ip
  <1> USE DEF TypeOK, Row
  <1>1. ASSUME NEW c \in Call, Step(c), ~Commit(c) PROVE dev'[d].ip = dev[d].ip
    <2>1. CASE dev' = dev
      BY <2>1
    <2>2. CASE \E status \in ApplyStatus : SetApply(c, status)
      BY <2>2 DEF SetApply
    <2> QED
      BY <1>1, <2>1, <2>2
         DEF Step, Lookup, LockSubscription, CountDevices, Allocate, Apply, ApplyFails,
             Rollback, MarkApplying, AddPeer, MarkApplied, AddPeerFails, Store, Lost, ApplyStatus
  <1>2. ASSUME NEW c \in Call, Commit(c) PROVE dev'[d].ip = dev[d].ip
    BY <1>2 DEF Commit
  <1>3. CASE AdminEdit
    BY <1>3 DEF AdminEdit, Revoke, Revive, ChangeLimit
  <1>4. CASE UNCHANGED vars
    BY <1>4 DEF vars
  <1> QED
    BY <1>1, <1>2, <1>3, <1>4, OnlyCommit DEF Next

\* A request is past its allocation because it was, with the same address and
\* nobody committing, or because it allocates now.
LEMMA AllocatedStep ==
  ASSUME TypeOK, [Next]_vars, NEW c \in Call, pc'[c] \in Allocated
  PROVE  \/ pc[c] \in Allocated /\ addr'[c] = addr[c] /\ ~Commit(c)
         \/ pc[c] = "allocate" /\ addr'[c] \notin UsedIps /\ dev' = dev
  <1> USE DEF TypeOK, Allocated, Goto
  <1>0. ~Commit(c)
    BY DEF Commit
  <1>1. ASSUME NEW d \in Call, Allocate(d), d = c
        PROVE  pc[c] = "allocate" /\ addr'[c] \notin UsedIps /\ dev' = dev
    BY <1>1 DEF Allocate, NextAddress
  <1>2. ASSUME NEW d \in Call, Step(d), ~(Allocate(d) /\ d = c)
        PROVE  pc[c] \in Allocated /\ addr'[c] = addr[c]
    BY <1>2 DEF Step, Lookup, LockSubscription, CountDevices, Allocate, Apply, ApplyFails,
                Commit, Rollback, MarkApplying, AddPeer, MarkApplied, AddPeerFails, Store, Lost
  <1>3. CASE AdminEdit
    BY <1>0, <1>3 DEF AdminEdit, Revoke, Revive, ChangeLimit
  <1>4. CASE UNCHANGED vars
    BY <1>0, <1>4 DEF vars
  <1> QED
    BY <1>0, <1>1, <1>2, <1>3, <1>4 DEF Next, AdminEdit

LEMMA AddressStep ==
  ASSUME OneSubscription, ~WithPatch, TypeOK, LockInv, AddressInv, UniqueAddress, [Next]_vars
  PROVE  AddressInv' /\ UniqueAddress'
  <1>1. ASSUME NEW c \in Call, pc'[c] \in Allocated, NEW d \in Call, dev'[d].st = "active"
        PROVE  dev'[d].ip # addr'[c]
    <2>1. ~Commit(d)
      <3>1. pc[c] \in Holding /\ ~Commit(c)
        BY <1>1, AllocatedStep DEF Allocated, Holding, Commit, Goto
      <3>2. Commit(d) => pc[d] \in Holding
        BY DEF Commit, Goto, Holding
      <3> QED
        BY <3>1, <3>2, OneHolder
    <2>2. dev[d].st = "active" /\ dev'[d].ip = dev[d].ip
      BY <1>1, <2>1, InUseKept
    <2>3. dev[d].ip \in UsedIps
      BY <2>2 DEF UsedIps
    <2> QED
      BY <1>1, <2>2, <2>3, AllocatedStep DEF AddressInv
  <1>2. ASSUME NEW c \in Call, NEW d \in Call, c # d,
               dev'[c].st = "active", dev'[d].st = "active"
        PROVE  dev'[c].ip # dev'[d].ip
    <2>1. ASSUME NEW e \in Call, NEW f \in Call, e # f, Commit(e), dev'[f].st = "active"
          PROVE  dev'[e].ip # dev'[f].ip
      <3>1. pc[e] \in Allocated /\ dev'[e].ip = addr[e] /\ dev'[f] = dev[f]
        BY <2>1 DEF Commit, Goto, Allocated, TypeOK
      <3> QED
        BY <2>1, <3>1 DEF AddressInv
    <2>2. CASE ~Commit(c) /\ ~Commit(d)
      BY <1>2, <2>2, InUseKept DEF UniqueAddress
    <2> QED
      BY <1>2, <2>1, <2>2
  <1> QED
    BY <1>1, <1>2 DEF AddressInv, UniqueAddress

\* As long as all requests are for one subscription and nothing revives a
\* device, two devices in use never have the same address.
THEOREM AddressesUnique == OneSubscription /\ ~WithPatch => (Spec => []UniqueAddress)
  <1> SUFFICES ASSUME OneSubscription, ~WithPatch PROVE Spec => []UniqueAddress
    OBVIOUS
  <1> DEFINE Inv == TypeOK /\ LockInv /\ AddressInv /\ UniqueAddress
  <1>1. Init => Inv
    BY TypeInit DEF Init, LockInv, Holding, AddressInv, Allocated, UniqueAddress
  <1>2. Inv /\ [Next]_vars => Inv'
    BY TypeStep, LockStep, AddressStep
  <1> QED
    BY <1>1, <1>2, PTL DEF Spec

-----------------------------------------------------------------------------
(* The status of the peer.                                                 *)

LEMMA SeenStep == TypeOK /\ SeenInv /\ [Next]_vars => SeenInv'
  <1> SUFFICES ASSUME TypeOK, SeenInv, [Next]_vars PROVE SeenInv'
    OBVIOUS
  <1> USE DEF TypeOK, Row, SeenInv, Goto
  <1>1. ASSUME NEW c \in Call,
               \/ Lookup(c) \/ LockSubscription(c) \/ CountDevices(c) \/ Allocate(c)
               \/ Rollback(c) \/ Store(c) \/ Lost(c)
        PROVE  SeenInv'
    BY <1>1 DEF Lookup, LockSubscription, CountDevices, Allocate, Rollback, Store, Lost
  <1>11. ASSUME NEW c \in Call, AddPeer(c) PROVE SeenInv'
    <2>1. DOMAIN node \subseteq DOMAIN node' /\ c \in DOMAIN node'
      BY <1>11, PeersAfterAdd DEF AddPeer
    <2> QED
      BY <1>11, <2>1 DEF AddPeer
  <1>2. ASSUME NEW c \in Call, Apply(c) \/ ApplyFails(c) PROVE SeenInv'
    <2>1. DOMAIN node \subseteq DOMAIN node' /\ dev' = dev
      BY <1>2, PeersAfterAdd DEF Apply, ApplyFails
    <2>2. \A d \in Call : apply'[d] = "APPLIED" => apply[d] = "APPLIED" \/ d \in DOMAIN node'
      BY <1>2, PeersAfterAdd DEF Apply, ApplyFails
    <2>3. \A d \in Call : pc'[d] # "markApplied" \/ pc[d] = "markApplied"
      BY <1>2 DEF Apply, ApplyFails
    <2> QED
      BY <2>1, <2>2, <2>3
  <1>3. ASSUME NEW c \in Call, Commit(c) PROVE SeenInv'
    BY <1>3 DEF Commit
  <1>4. ASSUME NEW c \in Call, MarkApplying(c) \/ MarkApplied(c) \/ AddPeerFails(c)
        PROVE  SeenInv'
    <2>1. DOMAIN node \subseteq DOMAIN node' /\ apply' = apply
      BY <1>4, PeersAfterAdd DEF MarkApplying, MarkApplied, AddPeerFails
    <2>2. \A d \in Call : dev'[d].apply = "APPLIED" =>
              dev[d].apply = "APPLIED" \/ pc[d] = "markApplied"
      BY <1>4 DEF MarkApplying, MarkApplied, AddPeerFails, SetApply
    <2>3. \A d \in Call : pc'[d] # "markApplied" \/ pc[d] = "markApplied"
      BY <1>4 DEF MarkApplying, MarkApplied, AddPeerFails
    <2> QED
      BY <2>1, <2>2, <2>3
  <1>5. CASE AdminEdit
    <2>1. node' = node /\ apply' = apply /\ pc' = pc
      BY <1>5 DEF AdminEdit, Revoke, Revive, ChangeLimit
    <2>2. \A d \in Call : dev'[d].apply = dev[d].apply
      <3>1. ASSUME NEW c \in Call, Revoke(c) \/ Revive(c), NEW d \in Call
            PROVE  dev'[d].apply = dev[d].apply
        BY <3>1 DEF Revoke, Revive
      <3> QED
        BY <1>5, <3>1 DEF AdminEdit, ChangeLimit
    <2> QED
      BY <2>1, <2>2
  <1>6. CASE UNCHANGED vars
    BY <1>6 DEF vars
  <1> HIDE DEF SeenInv, TypeOK
  <1> QED
    BY <1>1, <1>11, <1>2, <1>3, <1>4, <1>5, <1>6 DEF Next, Step

\* A device marked APPLIED by issuing has its peer on the node, on the path
\* inside the transaction and on the admin's path after it.
THEOREM AppliedPeersExist == Spec => []AppliedIsOnNode
  <1>1. Init => TypeOK /\ SeenInv
    BY TypeInit DEF Init, SeenInv
  <1>2. (TypeOK /\ SeenInv) /\ [Next]_vars => (TypeOK /\ SeenInv)'
    BY TypeStep, SeenStep
  <1>3. SeenInv => AppliedIsOnNode
    BY DEF SeenInv, AppliedIsOnNode
  <1> QED
    BY <1>1, <1>2, <1>3, PTL DEF Spec
=============================================================================
