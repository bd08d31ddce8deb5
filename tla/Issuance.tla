------------------------------ MODULE Issuance ------------------------------
(***************************************************************************)
(* Issuing devices: concurrent requests of users, of the Mini App and of   *)
(* admins, each one database transaction (READ COMMITTED) that locks the   *)
(* subscription row, counts its devices, allocates a tunnel address and    *)
(* inserts the device, with the Redis idempotency cache around it and, in  *)
(* docker mode, the peer created on the node inside or after it.           *)
(*                                                                         *)
(* A request creates at most one device, so a device is named by its       *)
(* request.  Every await of a request is a step of its own.                *)
(***************************************************************************)
EXTENDS Naturals, FiniteSets

CONSTANTS NCalls,     \* requests, and so devices
          NSubs,      \* subscriptions
          NIps,       \* hosts of the subnet
          NKeys,      \* idempotency keys
          SubOf,      \* the subscription a request is for
          KindOf,     \* the endpoint it is sent to
          KeyOf,      \* its Idempotency-Key, or NoKey
          Docker,     \* NODE_MODE = real and NODE_DISCOVERY # agent
          Fallback,   \* ISSUE_FALLBACK_ON_PEER_FAILURE
          BlindAdds,  \* add_peer may miss a clash: its listing fails and reads as empty,
                      \*   or the other peer is set after it
          WithPatch,  \* admins revive revoked devices by PATCH
          MaxLimit,   \* bound: device limits an admin sets
          MaxEdits    \* bound: changes made by admins

Call == 1..NCalls
Sub == 1..NSubs
Ip == 1..NIps
IdemKey == 1..NKeys
Nobody == 0
NoIp == 0
NoKey == 0

ASSUME IssuanceAssumption ==
    /\ NCalls \in Nat /\ NSubs \in Nat /\ NIps \in Nat /\ NKeys \in Nat
    /\ SubOf \in [Call -> Sub]
    /\ KindOf \in [Call -> {"user", "webapp", "admin"}]
    /\ KeyOf \in [Call -> IdemKey \cup {NoKey}]
    /\ Docker \in BOOLEAN /\ Fallback \in BOOLEAN
    /\ BlindAdds \in BOOLEAN /\ WithPatch \in BOOLEAN
    /\ MaxLimit \in Nat /\ MaxEdits \in Nat

VARIABLES
    dev,      \* committed devices
    limit,    \* subscriptions.device_limit
    lock,     \* the request that holds the subscription's row lock
    pc,       \* where a request is
    seen,     \* the device_limit in the request's session
    addr,     \* the address it allocated
    apply,    \* the apply_status it is about to commit
    cache,    \* Redis: idempotency key -> device
    node,     \* peers of the node: device -> allowed address
    edits

vars == <<dev, limit, lock, pc, seen, addr, apply, cache, node, edits>>

\* What the node lists as the allowed-ips of a peer: an address, "(none)" when another
\* peer took it over, or 0.0.0.0/0.
Wide == NIps + 1
Listed == Ip \cup {NoIp, Wide}
\* A partial function from devices to what is listed: the peers of the node.
Peers == UNION {[D -> Listed] : D \in SUBSET Call}
Empty == [c \in {} |-> NoIp]

ApplyStatus == {"PENDING_APPLY", "CREATED", "APPLYING", "APPLIED", "ERROR"}
Row == [st : {"none", "active", "revoked"}, ip : Ip \cup {NoIp}, apply : ApplyStatus]

Active(s) == {c \in Call : SubOf[c] = s /\ dev[c].st = "active"}

Init ==
    /\ dev = [c \in Call |-> [st |-> "none", ip |-> NoIp, apply |-> "PENDING_APPLY"]]
    /\ limit \in [Sub -> 1..MaxLimit]
    /\ lock = [s \in Sub |-> Nobody]
    /\ pc = [c \in Call |-> "start"]
    /\ seen = [c \in Call |-> 0]
    /\ addr = [c \in Call |-> NoIp]
    /\ apply = [c \in Call |-> "PENDING_APPLY"]
    /\ cache = [k \in IdemKey |-> Nobody]
    /\ node = Empty
    /\ edits = 0

-----------------------------------------------------------------------------
(* One request.                                                            *)

Goto(c, from, to) == pc[c] = from /\ pc' = [pc EXCEPT ![c] = to]

Unlock(c) == lock' = [s \in Sub |-> IF lock[s] = c THEN Nobody ELSE lock[s]]

\* The idempotency cache, and in the Mini App the subscription the user has.  A
\* cached device is returned; Redis errors count as a miss.
Lookup(c) ==
    /\ \/ Goto(c, "start", "lock")
       \/ Goto(c, "start", "done") /\ KeyOf[c] # NoKey /\ cache[KeyOf[c]] # Nobody
    /\ seen' = [seen EXCEPT ![c] = IF KindOf[c] = "webapp" THEN limit[SubOf[c]] ELSE @]
    /\ UNCHANGED <<dev, limit, lock, addr, apply, cache, node, edits>>

\* SELECT ... FOR UPDATE.  A session that has the row already, as in the Mini
\* App, keeps the attributes it has.
LockSubscription(c) ==
    /\ Goto(c, "lock", "count")
    /\ lock[SubOf[c]] = Nobody
    /\ lock' = [lock EXCEPT ![SubOf[c]] = c]
    /\ seen' = [seen EXCEPT ![c] = IF KindOf[c] = "webapp" THEN @ ELSE limit[SubOf[c]]]
    /\ UNCHANGED <<dev, limit, addr, apply, cache, node, edits>>

CountDevices(c) ==
    /\ Goto(c, "count", "allocate")
    /\ Cardinality(Active(SubOf[c])) < seen[c]
    /\ UNCHANGED <<dev, limit, lock, seen, addr, apply, cache, node, edits>>

\* Mutant: addresses of devices that are not applied yet count as free.
UsedIpsApplied == {dev[c].ip : c \in {d \in Call : dev[d].st = "active"
                                                /\ dev[d].apply = "APPLIED"}}

UsedIps == {dev[c].ip : c \in {d \in Call : dev[d].st = "active"}}

\* The first free host of the subnet, over the devices of all servers.
NextAddress(ip) == ip \notin UsedIps /\ \A j \in 1..(ip - 1) : j \in UsedIps

\* The peer is created inside the transaction, except for admins.
InTransaction(c) == Docker /\ KindOf[c] # "admin"

Allocate(c) ==
    /\ Goto(c, "allocate", IF InTransaction(c) THEN "apply" ELSE "commit")
    /\ \E ip \in Ip : NextAddress(ip) /\ addr' = [addr EXCEPT ![c] = ip]
    /\ apply' = [apply EXCEPT ![c] = IF Docker THEN "CREATED" ELSE "PENDING_APPLY"]
    /\ UNCHANGED <<dev, limit, lock, seen, cache, node, edits>>

\* wg set: the address moves here from any other peer.
WgSet(c) ==
    [d \in DOMAIN node \cup {c} |->
        IF d = c THEN addr[c] ELSE IF node[d] = addr[c] THEN NoIp ELSE node[d]]

\* add_peer of the runtime adapter refuses an address that it sees at another
\* peer of the node; it may also fail, with the peer set or not.
Clash(c) == \E d \in DOMAIN node \ {c} : node[d] = addr[c]
CanAdd(c) == BlindAdds \/ ~Clash(c)
MayAdd(c) == node' = node \/ (CanAdd(c) /\ node' = WgSet(c))

\* add_peer and the check that it is there.
Apply(c) ==
    /\ Goto(c, "apply", "commit")
    /\ \/ CanAdd(c) /\ node' = WgSet(c) /\ apply' = [apply EXCEPT ![c] = "APPLIED"]
       \/ /\ Fallback
          /\ MayAdd(c)
          /\ apply' = [apply EXCEPT ![c] = "PENDING_APPLY"]
    /\ UNCHANGED <<dev, limit, lock, seen, addr, cache, edits>>

\* The peer could not be created, or was and the answer is lost: roll back.
ApplyFails(c) ==
    /\ Goto(c, "apply", "done")
    /\ ~Fallback
    /\ MayAdd(c)
    /\ Unlock(c)
    /\ UNCHANGED <<dev, limit, seen, addr, apply, cache, edits>>

Commit(c) ==
    /\ Goto(c, "commit", IF Docker /\ KindOf[c] = "admin" THEN "phaseB" ELSE "store")
    /\ dev' = [dev EXCEPT ![c] = [st |-> "active", ip |-> addr[c], apply |-> apply[c]]]
    /\ Unlock(c)
    /\ UNCHANGED <<limit, seen, addr, apply, cache, node, edits>>

MayRollback(c) ==
    \/ pc[c] \in {"count", "allocate", "apply", "commit"}
    \/ pc[c] = "lock" /\ lock[SubOf[c]] = Nobody

\* Mutant: an early error leaves the transaction open.
RollbackForgotten(c) ==
    /\ MayRollback(c)
    /\ pc' = [pc EXCEPT ![c] = "done"]
    /\ UNCHANGED <<dev, limit, lock, seen, addr, apply, cache, node, edits>>

\* The end of a transaction that does not commit: the subscription is not valid,
\* the limit is reached, no address is free, any other check that fails, an
\* error or the death of the process.
Rollback(c) ==
    /\ MayRollback(c)
    /\ pc' = [pc EXCEPT ![c] = "done"]
    /\ Unlock(c)
    /\ UNCHANGED <<dev, limit, seen, addr, apply, cache, node, edits>>

\* The status is committed by itself.
\* Phase B of admin_issue_peer.
SetApply(c, status) == dev' = [dev EXCEPT ![c].apply = status]

MarkApplying(c) ==
    /\ Goto(c, "phaseB", "addPeer")
    /\ SetApply(c, "APPLYING")
    /\ UNCHANGED <<limit, lock, seen, addr, apply, cache, node, edits>>

\* _ensure_device_peer_on_node: a peer that is listed is left as it is.
AddPeer(c) ==
    /\ Goto(c, "addPeer", "markApplied")
    /\ MayAdd(c)
    /\ c \in DOMAIN node'
    /\ UNCHANGED <<dev, limit, lock, seen, addr, apply, cache, edits>>

MarkApplied(c) ==
    /\ Goto(c, "markApplied", "store")
    /\ SetApply(c, "APPLIED")
    /\ UNCHANGED <<limit, lock, seen, addr, apply, cache, node, edits>>

AddPeerFails(c) ==
    /\ Goto(c, "addPeer", "done")
    /\ MayAdd(c)
    /\ SetApply(c, "ERROR")
    /\ UNCHANGED <<limit, lock, seen, addr, apply, cache, edits>>

\* setex of the idempotency key; an error of Redis is swallowed.
Store(c) ==
    /\ Goto(c, "store", "done")
    /\ \/ KeyOf[c] # NoKey /\ cache' = [cache EXCEPT ![KeyOf[c]] = c]
       \/ UNCHANGED cache
    /\ UNCHANGED <<dev, limit, lock, seen, addr, apply, node, edits>>

\* The process dies after the commit.
Lost(c) ==
    /\ pc[c] \in {"phaseB", "addPeer", "markApplied", "store"}
    /\ pc' = [pc EXCEPT ![c] = "done"]
    /\ UNCHANGED <<dev, limit, lock, seen, addr, apply, cache, node, edits>>

-----------------------------------------------------------------------------
(* Admins.                                                                 *)

Edit == edits < MaxEdits /\ edits' = edits + 1

\* revoke, bulk-revoke and the expiry task take no lock on the subscription.
Revoke(c) ==
    /\ Edit
    /\ dev[c].st = "active"
    /\ dev' = [dev EXCEPT ![c].st = "revoked"]
    /\ UNCHANGED <<limit, lock, pc, seen, addr, apply, cache, node>>

\* PATCH /devices/{id} with revoked_at = null: no lock, no check of the limit.
Revive(c) ==
    /\ Edit
    /\ WithPatch
    /\ dev[c].st = "revoked"
    /\ dev' = [dev EXCEPT ![c].st = "active"]
    /\ UNCHANGED <<limit, lock, pc, seen, addr, apply, cache, node>>

\* PATCH /subscriptions/{id}: the update waits for the row lock.
ChangeLimit(s, n) ==
    /\ Edit
    /\ lock[s] = Nobody
    /\ limit' = [limit EXCEPT ![s] = n]
    /\ UNCHANGED <<dev, lock, pc, seen, addr, apply, cache, node>>

-----------------------------------------------------------------------------
Step(c) ==
    \/ Lookup(c) \/ LockSubscription(c) \/ CountDevices(c) \/ Allocate(c)
    \/ Apply(c) \/ ApplyFails(c) \/ Commit(c) \/ Rollback(c)
    \/ MarkApplying(c) \/ AddPeer(c) \/ MarkApplied(c) \/ AddPeerFails(c)
    \/ Store(c) \/ Lost(c)

AdminEdit ==
    \/ \E c \in Call : Revoke(c) \/ Revive(c)
    \/ \E s \in Sub, n \in 1..MaxLimit : ChangeLimit(s, n)

Next == AdminEdit \/ \E c \in Call : Step(c)

Spec == Init /\ [][Next]_vars

\* A request that can go on does; the database gives a lock to a waiter.
FairSpec == Spec /\ \A c \in Call : WF_vars(Step(c))

-----------------------------------------------------------------------------
(* Properties.                                                             *)

\* The types of the devices, the locks and the requests; apply_status is one that the
\* readers of a device know.
TypeOK ==
    /\ dev \in [Call -> Row]
    /\ limit \in [Sub -> 1..MaxLimit]
    /\ lock \in [Sub -> Call \cup {Nobody}]
    /\ pc \in [Call -> {"start", "lock", "count", "allocate", "apply", "commit",
                        "phaseB", "addPeer", "markApplied", "store", "done"}]
    /\ seen \in [Call -> 0..MaxLimit]
    /\ addr \in [Call -> Ip \cup {NoIp}]
    /\ apply \in [Call -> ApplyStatus]
    /\ cache \in [IdemKey -> Call \cup {Nobody}]
    /\ node \in Peers
    /\ edits \in 0..MaxEdits

\* A new device never takes its subscription over the device limit of that
\* moment, however many requests run at the same time and whenever the limit is
\* changed: count, check and insert happen under the subscription's row lock.
NoOverIssue ==
    [][\A c \in Call : dev[c].st = "none" /\ dev'[c].st = "active" =>
          Cardinality(Active(SubOf[c])') <= limit[SubOf[c]]]_vars

Ent == INSTANCE Entitlement WITH
    Device <- Call, Limits <- 1..MaxLimit, state <- [c \in Call |-> dev[c].st]

\* Issuing keeps the promise of Entitlement: however its requests overlap, fail
\* or are repeated, the devices are given out as if each were counted, checked
\* and inserted in one step, and a device that was revoked stays so.
Entitled == Ent!EntSpec

\* No two devices in use have the same tunnel address: what the allocator saw
\* as free is still free when the device is inserted.
UniqueAddress ==
    \A c, d \in Call :
        c # d /\ dev[c].st = "active" /\ dev[d].st = "active" => dev[c].ip # dev[d].ip

\* A device marked APPLIED has its peer on the node: the status is written after
\* the peer was seen there, on the path inside and the path after the commit.
AppliedIsOnNode == \A c \in Call : dev[c].apply = "APPLIED" => c \in DOMAIN node

\* Every request that was begun comes to an end, and the locks are given back,
\* whatever the others do and wherever one of them fails.
RequestsEnd ==
    <>[](/\ \A c \in Call : pc[c] \in {"start", "done"}
         /\ \A s \in Sub : lock[s] = Nobody)
=============================================================================
