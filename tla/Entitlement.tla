---------------------------- MODULE Entitlement -----------------------------
(***************************************************************************)
(* What issuing promises a subscription, without requests, locks or nodes: *)
(* a device is given out in one step, and only while the subscription has  *)
(* room under the limit of that very moment.  A device is given out once.  *)
(***************************************************************************)
EXTENDS Naturals, FiniteSets

CONSTANTS Device,     \* devices that can be given out
          Sub,        \* subscriptions
          SubOf,      \* the subscription of a device
          Limits      \* device limits an admin may set

VARIABLES state,      \* "none", "active" or "revoked", per device
          limit       \* subscriptions.device_limit

InUse(s) == {d \in Device : SubOf[d] = s /\ state[d] = "active"}

EntInit ==
    /\ state = [d \in Device |-> "none"]
    /\ limit \in [Sub -> Limits]

Give(d) ==
    /\ state[d] = "none"
    /\ Cardinality(InUse(SubOf[d])) < limit[SubOf[d]]
    /\ state' = [state EXCEPT ![d] = "active"]
    /\ UNCHANGED limit

Withdraw(d) ==
    /\ state[d] = "active"
    /\ state' = [state EXCEPT ![d] = "revoked"]
    /\ UNCHANGED limit

\* The limit may go below what is in use: nothing is withdrawn then.
SetLimit(s, n) ==
    /\ limit' = [limit EXCEPT ![s] = n]
    /\ UNCHANGED state

EntNext ==
    \/ \E d \in Device : Give(d) \/ Withdraw(d)
    \/ \E s \in Sub, n \in Limits : SetLimit(s, n)

EntSpec == EntInit /\ [][EntNext]_<<state, limit>>
=============================================================================
