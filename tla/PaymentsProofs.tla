--------------------------- MODULE PaymentsProofs ---------------------------
(***************************************************************************)
(* Bonuses are given once: the referral and the promo code are read under  *)
(* the row lock of the subscription.  A payment is credited once: its      *)
(* external id is unique, and the insert holds it until the commit.        *)
(***************************************************************************)
EXTENDS Payments, TLAPS

\* All payments are for one subscription.
OneSubscription == \A p, q \in Payment : SubOf[p] = SubOf[q]

\* From the extension to its end a call holds the subscription.
Extending == {"referral", "promo", "commit"}
LockInv ==
    \A c \in Call : pc[c] \in Extending /\ Kind[c] # "pending" => subLock[ASub(c)] = c

\* A delivery that says "pending" goes from the insert to the commit, and a
\* confirmation inserts nothing.
PendingInv ==
    \A c \in Call :
        /\ Kind[c] = "pending" => pc[c] \in {"start", "insert", "commit", "done"}
        /\ Kind[c] = "confirm" => pc[c] # "insert"

\* A call decides on the reward in Reward and on the promo code in Promo, and
\* what it decided is still so when it commits.
RewardInv ==
    /\ rewards <= 1
    /\ \A c \in Call :
          /\ pc[c] \notin {"promo", "commit", "done"} \/ Kind[c] = "pending" => ~gives[c]
          /\ pc[c] \in {"promo", "commit"} /\ gives[c] => rewards = 0

PromoInv ==
    /\ promos <= 1
    /\ \A c \in Call :
          /\ pc[c] \notin {"commit", "done"} \/ Kind[c] = "pending" => ~redeems[c]
          /\ pc[c] = "commit" /\ redeems[c] => promos = 0

LEMMA TypeInit == Init => TypeOK
  BY PaymentsAssumption DEF Init, TypeOK, SubState, NotActive, ActiveSub

LEMMA ExtendedType == \A s \in SubState : Extended(s) \in SubState
  BY DEF Extended, SubState

LEMMA TypeStep == TypeOK /\ [Next]_vars => TypeOK'
  <1> SUFFICES ASSUME TypeOK, [Next]_vars PROVE TypeOK'
    OBVIOUS
  <1> USE PaymentsAssumption DEF TypeOK, Goto, ReadOnlyStep, Nobody, ASub
  <1>1. ASSUME NEW c \in Call,
               ReadPayment(c) \/ FindPayment(c) \/ InsertConflict(c) \/ Reward(c)
        PROVE  TypeOK'
    BY <1>1 DEF ReadPayment, FindPayment, InsertConflict, Reward
  <1>2. ASSUME NEW c \in Call, LoadSubscription(c) \/ ReadSubscription(c) PROVE TypeOK'
    <2>1. sub[SubOf[PayOf[c]]] \in SubState
      OBVIOUS
    <2> QED
      BY <1>2, <2>1 DEF LoadSubscription, ReadSubscription
  <1>3. ASSUME NEW c \in Call, MarkPaid(c) \/ InsertPayment(c) PROVE TypeOK'
    BY <1>3 DEF MarkPaid, InsertPayment
  <1>4. ASSUME NEW c \in Call, Extend(c) PROVE TypeOK'
    <2>1. Extended(new[c]) \in SubState
      BY ExtendedType
    <2>2. new' \in [Call -> SubState]
      BY <1>4, <2>1 DEF Extend
    <2> QED
      BY <1>4, <2>2 DEF Extend
  <1>5. ASSUME NEW c \in Call, Promo(c) PROVE TypeOK'
    <2>0. /\ new[c] \in SubState
          /\ [new[c] EXCEPT !.until = IF redeems'[c] THEN @ + 1 ELSE @] \in SubState
      BY DEF SubState
    <2>1. new' \in [Call -> SubState]
      BY <1>5, <2>0 DEF Promo
    <2> QED
      BY <1>5, <2>1 DEF Promo
  <1>6. ASSUME NEW c \in Call, Commit(c) PROVE TypeOK'
    <2>1. rewards' \in Nat /\ promos' \in Nat
      BY <1>6 DEF Commit, One
    <2>2. owed' \in [Sub -> Nat]
      BY <1>6 DEF Commit, One
    <2>3. sub' \in [Sub -> SubState]
      BY <1>6 DEF Commit
    <2>4. pay' \in [Payment -> {"none", "pending", "completed"}]
      BY <1>6 DEF Commit
    <2> QED
      BY <1>6, <2>1, <2>2, <2>3, <2>4 DEF Commit, Unlock
  <1>7. ASSUME NEW c \in Call, Rollback(c) PROVE TypeOK'
    BY <1>7 DEF Rollback, Unlock
  <1>8. ASSUME NEW p \in Payment, CreateInvoice(p) PROVE TypeOK'
    BY <1>8 DEF CreateInvoice
  <1>9. CASE UNCHANGED vars
    BY <1>9 DEF vars
  <1> HIDE DEF TypeOK
  <1> QED
    BY <1>1, <1>2, <1>3, <1>4, <1>5, <1>6, <1>7, <1>8, <1>9 DEF Next, Step

\* Every variable keeps its type.
THEOREM PaymentsTyped == Spec => []TypeOK
  BY TypeInit, TypeStep, PTL DEF Spec

-----------------------------------------------------------------------------
LEMMA LockStep == TypeOK /\ PendingInv /\ LockInv /\ [Next]_vars => PendingInv' /\ LockInv'
  <1> SUFFICES ASSUME TypeOK, PendingInv, LockInv, [Next]_vars PROVE PendingInv' /\ LockInv'
    OBVIOUS
  <1> USE PaymentsAssumption DEF TypeOK, PendingInv, LockInv, Extending, Goto, ReadOnlyStep,
                                 Nobody, ASub
  <1>1. ASSUME NEW c \in Call,
               \/ ReadPayment(c) \/ FindPayment(c) \/ InsertConflict(c)
               \/ LoadSubscription(c) \/ ReadSubscription(c) \/ MarkPaid(c)
        PROVE  PendingInv' /\ LockInv'
    BY <1>1 DEF ReadPayment, FindPayment, InsertConflict, LoadSubscription, ReadSubscription,
                MarkPaid
  <1>2. ASSUME NEW c \in Call, InsertPayment(c) \/ Reward(c) \/ Promo(c)
        PROVE  PendingInv' /\ LockInv'
    BY <1>2 DEF InsertPayment, Reward, Promo
  <1>3. ASSUME NEW c \in Call, Extend(c) PROVE PendingInv' /\ LockInv'
    <2>1. PendingInv'
      BY <1>3 DEF Extend
    <2>2. \A d \in Call \ {c} : pc'[d] \in Extending /\ Kind[d] # "pending"
                                    => SubOf[PayOf[d]] # SubOf[PayOf[c]]
      BY <1>3 DEF Extend, Call
    <2>3. LockInv'
      BY <1>3, <2>2 DEF Extend
    <2> QED
      BY <2>1, <2>3
  <1>4. ASSUME NEW c \in Call, Commit(c) \/ Rollback(c) PROVE PendingInv' /\ LockInv'
    <2>1. Unlock(c) /\ pc'[c] = "done" /\ \A d \in Call \ {c} : pc'[d] = pc[d]
      BY <1>4 DEF Commit, Rollback
    <2> QED
      BY <2>1 DEF Unlock
  <1>5. CASE UNCHANGED vars \/ \E p \in Payment : CreateInvoice(p)
    BY <1>5 DEF vars, CreateInvoice
  <1> HIDE DEF TypeOK, PendingInv, LockInv
  <1> QED
    BY <1>1, <1>2, <1>3, <1>4, <1>5 DEF Next, Step

\* Two calls are not both past the extension.
LEMMA OneExtends ==
  ASSUME OneSubscription, TypeOK, LockInv, NEW c \in Call, NEW d \in Call,
         pc[c] \in Extending, Kind[c] # "pending", pc[d] \in Extending, Kind[d] # "pending"
  PROVE  c = d
  BY PaymentsAssumption DEF OneSubscription, LockInv, ASub

LEMMA RewardStep ==
  OneSubscription /\ TypeOK /\ LockInv /\ PendingInv /\ RewardInv /\ [Next]_vars => RewardInv'
  <1> SUFFICES ASSUME OneSubscription, TypeOK, LockInv, PendingInv, RewardInv, [Next]_vars
               PROVE  RewardInv'
    OBVIOUS
  <1> USE DEF TypeOK, RewardInv, Goto, ReadOnlyStep
  <1>1. ASSUME NEW c \in Call,
               \/ ReadPayment(c) \/ FindPayment(c) \/ InsertConflict(c)
               \/ LoadSubscription(c) \/ ReadSubscription(c) \/ MarkPaid(c)
               \/ InsertPayment(c) \/ Extend(c) \/ Promo(c) \/ Rollback(c)
        PROVE  RewardInv'
    BY <1>1 DEF ReadPayment, FindPayment, InsertConflict, LoadSubscription, ReadSubscription,
                MarkPaid, InsertPayment, Extend, Promo, Rollback, PendingInv
  <1>2. ASSUME NEW c \in Call, Reward(c) PROVE RewardInv'
    BY <1>2 DEF Reward, PendingInv
  <1>3. ASSUME NEW c \in Call, Commit(c) PROVE RewardInv'
    <2>1. CASE ~gives[c]
      BY <1>3, <2>1 DEF Commit, One
    <2>2. CASE gives[c]
      <3>1. rewards = 0 /\ rewards' = 1 /\ Kind[c] # "pending"
        BY <1>3, <2>2 DEF Commit, One
      <3>2. \A d \in Call \ {c} : pc[d] \in {"promo", "commit"} => ~gives[d]
        BY <1>3, <3>1, OneExtends DEF Commit, Extending
      <3> QED
        BY <1>3, <3>1, <3>2 DEF Commit
    <2> QED
      BY <2>1, <2>2
  <1>4. CASE UNCHANGED vars \/ \E p \in Payment : CreateInvoice(p)
    BY <1>4 DEF vars, CreateInvoice
  <1> HIDE DEF TypeOK, RewardInv
  <1> QED
    BY <1>1, <1>2, <1>3, <1>4 DEF Next, Step

LEMMA PromoStep ==
  OneSubscription /\ TypeOK /\ LockInv /\ PendingInv /\ PromoInv /\ [Next]_vars => PromoInv'
  <1> SUFFICES ASSUME OneSubscription, TypeOK, LockInv, PendingInv, PromoInv, [Next]_vars
               PROVE  PromoInv'
    OBVIOUS
  <1> USE DEF TypeOK, PromoInv, Goto, ReadOnlyStep
  <1>1. ASSUME NEW c \in Call,
               \/ ReadPayment(c) \/ FindPayment(c) \/ InsertConflict(c)
               \/ LoadSubscription(c) \/ ReadSubscription(c) \/ MarkPaid(c)
               \/ InsertPayment(c) \/ Extend(c) \/ Reward(c) \/ Rollback(c)
        PROVE  PromoInv'
    BY <1>1 DEF ReadPayment, FindPayment, InsertConflict, LoadSubscription, ReadSubscription,
                MarkPaid, InsertPayment, Extend, Reward, Rollback, PendingInv
  <1>2. ASSUME NEW c \in Call, Promo(c) PROVE PromoInv'
    BY <1>2 DEF Promo, PendingInv
  <1>3. ASSUME NEW c \in Call, Commit(c) PROVE PromoInv'
    <2>1. CASE ~redeems[c]
      BY <1>3, <2>1 DEF Commit, One
    <2>2. CASE redeems[c]
      <3>1. promos = 0 /\ promos' = 1 /\ Kind[c] # "pending"
        BY <1>3, <2>2 DEF Commit, One
      <3>2. \A d \in Call \ {c} : pc[d] = "commit" => ~redeems[d]
        BY <1>3, <3>1, OneExtends DEF Commit, Extending
      <3> QED
        BY <1>3, <3>1, <3>2 DEF Commit
    <2> QED
      BY <2>1, <2>2
  <1>4. CASE UNCHANGED vars \/ \E p \in Payment : CreateInvoice(p)
    BY <1>4 DEF vars, CreateInvoice
  <1> HIDE DEF TypeOK, PromoInv
  <1> QED
    BY <1>1, <1>2, <1>3, <1>4 DEF Next, Step

\* With one subscription, no overlap of webhooks and confirmations pays the
\* referral reward twice or redeems the promo code twice.
THEOREM BonusesOnce == OneSubscription => (Spec => []BonusOnce)
  <1> SUFFICES ASSUME OneSubscription PROVE Spec => []BonusOnce
    OBVIOUS
  <1> DEFINE Inv == TypeOK /\ LockInv /\ PendingInv /\ RewardInv /\ PromoInv
  <1>1. Init => Inv
    BY TypeInit DEF Init, LockInv, PendingInv, RewardInv, PromoInv, Extending
  <1>2. Inv /\ [Next]_vars => Inv'
    BY TypeStep, LockStep, RewardStep, PromoStep
  <1>3. Inv => BonusOnce
    BY DEF RewardInv, PromoInv, BonusOnce, RewardedOnce, RedeemedOnce
  <1> QED
    BY <1>1, <1>2, <1>3, PTL DEF Spec

-----------------------------------------------------------------------------
(* The credit.                                                             *)

\* An invoice is confirmed by one call only, and the webhook does not name it.
ConfirmedOnce == \A c, d \in Call : Kind[c] = "confirm" /\ PayOf[c] = PayOf[d] => c = d

\* A webhook holds the external id it has inserted; a confirmation inserts none.
Inserted == {"read", "extend", "referral", "promo", "commit"}
IdInv ==
    \A c \in Call : Kind[c] # "confirm" =>
        /\ pc[c] \in Inserted => payLock[PayOf[c]] = c
        /\ pc[c] \notin {"load", "markPaid"}

\* The payment of a call that is still to commit is not completed yet.
OpenInv ==
    \A c \in Call : pc[c] \in Inserted \cup {"load", "markPaid"} => pay[PayOf[c]] # "completed"

\* What a call is about to write is what the user is owed and what the call adds.
Adds(c) ==
    CASE pc[c] \in {"markPaid", "extend"} -> 0
      [] pc[c] \in {"referral", "promo"} -> 1
      [] OTHER -> 1 + One(redeems[c])
Written == {"markPaid", "extend", "referral", "promo", "commit"}
WriteInv ==
    \A c \in Call : pc[c] \in Written /\ Kind[c] # "pending" =>
        new[c].until <= owed[ASub(c)] + Adds(c)

\* Only its own commit completes a payment while a call is at work on it.
LEMMA OthersLeavePayment ==
  ASSUME ConfirmedOnce, TypeOK, IdInv, NEW c \in Call, NEW d \in Call, c # d, Commit(d),
         pc[c] \in Inserted \cup {"load", "markPaid"}
  PROVE  PayOf[c] # PayOf[d]
  <1> SUFFICES ASSUME PayOf[c] = PayOf[d] PROVE FALSE
    OBVIOUS
  <1>1. Kind[c] # "confirm" /\ Kind[d] # "confirm"
    BY DEF ConfirmedOnce
  <1>2. pc[c] \in Inserted /\ pc[d] \in Inserted
    BY <1>1 DEF IdInv, Commit, Goto, Inserted
  <1> QED
    BY <1>1, <1>2 DEF IdInv

LEMMA OpenStep ==
  ASSUME ConfirmedOnce, TypeOK, IdInv, OpenInv, PendingInv, [Next]_vars
  PROVE  IdInv' /\ OpenInv'
  <1> USE PaymentsAssumption DEF TypeOK, IdInv, OpenInv, Inserted, Goto, ReadOnlyStep, Nobody
  <1>1. ASSUME NEW c \in Call,
               \/ ReadPayment(c) \/ FindPayment(c) \/ InsertConflict(c) \/ Reward(c) \/ Promo(c)
               \/ LoadSubscription(c) \/ ReadSubscription(c) \/ Extend(c)
        PROVE  IdInv' /\ OpenInv'
    BY <1>1 DEF ReadPayment, FindPayment, InsertConflict, Reward, Promo, LoadSubscription,
                ReadSubscription, Extend
  <1>2. ASSUME NEW c \in Call, MarkPaid(c) \/ InsertPayment(c) PROVE IdInv' /\ OpenInv'
    <2>1. /\ payLock[PayOf[c]] = Nobody /\ payLock' = [payLock EXCEPT ![PayOf[c]] = c]
          /\ pay' = pay /\ \A d \in Call \ {c} : pc'[d] = pc[d]
      BY <1>2 DEF MarkPaid, InsertPayment
    <2>2. \A d \in Call \ {c} : Kind[d] # "confirm" /\ pc'[d] \in Inserted => payLock'[PayOf[d]] = d
      BY <2>1 DEF Call
    <2> QED
      BY <1>2, <2>1, <2>2 DEF MarkPaid, InsertPayment, PendingInv
  <1>3. ASSUME NEW c \in Call, Rollback(c) PROVE IdInv' /\ OpenInv'
    BY <1>3 DEF Rollback, Unlock
  <1>4. ASSUME NEW c \in Call, Commit(c) PROVE IdInv' /\ OpenInv'
    <2>1. \A d \in Call \ {c} : pc[d] \in Inserted \cup {"load", "markPaid"} => PayOf[d] # PayOf[c]
      BY <1>4, OthersLeavePayment
    <2>2. OpenInv'
      BY <1>4, <2>1 DEF Commit
    <2>3. IdInv'
      BY <1>4 DEF Commit, Unlock
    <2> QED
      BY <2>2, <2>3
  <1>5. ASSUME NEW p \in Payment, CreateInvoice(p) PROVE IdInv' /\ OpenInv'
    BY <1>5 DEF CreateInvoice
  <1>6. CASE UNCHANGED vars
    BY <1>6 DEF vars
  <1> HIDE DEF TypeOK, IdInv, OpenInv
  <1> QED
    BY <1>1, <1>2, <1>3, <1>4, <1>5, <1>6 DEF Next, Step

\* What the user is owed never shrinks, and grows by what a commit writes.
LEMMA OwedStep ==
  ASSUME TypeOK, NEW c \in Call, Commit(c)
  PROVE  /\ \A s \in Sub : owed'[s] >= owed[s]
         /\ Kind[c] # "pending" /\ pay[PayOf[c]] # "completed"
                => owed'[ASub(c)] = owed[ASub(c)] + 1 + One(redeems[c])
  <1> USE PaymentsAssumption DEF TypeOK, ASub, One
  <1>1. owed' = [owed EXCEPT ![ASub(c)] =
           @ + One(pay'[PayOf[c]] = "completed" /\ pay[PayOf[c]] # "completed") + One(redeems[c])]
    BY DEF Commit
  <1>2. Kind[c] # "pending" => pay'[PayOf[c]] = "completed"
    BY DEF Commit
  <1>3. ASub(c) \in Sub
    OBVIOUS
  <1>4. \A s \in Sub : owed[s] \in Nat
    OBVIOUS
  <1> QED
    BY <1>1, <1>2, <1>3, <1>4

LEMMA ExtendedAddsOne ==
  \A s \in SubState, n \in Nat : s.until <= n => Extended(s).until <= n + 1
  BY DEF SubState, Extended

\* A call reads what the subscription has, adds its own payment and its promo code.
LEMMA WriteStep ==
  ASSUME TypeOK, PendingInv, CreditedOnce, WriteInv, [Next]_vars
  PROVE  WriteInv'
  <1> USE PaymentsAssumption DEF TypeOK, Goto, ReadOnlyStep, ASub
  <1>0. \A c \in Call : ASub(c) \in Sub /\ owed[ASub(c)] \in Nat /\ new[c].until \in Nat
    BY DEF SubState
  <1>1. ASSUME NEW c \in Call, NEW d \in Call \ {c}, Step(c)
        PROVE  pc'[d] = pc[d] /\ new'[d] = new[d] /\ redeems'[d] = redeems[d]
    BY <1>1 DEF Step, ReadPayment, LoadSubscription, MarkPaid, FindPayment, InsertPayment,
                InsertConflict, ReadSubscription, Extend, Reward, Promo, Commit, Rollback
  <1>2. ASSUME NEW c \in Call, Step(c), NEW s \in Sub PROVE owed'[s] >= owed[s] /\ owed'[s] \in Nat
    <2>1. CASE Commit(c)
      BY <2>1, OwedStep, TypeStep DEF Next, Step
    <2>2. CASE ~Commit(c)
      BY <1>2, <2>2 DEF Step, ReadPayment, LoadSubscription, MarkPaid, FindPayment, InsertPayment,
                InsertConflict, ReadSubscription, Extend, Reward, Promo, Rollback
    <2> QED
      BY <2>1, <2>2
  <1>3. ASSUME NEW c \in Call, Step(c), pc'[c] \in Written, Kind[c] # "pending"
        PROVE  new'[c].until <= owed'[ASub(c)] + Adds(c)'
    <2>1. CASE LoadSubscription(c) \/ ReadSubscription(c)
      BY <2>1 DEF LoadSubscription, ReadSubscription, CreditedOnce, Adds
    <2>2. CASE MarkPaid(c)
      <3>1. pc[c] = "markPaid" /\ pc'[c] = "extend" /\ new' = new /\ owed' = owed
        BY <2>2 DEF MarkPaid
      <3>2. Adds(c) = 0 /\ Adds(c)' = 0
        BY <3>1 DEF Adds
      <3> QED
        BY <1>3, <3>1, <3>2 DEF WriteInv, Written
    <2>3. CASE Extend(c)
      <3>1. new[c].until <= owed[ASub(c)]
        BY <2>3, <1>0, <1>3 DEF Extend, WriteInv, Written, Adds
      <3>2. new'[c] = Extended(new[c]) /\ new[c] \in SubState
        BY <2>3 DEF Extend
      <3>3. Adds(c)' = 1 /\ owed' = owed
        BY <2>3 DEF Extend, Adds
      <3> QED
        BY <1>0, <3>1, <3>2, <3>3, ExtendedAddsOne
    <2>4. CASE Reward(c)
      BY <2>4, <1>3 DEF Reward, WriteInv, Written, Adds
    <2>5. CASE Promo(c)
      <3>1. new[c].until <= owed[ASub(c)] + 1
        BY <2>5, <1>3 DEF Promo, WriteInv, Written, Adds
      <3>2. new'[c].until = new[c].until + One(redeems'[c])
        <4>1. new[c] \in SubState /\ new' = [new EXCEPT ![c].until = IF redeems'[c] THEN @ + 1 ELSE @]
          BY <2>5 DEF Promo
        <4> QED
          BY <4>1, <1>0 DEF One, SubState
      <3>3. Adds(c)' = 1 + One(redeems'[c]) /\ owed' = owed
        BY <2>5 DEF Promo, Adds
      <3>4. One(redeems'[c]) \in Nat
        BY DEF One
      <3> QED
        BY <1>0, <3>1, <3>2, <3>3, <3>4
    <2> QED
      BY <1>3, <2>1, <2>2, <2>3, <2>4, <2>5
         DEF Step, ReadPayment, FindPayment, InsertPayment, InsertConflict, Commit, Rollback, Written,
             PendingInv
  <1>4. ASSUME NEW c \in Call, Step(c), NEW d \in Call, pc'[d] \in Written, Kind[d] # "pending"
        PROVE  new'[d].until <= owed'[ASub(d)] + Adds(d)'
    <2>1. CASE d = c
      BY <1>3, <1>4, <2>1
    <2>2. CASE d # c
      <3>1. Adds(d)' = Adds(d) /\ new[d].until <= owed[ASub(d)] + Adds(d) /\ Adds(d) \in Nat
        BY <1>1, <1>4, <2>2 DEF Adds, WriteInv, One
      <3> QED
        BY <1>0, <1>1, <1>2, <1>4, <2>2, <3>1
    <2> QED
      BY <2>1, <2>2
  <1>5. CASE UNCHANGED vars \/ \E p \in Payment : CreateInvoice(p)
    BY <1>5 DEF vars, CreateInvoice, WriteInv, Adds
  <1> QED
    BY <1>4, <1>5 DEF Next, WriteInv

\* A commit writes no more than what the user is then owed.
LEMMA CreditStep ==
  ASSUME TypeOK, OpenInv, CreditedOnce, WriteInv, [Next]_vars
  PROVE  CreditedOnce'
  <1> USE PaymentsAssumption DEF TypeOK
  <1>1. ASSUME NEW c \in Call, Commit(c) PROVE CreditedOnce'
    <2>1. \A s \in Sub : /\ owed'[s] >= owed[s] /\ owed'[s] \in Nat /\ owed[s] \in Nat
                         /\ sub[s].until \in Nat /\ sub[s].until <= owed[s]
      BY <1>1, OwedStep, TypeStep DEF Next, Step, SubState, CreditedOnce
    <2>2. \A s \in Sub : s # ASub(c) \/ Kind[c] = "pending" => sub'[s] = sub[s]
      BY <1>1 DEF Commit, ASub
    <2>3. ASSUME Kind[c] # "pending" PROVE sub'[ASub(c)].until <= owed'[ASub(c)]
      <3>1. pc[c] = "commit" /\ ASub(c) \in Sub /\ sub'[ASub(c)] = new[c]
        BY <1>1, <2>3 DEF Commit, Goto, ASub
      <3>2. new[c].until <= owed[ASub(c)] + (1 + One(redeems[c]))
        BY <2>3, <3>1 DEF WriteInv, Written, Adds
      <3>3. owed'[ASub(c)] = owed[ASub(c)] + 1 + One(redeems[c])
        BY <1>1, <2>3, <3>1, OwedStep DEF OpenInv, Inserted
      <3>4. One(redeems[c]) \in Nat /\ new[c].until \in Nat
        BY DEF One, SubState
      <3> QED
        BY <2>1, <3>1, <3>2, <3>3, <3>4
    <2> QED
      BY <2>1, <2>2, <2>3 DEF CreditedOnce
  <1>2. ASSUME NEW c \in Call, Step(c), ~Commit(c) PROVE sub' = sub /\ owed' = owed
    BY <1>2 DEF Step, ReadPayment, LoadSubscription, MarkPaid, FindPayment, InsertPayment,
                InsertConflict, ReadSubscription, Extend, Reward, Promo, Rollback, ReadOnlyStep
  <1>3. CASE UNCHANGED vars \/ \E p \in Payment : CreateInvoice(p)
    BY <1>3 DEF vars, CreateInvoice, CreditedOnce
  <1> QED
    BY <1>1, <1>2, <1>3 DEF Next, CreditedOnce

\* As long as no invoice is confirmed by two calls, no overlap, repetition or failure
\* of deliveries and confirmations credits a payment twice, for any number of
\* payments and subscriptions.
THEOREM PaymentsCreditedOnce == ConfirmedOnce => (Spec => []CreditedOnce)
  <1> SUFFICES ASSUME ConfirmedOnce PROVE Spec => []CreditedOnce
    OBVIOUS
  <1> DEFINE Inv == /\ TypeOK /\ LockInv /\ PendingInv
                    /\ IdInv /\ OpenInv /\ WriteInv /\ CreditedOnce
  <1>1. Init => Inv
    <2>1. Init => WriteInv /\ IdInv /\ OpenInv /\ PendingInv /\ LockInv
      BY DEF Init, WriteInv, Written, IdInv, OpenInv, Inserted, PendingInv, LockInv, Extending
    <2>2. Init => CreditedOnce
      BY PaymentsAssumption DEF Init, CreditedOnce, NotActive, ActiveSub
    <2> QED
      BY <2>1, <2>2, TypeInit
  <1>2. Inv /\ [Next]_vars => Inv'
    BY TypeStep, LockStep, OpenStep, WriteStep, CreditStep
  <1> QED
    BY <1>1, <1>2, PTL DEF Spec
=============================================================================
