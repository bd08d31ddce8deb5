------------------------------ MODULE Payments ------------------------------
(***************************************************************************)
(* Crediting payments: deliveries of the provider's webhook and the bot's  *)
(* confirmations of its invoices, both of which are repeated and overlap.  *)
(* Each call is one database transaction at READ COMMITTED; every query    *)
(* and every wait for a row lock is a step of its own, and what a call     *)
(* wrote is seen by the others when it commits.                            *)
(*                                                                         *)
(* All payments are of one user.  Paid time is counted in plan durations   *)
(* from now on; time does not pass.  `owed` is an observer: what the       *)
(* completed payments and redeemed promo codes entitle the user to.        *)
(***************************************************************************)
EXTENDS Naturals

CONSTANTS NCalls,      \* calls, repeated ones counted
          NPayments,   \* payments: external ids of the webhook, or invoices
          NSubs,       \* subscriptions
          PayOf,       \* the payment a call is about
          SubOf,       \* the subscription a payment is for
          Kind,        \* "confirm", or what the webhook says of the payment
          WithPromo,   \* payments with a promo code (bonus_days)
          Remaining    \* what an active subscription has left at the start

Call == 1..NCalls
Payment == 1..NPayments
Sub == 1..NSubs
Nobody == 0

ASSUME PaymentsAssumption ==
    /\ NCalls \in Nat /\ NPayments \in Nat /\ NSubs \in Nat /\ Remaining \in Nat
    /\ PayOf \in [Call -> Payment]
    /\ SubOf \in [Payment -> Sub]
    /\ Kind \in [Call -> {"confirm", "completed", "pending"}]
    /\ WithPromo \subseteq Payment

VARIABLES
    pay,       \* payments.status
    sub,       \* status and paid time of the subscriptions
    rewards,   \* rewards paid for the user's referral
    promos,    \* promo_redemptions of the user
    payLock,   \* the call that has the payment's row or its new external id
    subLock,   \* the call that has the subscription's row
    pc,        \* where a call is
    new,       \* the subscription as the call's session has it
    gives,     \* the call pays the referral reward
    redeems,   \* the call redeems the promo code
    owed       \* observer

vars == <<pay, sub, rewards, promos, payLock, subLock, pc, new, gives, redeems, owed>>

SubState == [st : {"active", "pending"}, until : Nat]
NotActive == [st |-> "pending", until |-> 0]
ActiveSub == [st |-> "active", until |-> Remaining]

ASub(c) == SubOf[PayOf[c]]

Init ==
    /\ pay = [p \in Payment |-> "none"]
    /\ sub \in [Sub -> {NotActive, ActiveSub}]
    /\ rewards = 0 /\ promos = 0
    /\ payLock = [p \in Payment |-> Nobody]
    /\ subLock = [s \in Sub |-> Nobody]
    /\ pc = [c \in Call |-> "start"]
    /\ new = [c \in Call |-> NotActive]
    /\ gives = [c \in Call |-> FALSE]
    /\ redeems = [c \in Call |-> FALSE]
    /\ owed = [s \in Sub |-> sub[s].until]

-----------------------------------------------------------------------------
Goto(c, from, to) == pc[c] = from /\ pc' = [pc EXCEPT ![c] = to]

\* The end of a transaction gives its row locks back.
Unlock(c) ==
    /\ payLock' = [p \in Payment |-> IF payLock[p] = c THEN Nobody ELSE payLock[p]]
    /\ subLock' = [s \in Sub |-> IF subLock[s] = c THEN Nobody ELSE subLock[s]]

ReadOnlyStep == UNCHANGED <<pay, sub, rewards, promos, payLock, subLock, owed>>

\* create_invoice for a plan with a price: a pending payment whose external id is
\* made of the request's key, so that a repeated request finds the payment.
CreateInvoice(p) ==
    /\ \E c \in Call : PayOf[c] = p /\ Kind[c] = "confirm"
    /\ pay[p] = "none"
    /\ pay' = [pay EXCEPT ![p] = "pending"]
    /\ UNCHANGED <<sub, rewards, promos, payLock, subLock, pc, new, gives, redeems, owed>>

-----------------------------------------------------------------------------
(* complete_pending_payment_by_bot.                                        *)

\* Only an invoice can be confirmed; a completed one is left alone.
ReadPayment(c) ==
    /\ Kind[c] = "confirm"
    /\ pay[PayOf[c]] # "none"
    /\ Goto(c, "start", IF pay[PayOf[c]] = "pending" THEN "load" ELSE "done")
    /\ ReadOnlyStep /\ UNCHANGED <<new, gives, redeems>>

\* selectinload: the subscription is read by a query of its own, and the session
\* keeps what it read.
LoadSubscription(c) ==
    /\ Goto(c, "load", "markPaid")
    /\ new' = [new EXCEPT ![c] = sub[ASub(c)]]
    /\ ReadOnlyStep /\ UNCHANGED <<gives, redeems>>

\* UPDATE payments SET status = 'completed' waits for the row.
MarkPaid(c) ==
    /\ Goto(c, "markPaid", "extend")
    /\ payLock[PayOf[c]] = Nobody
    /\ payLock' = [payLock EXCEPT ![PayOf[c]] = c]
    /\ UNCHANGED <<pay, sub, rewards, promos, subLock, new, gives, redeems, owed>>

-----------------------------------------------------------------------------
(* process_payment_webhook.                                                *)

\* A payment that is known is not touched.
FindPayment(c) ==
    /\ Kind[c] # "confirm"
    /\ Goto(c, "start", IF pay[PayOf[c]] = "none" THEN "insert" ELSE "done")
    /\ ReadOnlyStep /\ UNCHANGED <<new, gives, redeems>>

\* Mutant: external_id is not unique.
InsertDuplicate(c) ==
    /\ Goto(c, "insert", IF Kind[c] = "completed" THEN "read" ELSE "commit")
    /\ payLock' = [payLock EXCEPT ![PayOf[c]] = c]
    /\ UNCHANGED <<pay, sub, rewards, promos, subLock, new, gives, redeems, owed>>

\* INSERT waits for another transaction that has inserted the external id.
InsertPayment(c) ==
    /\ Goto(c, "insert", IF Kind[c] = "completed" THEN "read" ELSE "commit")
    /\ payLock[PayOf[c]] = Nobody
    /\ pay[PayOf[c]] = "none"
    /\ payLock' = [payLock EXCEPT ![PayOf[c]] = c]
    /\ UNCHANGED <<pay, sub, rewards, promos, subLock, new, gives, redeems, owed>>

\* IntegrityError: roll back and answer 200.
InsertConflict(c) ==
    /\ Goto(c, "insert", "done")
    /\ pay[PayOf[c]] # "none"
    /\ ReadOnlyStep /\ UNCHANGED <<new, gives, redeems>>

\* _apply_payment_success_effects reads the subscription for the first time.
ReadSubscription(c) ==
    /\ Goto(c, "read", "extend")
    /\ new' = [new EXCEPT ![c] = sub[ASub(c)]]
    /\ ReadOnlyStep /\ UNCHANGED <<gives, redeems>>

-----------------------------------------------------------------------------
(* _apply_payment_success_effects.                                         *)

\* A subscription that is not active starts now.
Extended(s) ==
    IF s.st = "active" THEN [s EXCEPT !.until = @ + 1] ELSE [st |-> "active", until |-> 1]

\* Mutant: the subscription is flushed with the commit only.
ExtendUnlocked(c) ==
    /\ Goto(c, "extend", "referral")
    /\ new' = [new EXCEPT ![c] = Extended(@)]
    /\ ReadOnlyStep /\ UNCHANGED <<gives, redeems>>

\* UPDATE subscriptions waits for the row and writes what the session computed.
Extend(c) ==
    /\ Goto(c, "extend", "referral")
    /\ subLock[ASub(c)] = Nobody
    /\ subLock' = [subLock EXCEPT ![ASub(c)] = c]
    /\ new' = [new EXCEPT ![c] = Extended(@)]
    /\ UNCHANGED <<pay, sub, rewards, promos, payLock, gives, redeems, owed>>

\* The referral with reward_applied_at IS NULL, and its update.
Reward(c) ==
    /\ Goto(c, "referral", "promo")
    /\ gives' = [gives EXCEPT ![c] = rewards = 0]
    /\ ReadOnlyStep /\ UNCHANGED <<new, redeems>>

\* A promo code adds its days unless the user has redeemed it.
Promo(c) ==
    /\ Goto(c, "promo", "commit")
    /\ redeems' = [redeems EXCEPT ![c] = PayOf[c] \in WithPromo /\ promos = 0]
    /\ new' = [new EXCEPT ![c].until = IF redeems'[c] THEN @ + 1 ELSE @]
    /\ ReadOnlyStep /\ UNCHANGED gives

One(b) == IF b THEN 1 ELSE 0

Commit(c) ==
    /\ Goto(c, "commit", "done")
    /\ pay' = [pay EXCEPT ![PayOf[c]] = IF Kind[c] = "pending" THEN "pending" ELSE "completed"]
    /\ sub' = [sub EXCEPT ![ASub(c)] = IF Kind[c] = "pending" THEN @ ELSE new[c]]
    /\ rewards' = rewards + One(gives[c])
    /\ promos' = promos + One(redeems[c])
    /\ owed' = [owed EXCEPT ![ASub(c)] =
          @ + One(pay'[PayOf[c]] = "completed" /\ pay[PayOf[c]] # "completed") + One(redeems[c])]
    /\ Unlock(c)
    /\ UNCHANGED <<new, gives, redeems>>

\* An error or the death of the process before the commit.
Rollback(c) ==
    /\ pc[c] \notin {"start", "done"}
    /\ pc' = [pc EXCEPT ![c] = "done"]
    /\ Unlock(c)
    /\ UNCHANGED <<pay, sub, rewards, promos, new, gives, redeems, owed>>

-----------------------------------------------------------------------------
Step(c) ==
    \/ ReadPayment(c) \/ LoadSubscription(c) \/ MarkPaid(c)
    \/ FindPayment(c) \/ InsertPayment(c) \/ InsertConflict(c) \/ ReadSubscription(c)
    \/ Extend(c) \/ Reward(c) \/ Promo(c) \/ Commit(c) \/ Rollback(c)

Next == (\E p \in Payment : CreateInvoice(p)) \/ (\E c \in Call : Step(c))

Spec == Init /\ [][Next]_vars

-----------------------------------------------------------------------------
(* Properties.                                                             *)

\* The types of the payments, the subscriptions, the locks and the calls; a status is
\* one that the other endpoints select by.
TypeOK ==
    /\ pay \in [Payment -> {"none", "pending", "completed"}]
    /\ sub \in [Sub -> SubState]
    /\ rewards \in Nat /\ promos \in Nat
    /\ payLock \in [Payment -> Call \cup {Nobody}]
    /\ subLock \in [Sub -> Call \cup {Nobody}]
    /\ pc \in [Call -> {"start", "load", "markPaid", "insert", "read", "extend",
                        "referral", "promo", "commit", "done"}]
    /\ new \in [Call -> SubState]
    /\ gives \in [Call -> BOOLEAN] /\ redeems \in [Call -> BOOLEAN]
    /\ owed \in [Sub -> Nat]

\* A payment is credited once, however often and however closely together the
\* provider delivers it: "same external_id, no duplicate charge".
CreditedOnce == \A s \in Sub : sub[s].until <= owed[s]

\* The referral of a user is rewarded once, also when two of the payments for
\* the subscription are credited at the same time: the referral is read under
\* the row lock that the extension took.
RewardedOnce == rewards <= 1

\* A user redeems a promo code once, by the same argument.
RedeemedOnce == promos <= 1

\* Neither bonus is given twice.
BonusOnce == RewardedOnce /\ RedeemedOnce
=============================================================================
