------------------------------ MODULE Accounts ------------------------------
(***************************************************************************)
(* One Telegram user's account, as the Mini App (webapp.py), the bot       *)
(* (bot.py) and the admin API (users.py, subscriptions.py) change it: the  *)
(* user row, its subscriptions, the trial and cancelling.                  *)
(* (Profile has the columns of the user row that subscriptions ignore.)    *)
(*                                                                         *)
(* Requests that read, wait for a lock or await something before they      *)
(* write are calls with several steps; what a call writes is seen by the   *)
(* others when it commits.  A request that only writes what does not       *)
(* depend on an earlier read is one action.  valid_until is a number of    *)
(* periods; a subscription is live while valid_until > now.                *)
(***************************************************************************)
EXTENDS Naturals, FiniteSets

CONSTANTS NReq,       \* requests with several steps
          MaxSubs,    \* bound: subscription rows
          MaxNow      \* bound: periods that pass

Req == 1..NReq
Row == 1..MaxSubs
Plans == {"paid", "free"}
NoReq == 0

ASSUME AccountsAssumption == NReq \in Nat /\ MaxSubs \in Nat /\ MaxNow \in Nat

VARIABLES
    user,      \* the users row: "none", "ok" or "banned"
    subs,      \* subscriptions rows
    now,
    userLock,  \* the call that holds the user's row (FOR UPDATE, or inserted it)
    req        \* the calls: pc, what they are for and what they have read

accVars == <<user, subs, now, userLock, req>>

SubStatus == {"none", "pending", "active", "cancelled"}
\* put: observer, an admin has set the row to pending.
NoSub == [st |-> "none", plan |-> "paid", until |-> 0, trial |-> FALSE, put |-> FALSE]
NewSub(p, st, u, t) == [st |-> st, plan |-> p, until |-> u, trial |-> t, put |-> FALSE]

Kinds == {"createOrGet", "invoice", "trial"}
Idle == [pc |-> "idle", kind |-> "trial", plan |-> "free", row |-> 0, wasActive |-> FALSE]

Live(s) == subs[s].st = "active" /\ subs[s].until > now
\* The row an INSERT adds: the first unused one.
Free == {s \in Row : subs[s].st = "none" /\ \A t \in Row : t < s => subs[t].st # "none"}

AccInit ==
    /\ user \in {"none", "ok"}
    /\ subs = [s \in Row |-> NoSub]
    /\ now = 0
    /\ userLock = NoReq
    /\ req = [r \in Req |-> Idle]

-----------------------------------------------------------------------------
(* Requests with several steps.                                            *)

At(r, pc) == req[r].pc = pc
Go(r, pc) == req' = [req EXCEPT ![r].pc = pc]
Leave(r) == /\ req' = [req EXCEPT ![r] = [Idle EXCEPT !.pc = "end"]]
            /\ userLock' = IF userLock = r THEN NoReq ELSE userLock
UnchangedAccount == UNCHANGED <<user, subs, now>>

\* A request of some kind arrives.
Arrive(r) ==
    /\ At(r, "idle")
    /\ \E k \in Kinds, p \in Plans :
          /\ k = "trial" => p = "free"
          /\ req' = [req EXCEPT ![r] = [Idle EXCEPT !.pc = "user", !.kind = k, !.plan = p]]
    /\ UnchangedAccount /\ UNCHANGED userLock

\* The user is found, or inserted with ON CONFLICT DO NOTHING: the insert waits
\* for another call that has inserted the row.  create-or-get and the trial
\* refuse a banned user; the Mini App's requests do not look at is_banned.
FindUser(r) ==
    /\ At(r, "user")
    /\ LET next == IF req[r].kind = "trial" THEN "check" ELSE "lock"
       IN \/ user = "none" /\ userLock = NoReq /\ userLock' = r /\ Go(r, next)
          \/ /\ user # "none"
             /\ IF user = "banned" /\ req[r].kind \in {"createOrGet", "trial"}
                THEN Leave(r)
                ELSE Go(r, next) /\ UNCHANGED userLock
    /\ UnchangedAccount

\* Mutant: the selection is not serialised.
LockUserSkipped(r) ==
    /\ At(r, "lock")
    /\ Go(r, "pick")
    /\ UnchangedAccount /\ UNCHANGED userLock

\* SELECT ... FOR UPDATE of the user's row.
LockUser(r) ==
    /\ At(r, "lock")
    /\ userLock \in {NoReq, r}
    /\ userLock' = r
    /\ Go(r, "pick")
    /\ UnchangedAccount

\* The live subscription of the plan, or the pending one, or none (row 0: a new one).
Candidates(p) ==
    LET live == {s \in Row : subs[s].plan = p /\ Live(s)}
        pending == {s \in Row : subs[s].plan = p /\ subs[s].st = "pending"}
    IN IF live # {} THEN live ELSE IF pending # {} THEN pending ELSE {0}

PickSubscription(r) ==
    /\ At(r, "pick")
    /\ \E s \in Candidates(req[r].plan) :
          /\ s = 0 => Free # {}
          /\ req' = [req EXCEPT ![r].pc = "commit", ![r].row = s,
                                ![r].wasActive = s # 0 /\ subs[s].st = "active"]
    /\ UnchangedAccount /\ UNCHANGED userLock

\* create-or-get adds a pending subscription with no paid window.  The Mini App's
\* create-invoice, for a free plan, also activates it unless it was read as
\* active; the payment of a plan with a price is credited by Payments.
CommitSubscription(r) ==
    /\ At(r, "commit")
    /\ \E s \in IF req[r].row = 0 THEN Free ELSE {req[r].row} :
          LET fresh == req[r].row = 0
              base == IF fresh THEN NewSub(req[r].plan, "pending", now, FALSE) ELSE subs[s]
              activate == req[r].kind = "invoice" /\ req[r].plan = "free" /\ ~req[r].wasActive
          IN subs' = [subs EXCEPT ![s] =
                IF activate THEN [base EXCEPT !.st = "active", !.until = now + 1] ELSE base]
    /\ user' = IF user = "none" THEN "ok" ELSE user
    /\ Leave(r)
    /\ UNCHANGED now

\* No active server for a plan with a price, an error, or the process dies.
Abandon(r) ==
    /\ req[r].pc \notin {"idle", "end"}
    /\ Leave(r)
    /\ UnchangedAccount

\* start_trial: "any subscription with is_trial=True".
TrialCheck(r) ==
    /\ At(r, "check")
    /\ IF \E s \in Row : subs[s].st # "none" /\ subs[s].trial
       THEN Leave(r) ELSE Go(r, "issue") /\ UNCHANGED userLock
    /\ UnchangedAccount

\* The subscription and the device it is for are added by one transaction; when
\* the device cannot be issued (Abandon) the trial is not used up.
TrialCommit(r) ==
    /\ At(r, "issue")
    /\ \E s \in Free : subs' = [subs EXCEPT ![s] = NewSub("free", "active", now + 1, TRUE)]
    /\ user' = IF user = "none" THEN "ok" ELSE user
    /\ Leave(r)
    /\ UNCHANGED now

-----------------------------------------------------------------------------
(* Requests of one step.                                                   *)

\* POST /webapp/auth: ensures the user.
Authenticate ==
    /\ user = "none" /\ userLock = NoReq
    /\ user' = "ok"
    /\ UNCHANGED <<subs, now, userLock, req>>

Existing(s) == subs[s].st # "none"
SetSub(s, rec) ==
    /\ subs' = [subs EXCEPT ![s] = rec]
    /\ UNCHANGED <<user, now, userLock, req>>

\* The row that the request names, any of the user's, or the one with the latest
\* valid_until.
Cancel(s) == Existing(s) /\ SetSub(s, [subs[s] EXCEPT !.st = "cancelled"])

\* A payment is credited (Payments): a subscription that is not active starts now.
Credit(s) ==
    /\ subs[s].st \in {"pending", "active", "cancelled"}
    /\ LET base == IF subs[s].st = "active" /\ subs[s].until > now THEN subs[s].until ELSE now
       IN base < MaxNow + 1
          /\ SetSub(s, [subs[s] EXCEPT !.st = "active", !.until = base + 1])

\* The admin API adds a subscription, or sets the columns of one: status is any
\* string, valid_until any time (here a past one or the end of this period).
AdminCreate ==
    /\ user # "none"
    /\ \E s \in Free, p \in Plans : SetSub(s, NewSub(p, "active", now + 1, FALSE))
AdminUpdate(s) ==
    /\ Existing(s)
    /\ \E st \in SubStatus \ {"none"}, u \in {subs[s].until, 0, now + 1} :
          SetSub(s, [subs[s] EXCEPT !.st = st, !.until = u,
                                    !.put = st = "pending" /\ (@ \/ subs[s].st # "pending")])

\* update_user sets or clears is_banned.
BanUser ==
    /\ user \in {"ok", "banned"} /\ userLock = NoReq
    /\ user' = IF user = "ok" THEN "banned" ELSE "ok"
    /\ UNCHANGED <<subs, now, userLock, req>>

\* _delete_user_cascade: everything of the user, in one transaction; it waits for
\* the user's row, and a call that is under way fails on its foreign key.
DeleteUser ==
    /\ user # "none" /\ userLock = NoReq
    /\ user' = "none"
    /\ subs' = [s \in Row |-> NoSub]
    /\ req' = [r \in Req |-> IF req[r].pc \in {"idle", "user", "end"} THEN req[r]
                             ELSE [Idle EXCEPT !.pc = "end"]]
    /\ UNCHANGED <<now, userLock>>

PeriodEnds ==
    /\ now < MaxNow
    /\ now' = now + 1
    /\ UNCHANGED <<user, subs, userLock, req>>

-----------------------------------------------------------------------------
ReqStep(r) ==
    \/ Arrive(r) \/ FindUser(r) \/ LockUser(r) \/ PickSubscription(r)
    \/ CommitSubscription(r) \/ Abandon(r) \/ TrialCheck(r) \/ TrialCommit(r)

AccNext ==
    \/ \E r \in Req : ReqStep(r)
    \/ \E s \in Row : Cancel(s) \/ Credit(s) \/ AdminUpdate(s)
    \/ Authenticate \/ AdminCreate \/ BanUser \/ DeleteUser \/ PeriodEnds

AccSpec == AccInit /\ [][AccNext]_accVars

-----------------------------------------------------------------------------
(* Properties.                                                             *)

\* The types of the user's row, the subscriptions, the row lock and the requests.
AccTypeOK ==
    /\ user \in {"none", "ok", "banned"}
    /\ subs \in [Row -> [st : SubStatus, plan : Plans, until : Nat, trial : BOOLEAN,
                         put : BOOLEAN]]
    /\ now \in Nat
    /\ userLock \in Req \cup {NoReq}
    /\ req \in [Req -> [pc : {"idle", "user", "lock", "pick", "commit", "check", "issue", "end"},
                        kind : Kinds, plan : Plans, row : Row \cup {0}, wasActive : BOOLEAN]]

\* However fast the bot and the Mini App repeat create-or-get and create-invoice,
\* a user has one pending subscription for a plan, besides those that an admin has
\* set to pending: the payments of all invoices are for the subscription that the
\* user is shown.
OnePending ==
    \A s, t \in Row : /\ subs[s].st = "pending" /\ ~subs[s].put
                      /\ subs[t].st = "pending" /\ ~subs[t].put
                      /\ subs[s].plan = subs[t].plan
                      => s = t
=============================================================================
