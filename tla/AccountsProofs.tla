--------------------------- MODULE AccountsProofs ---------------------------
(***************************************************************************)
(* Proofs about one user's account.  A user has one pending subscription   *)
(* for a plan, besides what an admin has set to pending: the search for it *)
(* and the insert of a new one happen under the lock of the user's row.    *)
(* Reminders go out once and onboarding stays completed.  And what the     *)
(* keys in Redis promise when they are read and written one command at a   *)
(* time: the daily cap, one device per Idempotency-Key, and a rate limit   *)
(* that ends.                                                              *)
(***************************************************************************)
EXTENDS Accounts, IssueGate, Reminders, Profile, ClientConfig, TLAPS

SubRow == [st : SubStatus, plan : Plans, until : Nat, trial : BOOLEAN, put : BOOLEAN]
ReqRow == [pc : {"idle", "user", "lock", "pick", "commit", "check", "issue", "end"},
           kind : Kinds, plan : Plans, row : Row \cup {0}, wasActive : BOOLEAN]

LEMMA IdleType == Idle \in ReqRow /\ [Idle EXCEPT !.pc = "end"] \in ReqRow
  BY DEF Idle, ReqRow, Kinds, Plans

LEMMA AccTypeInit == AccInit => AccTypeOK
  BY IdleType DEF AccInit, AccTypeOK, SubRow, ReqRow, NoSub, SubStatus, Plans, NoReq

LEMMA LeaveType ==
  ASSUME AccTypeOK, NEW r \in Req, Leave(r)
  PROVE  req' \in [Req -> ReqRow] /\ userLock' \in Req \cup {NoReq}
  BY IdleType DEF AccTypeOK, Leave, ReqRow

LEMMA GoType ==
  ASSUME AccTypeOK, NEW r \in Req,
         NEW pc \in {"idle", "user", "lock", "pick", "commit", "check", "issue", "end"}, Go(r, pc)
  PROVE  req' \in [Req -> ReqRow]
  BY DEF AccTypeOK, Go, ReqRow

\* The columns one-step requests set.
LEMMA SubEdits ==
  ASSUME AccTypeOK, NEW s \in Row
  PROVE  /\ [subs[s] EXCEPT !.st = "cancelled"] \in SubRow
         /\ \A n \in Nat : [subs[s] EXCEPT !.st = "active", !.until = n] \in SubRow
         /\ \A st \in SubStatus, n \in Nat, b \in BOOLEAN :
               [subs[s] EXCEPT !.st = st, !.until = n, !.put = b] \in SubRow
  <1>1. subs[s] \in SubRow
    BY DEF AccTypeOK, SubRow
  <1> QED
    BY <1>1 DEF SubRow, SubStatus

LEMMA NewSubType ==
  \A p \in Plans, st \in {"active", "pending"}, n \in Nat, t \in BOOLEAN : NewSub(p, st, n, t) \in SubRow
  BY DEF NewSub, SubRow, SubStatus

LEMMA SetSubType ==
  ASSUME AccTypeOK, NEW s \in Row, NEW rec \in SubRow, SetSub(s, rec)
  PROVE  AccTypeOK'
  BY DEF AccTypeOK, SetSub, SubRow

LEMMA EditTyped ==
  ASSUME AccTypeOK, NEW s \in Row,
         Cancel(s) \/ Credit(s) \/ AdminUpdate(s)
  PROVE  AccTypeOK'
  <1>1. CASE Cancel(s)
    BY <1>1, SubEdits, SetSubType DEF Cancel
  <1>2. CASE Credit(s)
    <2> DEFINE base == IF subs[s].st = "active" /\ subs[s].until > now THEN subs[s].until ELSE now
    <2>1. SetSub(s, [subs[s] EXCEPT !.st = "active", !.until = base + 1])
      BY <1>2 DEF Credit
    <2>2. base + 1 \in Nat
      BY DEF AccTypeOK
    <2> QED
      BY <2>1, <2>2, SubEdits, SetSubType
  <1>3. CASE AdminUpdate(s)
    <2>1. PICK st \in SubStatus \ {"none"}, u \in {subs[s].until, 0, now + 1} :
             SetSub(s, [subs[s] EXCEPT !.st = st, !.until = u,
                                       !.put = st = "pending" /\ (@ \/ subs[s].st # "pending")])
      BY <1>3 DEF AdminUpdate
    <2>2. u \in Nat /\ (st = "pending" /\ (subs[s].put \/ subs[s].st # "pending")) \in BOOLEAN
      BY DEF AccTypeOK
    <2> QED
      BY <2>1, <2>2, SubEdits, SetSubType
  <1> QED
    BY <1>1, <1>2, <1>3

\* The row that create-or-get and create-invoice leave.
Left(r, s) ==
    LET base == IF req[r].row = 0 THEN NewSub(req[r].plan, "pending", now, FALSE) ELSE subs[s]
    IN IF req[r].kind = "invoice" /\ req[r].plan = "free" /\ ~req[r].wasActive
       THEN [base EXCEPT !.st = "active", !.until = now + 1] ELSE base

LEMMA LeftType == ASSUME AccTypeOK, NEW r \in Req, NEW s \in Row PROVE Left(r, s) \in SubRow
  <1>1. subs[s] \in SubRow /\ req[r].plan \in Plans /\ now \in Nat
    BY DEF AccTypeOK, SubRow
  <1>2. NewSub(req[r].plan, "pending", now, FALSE) \in SubRow
    BY <1>1, NewSubType
  <1>3. ASSUME NEW b \in SubRow PROVE [b EXCEPT !.st = "active", !.until = now + 1] \in SubRow
    <2>1. now + 1 \in Nat
      BY <1>1
    <2> QED
      BY <1>3, <2>1 DEF SubRow, SubStatus
  <1>4. IF req[r].row = 0 THEN NewSub(req[r].plan, "pending", now, FALSE) \in SubRow ELSE subs[s] \in SubRow
    BY <1>1, <1>2
  <1> QED
    BY <1>3, <1>4 DEF Left

LEMMA CommitSets ==
  ASSUME AccTypeOK, NEW r \in Req, CommitSubscription(r)
  PROVE  \E s \in Row : /\ req[r].row = 0 => s \in Free
                        /\ subs' = [subs EXCEPT ![s] = Left(r, s)]
  <1>1. PICK s \in IF req[r].row = 0 THEN Free ELSE {req[r].row} : subs' = [subs EXCEPT ![s] = Left(r, s)]
    BY DEF CommitSubscription, Left
  <1>2. s \in Row
    BY DEF Free, AccTypeOK
  <1> QED
    BY <1>1, <1>2

LEMMA ReqTyped == ASSUME AccTypeOK, NEW r \in Req, ReqStep(r) PROVE AccTypeOK'
  <1> USE DEF UnchangedAccount
  <1>1. CASE Arrive(r)
    <2>1. \A k \in Kinds, p \in Plans : [Idle EXCEPT !.pc = "user", !.kind = k, !.plan = p] \in ReqRow
      BY DEF Idle, ReqRow, Kinds, Plans
    <2>2. PICK k \in Kinds, p \in Plans :
             req' = [req EXCEPT ![r] = [Idle EXCEPT !.pc = "user", !.kind = k, !.plan = p]]
      BY <1>1 DEF Arrive
    <2> DEFINE new == [Idle EXCEPT !.pc = "user", !.kind = k, !.plan = p]
    <2>3. new \in ReqRow /\ req' = [req EXCEPT ![r] = new]
      BY <2>1, <2>2
    <2> HIDE DEF new
    <2>4. req \in [Req -> ReqRow]
      BY DEF AccTypeOK, ReqRow
    <2>5. req' \in [Req -> ReqRow]
      BY <2>3, <2>4
    <2>6. UNCHANGED <<user, subs, now, userLock>>
      BY <1>1 DEF Arrive
    <2> QED
      BY <2>5, <2>6 DEF AccTypeOK, ReqRow
  <1>2. CASE FindUser(r)
    <2>1. req' \in [Req -> ReqRow] /\ userLock' \in Req \cup {NoReq}
      BY <1>2, LeaveType, GoType DEF FindUser, AccTypeOK
    <2> QED
      BY <1>2, <2>1 DEF FindUser, AccTypeOK, ReqRow
  <1>3. CASE LockUser(r)
    BY <1>3, GoType DEF LockUser, AccTypeOK, ReqRow
  <1>4. CASE PickSubscription(r)
    <2>1. PICK s \in Candidates(req[r].plan) :
             req' = [req EXCEPT ![r].pc = "commit", ![r].row = s,
                                ![r].wasActive = s # 0 /\ subs[s].st = "active"]
      BY <1>4 DEF PickSubscription
    <2>2. s \in Row \cup {0}
      BY DEF Candidates
    <2> DEFINE q == [req[r] EXCEPT !.pc = "commit", !.row = s,
                                   !.wasActive = s # 0 /\ subs[s].st = "active"]
    <2>3. q \in ReqRow
      BY <2>2 DEF AccTypeOK, ReqRow
    <2>4. req' = [req EXCEPT ![r] = q]
      BY <2>1 DEF AccTypeOK, ReqRow
    <2>5. req' \in [Req -> ReqRow]
      BY <2>3, <2>4 DEF AccTypeOK, ReqRow
    <2> QED
      BY <1>4, <2>5 DEF PickSubscription, AccTypeOK, ReqRow
  <1>5. CASE CommitSubscription(r)
    <2>1. subs' \in [Row -> SubRow]
      BY <1>5, CommitSets, LeftType DEF AccTypeOK, SubRow
    <2> QED
      BY <1>5, <2>1, LeaveType DEF CommitSubscription, AccTypeOK, SubRow, ReqRow
  <1>6. CASE Abandon(r)
    BY <1>6, LeaveType DEF Abandon, AccTypeOK, ReqRow
  <1>7. CASE TrialCheck(r)
    <2>1. req' \in [Req -> ReqRow] /\ userLock' \in Req \cup {NoReq}
      BY <1>7, LeaveType, GoType DEF TrialCheck, AccTypeOK
    <2> QED
      BY <1>7, <2>1 DEF TrialCheck, AccTypeOK, ReqRow
  <1>8. CASE TrialCommit(r)
    <2>0. PICK s \in Free : subs' = [subs EXCEPT ![s] = NewSub("free", "active", now + 1, TRUE)]
      BY <1>8 DEF TrialCommit
    <2>1. subs' \in [Row -> SubRow]
      <3>1. NewSub("free", "active", now + 1, TRUE) \in SubRow
        <4>1. now + 1 \in Nat /\ "free" \in Plans
          BY DEF AccTypeOK, Plans
        <4> QED
          BY <4>1, NewSubType, Zenon
      <3> QED
        BY <2>0, <3>1 DEF Free, AccTypeOK, SubRow
    <2> QED
      BY <1>8, <2>1, LeaveType DEF TrialCommit, AccTypeOK, SubRow, ReqRow
  <1> QED
    BY <1>1, <1>2, <1>3, <1>4, <1>5, <1>6, <1>7, <1>8 DEF ReqStep

LEMMA AccTypeStep == AccTypeOK /\ [AccNext]_accVars => AccTypeOK'
  <1> SUFFICES ASSUME AccTypeOK, [AccNext]_accVars PROVE AccTypeOK'
    OBVIOUS
  <1>1. CASE AdminCreate
    <2>1. PICK s \in Free, p \in Plans : SetSub(s, NewSub(p, "active", now + 1, FALSE))
      BY <1>1 DEF AdminCreate
    <2>2. s \in Row /\ NewSub(p, "active", now + 1, FALSE) \in SubRow
      <3>1. s \in Row /\ now + 1 \in Nat
        BY DEF Free, AccTypeOK
      <3> QED
        BY <3>1, NewSubType, Zenon
    <2> QED
      BY <2>1, <2>2, SetSubType
  <1>2. CASE DeleteUser
    <2>1. NoSub \in SubRow
      BY DEF NoSub, SubRow, SubStatus, Plans
    <2> QED
      BY <1>2, <2>1, IdleType DEF DeleteUser, AccTypeOK, SubRow, ReqRow
  <1>3. CASE Authenticate \/ BanUser \/ PeriodEnds \/ UNCHANGED accVars
    BY <1>3 DEF Authenticate, BanUser, PeriodEnds, accVars, AccTypeOK
  <1> QED
    BY <1>1, <1>2, <1>3, ReqTyped, EditTyped DEF AccNext

\* Every variable keeps its type.
THEOREM AccountsTyped == AccSpec => []AccTypeOK
  BY AccTypeInit, AccTypeStep, PTL DEF AccSpec

-----------------------------------------------------------------------------
(* The pending subscription.                                               *)

\* From the search to the commit a request holds the user's row.
UserLockInv == \A r \in Req : req[r].pc \in {"pick", "commit"} => userLock = r

Pending(s, p) == subs[s].st = "pending" /\ ~subs[s].put /\ subs[s].plan = p

\* A request that is about to add a subscription has found none that is pending.
FoundInv ==
    \A r \in Req : req[r].pc = "commit" /\ req[r].row = 0 =>
        \A s \in Row : ~Pending(s, req[r].plan)

LEMMA UserLockStep == AccTypeOK /\ UserLockInv /\ [AccNext]_accVars => UserLockInv'
  <1> SUFFICES ASSUME AccTypeOK, UserLockInv, [AccNext]_accVars PROVE UserLockInv'
    OBVIOUS
  <1> USE AccountsAssumption DEF UserLockInv, UnchangedAccount, At, NoReq, Req
  <1>1. ASSUME NEW r \in Req, Leave(r) PROVE UserLockInv'
    BY <1>1 DEF Leave, Idle, AccTypeOK
  <1>2. ASSUME NEW r \in Req, Arrive(r) PROVE UserLockInv'
    BY <1>2 DEF Arrive, Idle, AccTypeOK
  <1>3. ASSUME NEW r \in Req, FindUser(r) \/ LockUser(r) \/ TrialCheck(r) PROVE UserLockInv'
    <2>1. \/ Leave(r)
          \/ /\ Go(r, "check") \/ Go(r, "lock") \/ Go(r, "issue")
             /\ userLock' = userLock \/ userLock = NoReq
          \/ Go(r, "pick") /\ userLock' = r /\ userLock \in {NoReq, r}
      BY <1>3 DEF FindUser, LockUser, TrialCheck
    <2>2. ASSUME Go(r, "check") \/ Go(r, "lock") \/ Go(r, "issue"),
                 userLock' = userLock \/ userLock = NoReq
          PROVE  UserLockInv'
      BY <2>2 DEF Go, AccTypeOK
    <2>3. ASSUME Go(r, "pick"), userLock' = r, userLock \in {NoReq, r} PROVE UserLockInv'
      <3>1. ASSUME NEW q \in Req, q # r PROVE req'[q].pc \notin {"pick", "commit"}
        <4>1. userLock # q
          BY <2>3, <3>1
        <4>2. req'[q] = req[q]
          BY <2>3, <3>1 DEF Go, AccTypeOK
        <4> QED
          BY <4>1, <4>2
      <3> QED
        BY <2>3, <3>1
    <2> QED
      BY <1>1, <2>1, <2>2, <2>3
  <1>4. ASSUME NEW r \in Req, PickSubscription(r) PROVE UserLockInv'
    BY <1>4 DEF PickSubscription, AccTypeOK
  <1>5. ASSUME NEW r \in Req, CommitSubscription(r) \/ Abandon(r) \/ TrialCommit(r) PROVE UserLockInv'
    BY <1>1, <1>5 DEF CommitSubscription, Abandon, TrialCommit
  <1>6. ASSUME NEW s \in Row,
               Cancel(s) \/ Credit(s) \/ AdminUpdate(s)
        PROVE  UserLockInv'
    BY <1>6 DEF Cancel, Credit, AdminUpdate, SetSub
  <1>7. CASE Authenticate \/ AdminCreate \/ BanUser \/ PeriodEnds \/ UNCHANGED accVars
    BY <1>7 DEF Authenticate, AdminCreate, BanUser, PeriodEnds, accVars, SetSub
  <1>8. CASE DeleteUser
    BY <1>8 DEF DeleteUser, Idle, AccTypeOK
  <1> QED
    BY <1>2, <1>3, <1>4, <1>5, <1>6, <1>7, <1>8 DEF AccNext, ReqStep

\* Only CommitSubscription adds a pending subscription.
LEMMA OthersAddNone ==
  ASSUME AccTypeOK, [AccNext]_accVars, \A r \in Req : ~CommitSubscription(r),
         NEW s \in Row, NEW p, Pending(s, p)'
  PROVE  Pending(s, p)
  <1> USE DEF Pending, AccTypeOK
  <1>1. ASSUME NEW t \in Row,
               Cancel(t) \/ Credit(t) \/ AdminUpdate(t)
        PROVE  Pending(s, p)
    <2>1. CASE Cancel(t) \/ Credit(t)
      BY <2>1 DEF Cancel, Credit, SetSub
    <2>2. CASE AdminUpdate(t)
      <3>1. PICK st \in SubStatus \ {"none"}, u \in {subs[t].until, 0, now + 1} :
               subs' = [subs EXCEPT ![t] = [subs[t] EXCEPT !.st = st, !.until = u,
                            !.put = st = "pending" /\ (@ \/ subs[t].st # "pending")]]
        BY <2>2 DEF AdminUpdate, SetSub
      <3>2. CASE s = t
        BY <3>1, <3>2
      <3>3. CASE s # t
        BY <3>1, <3>3
      <3> QED
        BY <3>2, <3>3
    <2> QED
      BY <1>1, <2>1, <2>2
  <1>2. ASSUME NEW r \in Req, ReqStep(r) PROVE Pending(s, p)
    <2>1. CASE subs' = subs
      BY <2>1
    <2>2. CASE TrialCommit(r)
      BY <2>2 DEF TrialCommit, Free, NewSub
    <2> QED
      BY <1>2, <2>1, <2>2 DEF ReqStep, Arrive, FindUser, LockUser, PickSubscription, Abandon,
                              TrialCheck, UnchangedAccount
  <1>3. CASE AdminCreate
    BY <1>3 DEF AdminCreate, Free, NewSub, SetSub
  <1>4. CASE DeleteUser
    BY <1>4 DEF DeleteUser, NoSub
  <1>5. CASE Authenticate \/ BanUser \/ PeriodEnds \/ UNCHANGED accVars
    BY <1>5 DEF Authenticate, BanUser, PeriodEnds, accVars
  <1> QED
    BY <1>1, <1>2, <1>3, <1>4, <1>5 DEF AccNext

\* It adds one only for its plan, and only if it had found none.
LEMMA CommitAddsOne ==
  ASSUME AccTypeOK, UserLockInv, FoundInv, OnePending, NEW r \in Req, CommitSubscription(r)
  PROVE  OnePending'
  <1>1. PICK s \in Row : /\ req[r].row = 0 => s \in Free
                         /\ subs' = [subs EXCEPT ![s] = Left(r, s)]
    BY CommitSets
  <1>2. \A t \in Row \ {s} : subs'[t] = subs[t]
    BY <1>1 DEF AccTypeOK
  <1>3. subs'[s] = Left(r, s)
    BY <1>1 DEF AccTypeOK
  <1>4. CASE req[r].row # 0
    <2>1. subs'[s].st = "pending" => subs'[s] = subs[s]
      BY <1>3, <1>4 DEF Left, AccTypeOK
    <2> QED
      BY <1>2, <2>1 DEF OnePending
  <1>5. CASE req[r].row = 0
    <2>1. \A t \in Row : ~Pending(t, req[r].plan)
      BY <1>5 DEF FoundInv, CommitSubscription, At
    <2>2. subs'[s].plan = req[r].plan
      BY <1>3, <1>5 DEF Left, NewSub
    <2> QED
      BY <1>2, <2>1, <2>2 DEF OnePending, Pending
  <1> QED
    BY <1>4, <1>5

LEMMA FoundStep ==
  ASSUME AccTypeOK, UserLockInv, UserLockInv', FoundInv, [AccNext]_accVars
  PROVE  FoundInv'
  <1> SUFFICES ASSUME NEW r \in Req, req'[r].pc = "commit", req'[r].row = 0,
                      NEW s \in Row, Pending(s, req[r].plan)'
               PROVE  FALSE
    BY DEF FoundInv, Pending
  <1>1. \/ PickSubscription(r)
        \/ req[r].pc = "commit" /\ req'[r] = req[r]
    <2>1. ASSUME NEW q \in Req, ReqStep(q), q # r PROVE req'[r] = req[r]
      BY <2>1 DEF ReqStep, Arrive, FindUser, LockUser, PickSubscription, CommitSubscription, Abandon,
                  TrialCheck, TrialCommit, Leave, Go, AccTypeOK
    <2>2. CASE Leave(r)
      BY <2>2 DEF Leave, Idle, AccTypeOK
    <2>3. CASE ReqStep(r) /\ ~Leave(r) /\ ~PickSubscription(r)
      BY <2>3 DEF ReqStep, Arrive, FindUser, LockUser, CommitSubscription, Abandon,
                  TrialCheck, TrialCommit, Go, Idle, AccTypeOK
    <2>4. ASSUME NEW t \in Row,
                 Cancel(t) \/ Credit(t) \/ AdminUpdate(t)
          PROVE  req' = req
      BY <2>4 DEF Cancel, Credit, AdminUpdate, SetSub
    <2>5. CASE Authenticate \/ AdminCreate \/ BanUser \/ PeriodEnds \/ UNCHANGED accVars
      BY <2>5 DEF Authenticate, AdminCreate, BanUser, PeriodEnds, accVars, SetSub
    <2>6. CASE DeleteUser
      BY <2>6 DEF DeleteUser, Idle
    <2> QED
      BY <2>1, <2>2, <2>3, <2>4, <2>5, <2>6 DEF AccNext
  <1>2. CASE PickSubscription(r)
    <2>1. subs' = subs /\ req'[r].plan = req[r].plan /\ 0 \in Candidates(req[r].plan)
      BY <1>2 DEF PickSubscription, UnchangedAccount, AccTypeOK
    <2>2. ~Pending(s, req[r].plan)
      BY <2>1, AccountsAssumption DEF Candidates, Pending, Row
    <2> QED
      BY <2>1, <2>2 DEF Pending
  <1>3. CASE req[r].pc = "commit" /\ req'[r] = req[r]
    <2>1. ASSUME NEW q \in Req, CommitSubscription(q) PROVE FALSE
      <3>1. q = r
        BY <1>3, <2>1 DEF UserLockInv, CommitSubscription, At
      <3> QED
        BY <2>1, <3>1 DEF CommitSubscription, Leave, Idle, AccTypeOK
    <2>2. Pending(s, req[r].plan)
      <3>1. \A p : Pending(s, p)' => Pending(s, p)
        BY <2>1, OthersAddNone
      <3> QED
        BY <1>3, <3>1 DEF Pending
    <2> QED
      BY <1>3, <2>2 DEF FoundInv
  <1> QED
    BY <1>1, <1>2, <1>3

\* No repetition or overlap of create-or-get, create-invoice, trials, edits by the
\* user and by admins gives a user two pending subscriptions for one plan, besides
\* rows that an admin has set to pending, whatever else admins write.
THEOREM PendingIsUnique == AccSpec => []OnePending
  <1> DEFINE Inv == AccTypeOK /\ UserLockInv /\ FoundInv /\ OnePending
  <1>1. AccInit => Inv
    BY AccTypeInit DEF AccInit, UserLockInv, FoundInv, OnePending, Idle, NoSub
  <1>2. Inv /\ [AccNext]_accVars => Inv'
    <2> SUFFICES ASSUME Inv, [AccNext]_accVars PROVE Inv'
      OBVIOUS
    <2>1. AccTypeOK' /\ UserLockInv'
      BY AccTypeStep, UserLockStep
    <2>2. FoundInv'
      BY <2>1, FoundStep
    <2>3. CASE \E r \in Req : CommitSubscription(r)
      BY <2>1, <2>2, <2>3, CommitAddsOne
    <2>4. CASE \A r \in Req : ~CommitSubscription(r)
      <3>1. \A s \in Row : \A p : Pending(s, p)' => Pending(s, p)
        BY <2>4, OthersAddNone
      <3> QED
        BY <2>1, <2>2, <3>1 DEF OnePending, Pending
    <2> QED
      BY <2>3, <2>4
  <1> QED
    BY <1>1, <1>2, PTL DEF AccSpec

-----------------------------------------------------------------------------
(* Reminders.                                                              *)

RemTypeOK ==
    /\ flag \subseteq Which /\ mine \subseteq Which /\ excused \subseteq Which
    /\ phase \in {"idle", "3d", "1d", "commit"}
    /\ sent \in [Which -> Nat]

\* A reminder that was sent and not lost is recorded, or will be by the check that is
\* running; a check has recorded nothing for a reminder it has not come to.
RemIInv ==
    /\ RemTypeOK
    /\ \A w \in Which : w \notin excused => sent[w] = 0 \/ (sent[w] = 1 /\ w \in flag \cup mine)
    /\ phase \in {"idle", "3d"} => mine = {}
    /\ phase = "1d" => mine \subseteq {"3d"}

LEMMA RemInvInit == RemInit => RemIInv
  BY DEF RemInit, RemIInv, RemTypeOK

LEMMA SendStep == ASSUME RemIInv, NEW w \in Which, Send(w) PROVE RemIInv'
  <1>1. w \notin mine /\ phase = w /\ phase' = After(w) /\ flag' = flag
    BY DEF Send, RemIInv, Which
  <1>2. phase' \in {"1d", "commit"} /\ (phase' = "1d" => w = "3d" /\ mine = {})
    BY <1>1 DEF After, Which, RemIInv
  <1>3. CASE Due(w) /\ sent' = [sent EXCEPT ![w] = @ + 1] /\ mine' = mine \cup {w} /\ excused' = excused
    <2>1. w \notin excused => sent[w] = 0
      BY <1>1, <1>3 DEF RemIInv, Due
    <2>2. RemTypeOK'
      BY <1>1, <1>2, <1>3 DEF RemIInv, RemTypeOK
    <2>3. \A v \in Which : v \notin excused' => sent'[v] = 0 \/ (sent'[v] = 1 /\ v \in flag' \cup mine')
      BY <1>1, <1>3, <2>1 DEF RemIInv, RemTypeOK
    <2> QED
      BY <1>2, <1>3, <2>2, <2>3 DEF RemIInv
  <1>4. CASE excused' \in {excused, excused \cup {w}} /\ UNCHANGED <<sent, mine>>
    BY <1>1, <1>2, <1>4 DEF RemIInv, RemTypeOK
  <1> QED
    BY <1>3, <1>4 DEF Send

LEMMA RemInvStep == RemIInv /\ [RemNext]_remVars => RemIInv'
  <1> SUFFICES ASSUME RemIInv, [RemNext]_remVars PROVE RemIInv'
    OBVIOUS
  <1> USE DEF RemIInv, RemTypeOK
  <1>1. CASE StartCheck \/ Hour \/ UNCHANGED remVars
    BY <1>1 DEF StartCheck, Hour, remVars
  <1>2. CASE CommitCheck
    BY <1>2 DEF CommitCheck
  <1>3. CASE Restart
    BY <1>3 DEF Restart
  <1>4. CASE Renew
    BY <1>4 DEF Renew
  <1>5. ASSUME NEW w \in Which, RetentionRule(w) PROVE RemIInv'
    BY <1>5 DEF RetentionRule
  <1> QED
    BY <1>1, <1>2, <1>3, <1>4, <1>5, SendStep DEF RemNext

\* A user gets each reminder once in a period of the subscription, for every interval of
\* the check, every history of restarts, renewals and retention rules; only a worker that
\* dies between sending and committing repeats one.
THEOREM RemindersGoOutOnce == RemSpec => []RemindedOnce
  <1>1. RemIInv => RemindedOnce
    BY DEF RemIInv, RemTypeOK, RemindedOnce
  <1> QED
    BY <1>1, RemInvInit, RemInvStep, PTL DEF RemSpec

-----------------------------------------------------------------------------
(* Onboarding.                                                             *)

\* A request that read the row before another one completed the onboarding writes only
\* the columns it has changed: for any number of overlapping requests the onboarding
\* stays completed.
THEOREM OnboardingStaysCompleted == ProfSpec => CompletionStays
  <1>1. [ProfNext]_profVars => [onb.done => onb'.done]_profVars
    <2> SUFFICES ASSUME ProfNext, onb.done PROVE onb'.done
      BY DEF profVars
    <2>1. ASSUME NEW v \in Visit, WriteOnboarding(v) PROVE onb'.done
      BY <2>1 DEF WriteOnboarding
    <2>2. ASSUME onb' = onb PROVE onb'.done
      BY <2>2
    <2> QED
      BY <2>1, <2>2 DEF ProfNext, Auth, SelectServer, OnboardingState, Read, WriteAuth, WriteSelect,
         Fail, AttachReferral, ToggleServer
  <1> QED
    BY <1>1, PTL DEF ProfSpec, CompletionStays

-----------------------------------------------------------------------------
(* Client configurations.                                                  *)

LEMMA OverNat ==
  ASSUME NEW D, NEW E, NEW f \in [D -> Nat], NEW g \in [E -> Nat]
  PROVE  /\ Over(f, g) \in [D \cup E -> Nat] /\ DOMAIN Over(f, g) = D \cup E
         /\ \A k \in D : Over(f, g)[k] = f[k]
         /\ \A k \in E \ D : Over(f, g)[k] = g[k]
  BY DEF Over

\* What the profile gives: numbers, both sizes among them.
LEMMA ProfileNumbers ==
  ASSUME NEW q, q.num \in [DOMAIN q.num -> Nat], DOMAIN q.num \subseteq Numbers
  PROVE  LET g == GetObfuscationParams(q)
         IN /\ g = [num |-> g.num, hd |-> g.hd, i1 |-> g.i1]
            /\ g.num \in [DOMAIN g.num -> Nat] /\ {"S1", "S2"} \subseteq DOMAIN g.num
            /\ q = NoParams => g.num["S1"] = 213 /\ g.num["S2"] = 237
  <1> DEFINE base == Over(DefaultNum, [S3 |-> 0, S4 |-> 0])
  <1>1. /\ DefaultNum \in [{"Jc", "Jmin", "Jmax", "S1", "S2"} -> Nat]
        /\ DefaultNum["S1"] = 213 /\ DefaultNum["S2"] = 237
    BY DEF DefaultNum
  <1>2. [S3 |-> 0, S4 |-> 0] \in [{"S3", "S4"} -> Nat]
    OBVIOUS
  <1>3. base \in [Numbers -> Nat]
    <2>1. base \in [{"Jc", "Jmin", "Jmax", "S1", "S2"} \cup {"S3", "S4"} -> Nat]
      BY <1>1, <1>2, OverNat
    <2> HIDE DEF base
    <2>2. {"Jc", "Jmin", "Jmax", "S1", "S2"} \cup {"S3", "S4"} = Numbers
      BY DEF Numbers
    <2> QED
      BY <2>1, <2>2
  <1> HIDE DEF base
  <1>4. CASE q = NoParams
    BY <1>1, <1>4 DEF GetObfuscationParams
  <1>5. CASE q # NoParams
    <2>1. GetObfuscationParams(q) = [num |-> Over(q.num, base), hd |-> Over(q.hd, DefaultHd), i1 |-> q.i1]
      BY <1>5 DEF GetObfuscationParams, base
    <2>2. Over(q.num, base) \in [DOMAIN q.num \cup Numbers -> Nat]
      BY <1>3, OverNat
    <2>3. DOMAIN Over(q.num, base) = Numbers
      BY <2>2
    <2> QED
      BY <1>5, <2>1, <2>2, <2>3 DEF Numbers
  <1> QED
    BY <1>4, <1>5

\* What goes into the normaliser when the node's values are laid over the profile's.
LEMMA OverlayNumbers ==
  ASSUME NEW g, g = [num |-> g.num, hd |-> g.hd, i1 |-> g.i1], g.num \in [DOMAIN g.num -> Nat],
         {"S1", "S2"} \subseteq DOMAIN g.num, NEW r \in Reports
  PROVE  LET o == Overlay(g, r)
         IN /\ o.num \in [DOMAIN o.num -> Nat]
            /\ \A k \in {"S1", "S2"} :
                  /\ Has(o, k)
                  /\ o.num[k] = IF Reported(r) /\ Has(r, k) THEN r.num[k] ELSE g.num[k]
            /\ Reported(r) => /\ \A k \in DOMAIN r.num : Has(o, k) /\ o.num[k] = r.num[k]
                              /\ \A k \in Header : k \in DOMAIN o.hd /\ o.hd[k] = r.hd[k]
  <1>1. r.num \in [DOMAIN r.num -> Nat]
    BY ClientConfigAssumption DEF IsParams
  <1>2. CASE ~Reported(r)
    BY <1>2 DEF Overlay, Has
  <1>3. CASE Reported(r)
    <2> DEFINE n == Over(r.num, g.num)
               h == Over(r.hd, g.hd)
    <2>1. Overlay(g, r).num = n /\ Overlay(g, r).hd = h
      BY <1>3 DEF Overlay
    <2>2. /\ n \in [DOMAIN r.num \cup DOMAIN g.num -> Nat]
          /\ DOMAIN n = DOMAIN r.num \cup DOMAIN g.num
          /\ \A k \in DOMAIN r.num : n[k] = r.num[k]
          /\ \A k \in DOMAIN g.num \ DOMAIN r.num : n[k] = g.num[k]
      BY <1>1 DEF Over
    <2>3. \A k \in Header : k \in DOMAIN h /\ h[k] = r.hd[k]
      BY <1>3 DEF Reported, Over
    <2> HIDE DEF n, h
    <2> QED
      BY <1>3, <2>1, <2>2, <2>3 DEF Has
  <1> QED
    BY <1>2, <1>3

LEMMA NormalisedValues ==
  ASSUME NEW o, o.num \in [DOMAIN o.num -> Nat]
  PROVE  /\ \A k : Value(Normalised(o), k) = Value(o, k)
         /\ \A k \in DOMAIN o.hd : IF o.hd[k][2] > 0
                                   THEN k \in DOMAIN Normalised(o).hd /\ Normalised(o).hd[k] = o.hd[k]
                                   ELSE k \notin DOMAIN Normalised(o).hd
  <1>1. /\ Normalised(o).num = [k \in {k \in DOMAIN o.num : o.num[k] > 0} |-> o.num[k]]
        /\ Normalised(o).hd = [k \in Emitted(o) |-> o.hd[k]]
    BY DEF Normalised
  <1>2. ASSUME NEW k PROVE Value(Normalised(o), k) = Value(o, k)
    BY <1>1 DEF Value, Has
  <1>3. ASSUME NEW k \in DOMAIN o.hd
        PROVE  IF o.hd[k][2] > 0 THEN k \in DOMAIN Normalised(o).hd /\ Normalised(o).hd[k] = o.hd[k]
               ELSE k \notin DOMAIN Normalised(o).hd
    BY <1>1 DEF Emitted
  <1> QED
    BY <1>2, <1>3

LEMMA BuiltFits ==
  ASSUME NEW p \in Profiles, NEW real \in BOOLEAN, NEW r \in Reports, NEW mtu, NEW bad,
         NEW a, a = BuildAllConfigs(p, real, r, mtu, bad), a.ok
  PROVE  /\ Reported(r) =>
              /\ \A k \in DOMAIN r.num : Value(a.out, k) = Value(r, k)
              /\ \A k \in Header : IF r.hd[k][2] > 0 THEN k \in DOMAIN a.out.hd /\ a.out.hd[k] = r.hd[k]
                                   ELSE k \notin DOMAIN a.out.hd
         /\ ~SizesClash(Value(a.out, "S1"), Value(a.out, "S2"))
  <1> DEFINE q == ParamsWithServerH(p, real)
             g == GetObfuscationParams(q)
             o == Overlay(g, r)
  <1>1. q.num \in [DOMAIN q.num -> Nat] /\ DOMAIN q.num \subseteq Numbers
    BY ClientConfigAssumption DEF IsParams, ParamsWithServerH
  <1>2. /\ a.out = Normalised(o)
        /\ ~ProfileRaises(q, g) /\ ~BothRaise(o)
    <2>1. BothRaise(o) => Awg2Raises(o, mtu) /\ LegacyRaises(o)
      BY DEF Awg2Raises, LegacyRaises
    <2> HIDE DEF q, g, o
    <2>2. a = IF \/ ProfileRaises(q, g) \/ OverlayRaises(r) \/ FieldsRaise(bad)
                 \/ IF SelectAwg2(o) THEN Awg2Raises(o, mtu) ELSE LegacyRaises(o)
              THEN [ok |-> FALSE, out |-> NoParams] ELSE [ok |-> TRUE, out |-> Normalised(o)]
      BY DEF BuildAllConfigs, q, g, o
    <2> QED
      BY <2>1, <2>2
  <1> HIDE DEF q
  <1>3. /\ g = [num |-> g.num, hd |-> g.hd, i1 |-> g.i1]
        /\ g.num \in [DOMAIN g.num -> Nat] /\ {"S1", "S2"} \subseteq DOMAIN g.num
        /\ q = NoParams => g.num["S1"] = 213 /\ g.num["S2"] = 237
    BY <1>1, ProfileNumbers
  <1> HIDE DEF g
  <1>4. /\ o.num \in [DOMAIN o.num -> Nat]
        /\ \A k \in {"S1", "S2"} :
              Has(o, k) /\ o.num[k] = IF Reported(r) /\ Has(r, k) THEN r.num[k] ELSE g.num[k]
        /\ Reported(r) => /\ \A k \in DOMAIN r.num : Has(o, k) /\ o.num[k] = r.num[k]
                          /\ \A k \in Header : k \in DOMAIN o.hd /\ o.hd[k] = r.hd[k]
    BY <1>3, OverlayNumbers
  <1> HIDE DEF o
  <1>5. /\ \A k : Value(a.out, k) = Value(o, k)
        /\ \A k \in DOMAIN o.hd : IF o.hd[k][2] > 0
                                  THEN k \in DOMAIN a.out.hd /\ a.out.hd[k] = o.hd[k]
                                  ELSE k \notin DOMAIN a.out.hd
    BY <1>2, <1>4, NormalisedValues
  <1>6. ASSUME Reported(r)
        PROVE  /\ \A k \in DOMAIN r.num : Value(a.out, k) = Value(r, k)
               /\ \A k \in Header : IF r.hd[k][2] > 0 THEN k \in DOMAIN a.out.hd /\ a.out.hd[k] = r.hd[k]
                                    ELSE k \notin DOMAIN a.out.hd
    BY <1>4, <1>5, <1>6 DEF Value, Has
  <1>7. ~SizesClash(Value(o, "S1"), Value(o, "S2"))
    <2>1. ~SizesClash(g.num["S1"], g.num["S2"])
      BY <1>2, <1>3 DEF ProfileRaises, SizesClash
    <2>2. /\ o.num["S1"] \in Nat /\ o.num["S2"] \in Nat /\ g.num["S1"] \in Nat /\ g.num["S2"] \in Nat
          /\ Value(o, "S1") = o.num["S1"] /\ Value(o, "S2") = o.num["S2"]
      BY <1>3, <1>4 DEF Value, Has
    <2>3. \A k \in {"S1", "S2"} : Has(r, k) => r.num[k] \in Nat /\ Value(r, k) = r.num[k]
      BY ClientConfigAssumption DEF IsParams, Value, Has
    <2>4. /\ ~SizesClash(Value(r, "S1"), Value(r, "S2"))
          /\ Has(r, "S1") /\ Value(r, "S1") = 0 => Has(r, "S2")
      BY ClientConfigAssumption DEF IsShown
    <2>5. o.num["S1"] > 0 /\ o.num["S2"] > 0 => ~SizesClash(o.num["S1"], o.num["S2"])
      BY <1>2, <2>2 DEF BothRaise
    <2>6. CASE ~Reported(r)
      BY <1>4, <2>1, <2>2, <2>6
    <2>7. CASE Reported(r) /\ Has(r, "S1") /\ Has(r, "S2")
      BY <1>4, <2>2, <2>3, <2>4, <2>7
    <2>8. CASE Reported(r) /\ Has(r, "S1") /\ ~Has(r, "S2")
      BY <1>4, <2>2, <2>3, <2>4, <2>5, <2>8 DEF SizesClash
    <2>9. CASE Reported(r) /\ ~Has(r, "S1") /\ Has(r, "S2")
      <3>1. Value(r, "S1") = 0
        BY <2>9 DEF Value
      <3> QED
        BY <1>4, <2>2, <2>3, <2>4, <2>5, <2>9, <3>1 DEF SizesClash
    <2>10. CASE Reported(r) /\ ~Has(r, "S1") /\ ~Has(r, "S2")
      BY <1>4, <2>1, <2>2, <2>10
    <2> QED
      BY <2>6, <2>7, <2>8, <2>9, <2>10
  <1> QED
    BY <1>5, <1>6, <1>7

\* Every configuration that is handed out carries what the node reports and has sizes the
\* kernel accepts, for every profile of natural numbers and every report of an interface
\* that is up; all others are refused.
THEOREM ConfigurationsFit == ConfSpec => []ConfigFits
  <1>1. ConfInit => ConfigFits
    BY DEF ConfInit, NotAsked, ConfigFits, CarriesNodeValues, SizesAreLegal
  <1>2. AskConfig => ConfigFits'
    <2> SUFFICES ASSUME NEW p \in Profiles, NEW real \in BOOLEAN, NEW r \in Reports, NEW mtu \in Mtus,
                        NEW bad \in SUBSET Fields,
                        conf' = [asked |-> TRUE, q |-> Request(p, r, bad),
                                 a |-> BuildAllConfigs(p, real, r, mtu, bad)]
                 PROVE  ConfigFits'
      BY DEF AskConfig
    <2>1. conf'.q.report = r /\ conf'.a = BuildAllConfigs(p, real, r, mtu, bad)
      BY DEF Request
    <2> QED
      BY <2>1, BuiltFits DEF ConfigFits, CarriesNodeValues, SizesAreLegal
  <1>3. ConfigFits /\ UNCHANGED confVars => ConfigFits'
    BY DEF ConfigFits, CarriesNodeValues, SizesAreLegal, confVars
  <1> QED
    BY <1>1, <1>2, <1>3, PTL DEF ConfSpec

-----------------------------------------------------------------------------
(* The gate before issuing.                                                *)

Users == {"user", "admin"}
GatePc == {"idle", "expire", "limit", "cap", "lookup", "issue", "store", "count", "deliver", "end"}
GateRow == [pc : GatePc, n : Nat, kind : GateKind]

GateTypeOK ==
    /\ rate \in [Users -> [n : Nat, ttl : BOOLEAN]]
    /\ daily \in Nat /\ made \in Nat /\ gateFaults \in Nat
    /\ stored \subseteq Users
    /\ madeByKey \in [Users -> Nat]
    /\ gate \in [Gate -> GateRow]

\* Where a request of each endpoint can be.
PathInv ==
    \A g \in Gate :
        /\ gate[g].pc \in {"cap", "count"} => gate[g].kind = "api"
        /\ gate[g].pc \in {"lookup", "store"} => gate[g].kind # "app"

\* The steps that only move a request.
LEMMA MoveType ==
  ASSUME GateTypeOK, NEW g \in Gate, NEW pc \in GatePc, GateGoes(g, pc)
  PROVE  /\ gate' \in [Gate -> GateRow]
         /\ gate'[g].pc = pc /\ gate'[g].kind = gate[g].kind
         /\ \A h \in Gate \ {g} : gate'[h] = gate[h]
  BY DEF GateTypeOK, GateGoes, GateRow

LEMMA WhoType == /\ \A g \in Gate : GateTypeOK => gate[g].kind \in GateKind /\ W(g) \in Users
                 /\ \A k \in GateKind : Who(k) \in Users
  BY DEF GateTypeOK, GateRow, GateKind, W, Who, Users

LEMMA AdmittedTo ==
  ASSUME GateTypeOK, NEW g \in Gate
  PROVE  /\ Admitted(g) \in {"issue", "cap", "lookup"}
         /\ gate[g].kind = "app" => Admitted(g) = "issue"
         /\ gate[g].kind = "api" => Admitted(g) = "cap"
         /\ gate[g].kind = "admin" => Admitted(g) = "lookup"
  BY DEF Admitted, GateTypeOK, GateRow, GateKind

\* Where a step may take a request.
LEMMA Moves ==
  ASSUME GateTypeOK, NEW g \in Gate, GateStep(g) \/ GateFailsOpen(g) \/ GateLost(g)
  PROVE  \E pc \in GatePc : GateGoes(g, pc)
  <1>1. CASE StartWindow(g) \/ LookupKey(g) \/ CheckCap(g) \/ IssueDevice(g) \/ IssueForApp(g)
             \/ DeliverConfig(g) \/ CountDevice(g)
    BY <1>1 DEF StartWindow, LookupKey, CheckCap, IssueDevice, IssueForApp, DeliverConfig, CountDevice,
                GatePc
  <1>2. CASE CheckLimit(g) \/ GateFailsOpen(g)
    BY <1>2, AdmittedTo DEF CheckLimit, GateFailsOpen, GatePc
  <1>3. CASE StoreKey(g) \/ GateLost(g)
    BY <1>3 DEF StoreKey, GateLost, Stored, GatePc
  <1> QED
    BY <1>1, <1>2, <1>3 DEF GateStep

LEMMA CountType ==
  ASSUME GateTypeOK, NEW g \in Gate, NEW kind \in GateKind, CountRequest(g, kind)
  PROVE  /\ gate' \in [Gate -> GateRow]
         /\ rate' \in [Users -> [n : Nat, ttl : BOOLEAN]]
         /\ gate'[g].pc \in {"expire", "limit"} /\ gate'[g].kind = kind
         /\ \A h \in Gate \ {g} : gate'[h] = gate[h]
  <1> DEFINE n == rate[Who(kind)].n + 1
             r == [pc |-> IF n = 1 THEN "expire" ELSE "limit", n |-> n, kind |-> kind]
  <1>1. Who(kind) \in Users /\ rate[Who(kind)] \in [n : Nat, ttl : BOOLEAN]
    BY WhoType DEF GateTypeOK
  <1>2. n \in Nat
    BY <1>1
  <1>3. r \in GateRow /\ r.pc \in {"expire", "limit"} /\ r.kind = kind
    BY <1>2 DEF GateRow, GatePc
  <1>4. gate' = [gate EXCEPT ![g] = r] /\ rate' = [rate EXCEPT ![Who(kind)].n = n]
    BY DEF CountRequest
  <1>5. rate' \in [Users -> [n : Nat, ttl : BOOLEAN]]
    BY <1>1, <1>2, <1>4 DEF GateTypeOK
  <1> QED
    BY <1>3, <1>4, <1>5 DEF GateTypeOK

LEMMA GateTypeStep == GateTypeOK /\ [GateNext]_rateVars => GateTypeOK'
  <1> SUFFICES ASSUME GateTypeOK, [GateNext]_rateVars PROVE GateTypeOK'
    OBVIOUS
  <1>1. ASSUME NEW g \in Gate, NEW kind \in GateKind, CountRequest(g, kind) PROVE GateTypeOK'
    BY <1>1, CountType DEF CountRequest, GateTypeOK
  <1>2. ASSUME NEW g \in Gate, GateStep(g) \/ GateFailsOpen(g) \/ GateLost(g) PROVE GateTypeOK'
    <2>1. gate' \in [Gate -> GateRow]
      BY <1>2, Moves, MoveType
    <2>2. CASE StartWindow(g)
      <3>1. (rate[W(g)].n > 0) \in BOOLEAN /\ W(g) \in Users
        BY WhoType
      <3>2. rate' \in [Users -> [n : Nat, ttl : BOOLEAN]]
        BY <2>2, <3>1 DEF StartWindow, GateTypeOK
      <3> QED
        BY <2>1, <2>2, <3>2 DEF StartWindow, GateTypeOK
    <2>3. CASE IssueDevice(g)
      BY <2>1, <2>3, WhoType DEF IssueDevice, GateTypeOK
    <2>4. CASE CheckLimit(g) \/ CheckCap(g) \/ LookupKey(g) \/ IssueForApp(g) \/ DeliverConfig(g)
      BY <2>1, <2>4 DEF CheckLimit, CheckCap, LookupKey, IssueForApp, DeliverConfig, OnlyGate, GateTypeOK
    <2>5. CASE StoreKey(g) \/ CountDevice(g)
      BY <2>1, <2>5, WhoType DEF StoreKey, CountDevice, GateTypeOK
    <2>6. CASE GateFailsOpen(g) \/ GateLost(g)
      BY <2>1, <2>6 DEF GateFailsOpen, GateLost, GateFault, GateTypeOK
    <2> QED
      BY <1>2, <2>2, <2>3, <2>4, <2>5, <2>6 DEF GateStep
  <1>3. ASSUME NEW w \in Users, WindowEnds(w) PROVE GateTypeOK'
    <2>1. NoCount \in [n : Nat, ttl : BOOLEAN]
      BY DEF NoCount
    <2> QED
      BY <1>3, <2>1 DEF WindowEnds, GateTypeOK
  <1>4. CASE DayEnds
    BY <1>4 DEF DayEnds, GateTypeOK, Users
  <1>5. CASE UNCHANGED rateVars
    BY <1>5 DEF rateVars, GateTypeOK
  <1> QED
    BY <1>1, <1>2, <1>3, <1>4, <1>5 DEF GateNext, Users

LEMMA GateTypeInit == GateInit => GateTypeOK /\ PathInv
  BY DEF GateInit, GateTypeOK, PathInv, NoCount, Users, GateRow, GatePc, GateKind

-----------------------------------------------------------------------------
(* The window of the rate limit.                                           *)

LEMMA WindowStep == GateTypeOK /\ WindowIsBounded /\ [GateNext]_rateVars => WindowIsBounded'
  <1> SUFFICES ASSUME GateTypeOK, WindowIsBounded, [GateNext]_rateVars, gateFaults' = 0,
                      NEW w \in Users, rate'[w].n > 0
               PROVE  rate'[w].ttl \/ \E g \in Gate : gate'[g].pc = "expire" /\ Who(gate'[g].kind) = w
    BY DEF WindowIsBounded, Users, GateAt, W
  <1> DEFINE Held == rate[w].ttl \/ \E g \in Gate : gate[g].pc = "expire" /\ Who(gate[g].kind) = w
             Done == rate'[w].ttl \/ \E g \in Gate : gate'[g].pc = "expire" /\ Who(gate'[g].kind) = w
  <1>0. gateFaults = 0 /\ rate[w].n > 0 => Held
    BY DEF WindowIsBounded, Users, GateAt, W
  <1>1. ASSUME NEW g \in Gate, NEW kind \in GateKind, CountRequest(g, kind) PROVE Done
    <2>0. gateFaults = 0 /\ GateAt(g, "idle")
      BY <1>1 DEF CountRequest
    <2>1. CASE Who(kind) # w \/ rate[w].n > 0
      <3>1. rate[w].n > 0 /\ (rate'[w].ttl <=> rate[w].ttl)
        BY <1>1, <2>1, WhoType DEF CountRequest, GateTypeOK
      <3>2. \A h \in Gate : gate[h].pc = "expire" => gate'[h] = gate[h]
        BY <1>1, <2>0, CountType DEF GateAt
      <3> QED
        BY <1>0, <2>0, <3>1, <3>2
    <2>2. CASE Who(kind) = w /\ ~(rate[w].n > 0)
      <3>1. rate[w].n = 0
        BY <2>2 DEF GateTypeOK
      <3>2. gate'[g].pc = "expire" /\ gate'[g].kind = kind
        BY <1>1, <2>2, <3>1 DEF CountRequest, GateTypeOK
      <3> QED
        BY <2>2, <3>2
    <2> QED
      BY <2>1, <2>2
  <1>2. ASSUME NEW g \in Gate, StartWindow(g) PROVE Done
    <2>0. gateFaults = 0
      BY <1>2 DEF StartWindow
    <2>1. CASE W(g) = w
      <3>1. rate'[w].ttl <=> rate[w].n > 0
        BY <1>2, <2>1 DEF StartWindow, GateTypeOK
      <3>2. rate'[w].n = rate[w].n
        BY <1>2, <2>1 DEF StartWindow, GateTypeOK
      <3> QED
        BY <3>1, <3>2
    <2>2. CASE W(g) # w
      <3>1. rate'[w] = rate[w]
        BY <1>2, <2>2 DEF StartWindow, GateTypeOK
      <3>2. \A h \in Gate \ {g} : gate'[h] = gate[h]
        BY <1>2, MoveType DEF StartWindow, GatePc
      <3> QED
        BY <1>0, <2>0, <2>2, <3>1, <3>2 DEF W
    <2> QED
      BY <2>1, <2>2
  <1>3. ASSUME NEW g \in Gate, GateStep(g), ~StartWindow(g) PROVE Done
    <2>1. rate' = rate /\ gateFaults' = gateFaults /\ gate[g].pc # "expire"
      BY <1>3 DEF GateStep, CheckLimit, CheckCap, LookupKey, IssueDevice, IssueForApp, DeliverConfig,
                  StoreKey, CountDevice, OnlyGate, GateAt
    <2>2. \A h \in Gate \ {g} : gate'[h] = gate[h]
      BY <1>3, Moves, MoveType
    <2> QED
      BY <1>0, <2>1, <2>2
  <1>4. ASSUME NEW g \in Gate, GateFailsOpen(g) \/ GateLost(g) PROVE FALSE
    BY <1>4 DEF GateFailsOpen, GateLost, GateFault, GateTypeOK
  <1>5. ASSUME NEW v \in Users, WindowEnds(v) PROVE Done
    <2>1. v # w
      BY <1>5 DEF WindowEnds, NoCount, GateTypeOK
    <2>2. rate'[w] = rate[w] /\ gate' = gate /\ gateFaults' = gateFaults
      BY <1>5, <2>1 DEF WindowEnds, GateTypeOK
    <2> QED
      BY <1>0, <2>2
  <1>6. CASE DayEnds \/ UNCHANGED rateVars
    <2>1. rate' = rate /\ gate' = gate /\ gateFaults' = gateFaults
      BY <1>6 DEF DayEnds, rateVars
    <2> QED
      BY <1>0, <2>1
  <1> QED
    BY <1>1, <1>2, <1>3, <1>4, <1>5, <1>6 DEF GateNext, Users

\* Without a failure of Redis or a crash, no number of requests, limits and windows
\* leaves a counter without a time to live: nobody is locked out for good.
THEOREM WindowsEnd == GateSpec => []WindowIsBounded
  <1>1. GateInit => WindowIsBounded
    BY DEF GateInit, WindowIsBounded, NoCount
  <1>2. (GateTypeOK /\ WindowIsBounded) /\ [GateNext]_rateVars => (GateTypeOK /\ WindowIsBounded)'
    BY GateTypeStep, WindowStep
  <1> QED
    BY <1>1, <1>2, GateTypeInit, PTL DEF GateSpec

-----------------------------------------------------------------------------
(* The daily cap and the Idempotency-Key.                                  *)

Past == {"issue", "store", "count"}

\* As long as nothing crowds the keys, one request per endpoint is past its lookup, and
\* one request of the API past its cap.
OneInv ==
    ~crowded => \A g, h \in Gate : gate[g].kind = gate[h].kind =>
        /\ gate[g].kind # "app" /\ gate[g].pc \in Past /\ gate[h].pc \in Past => g = h
        /\ gate[g].kind = "api" /\ gate[g].pc \in Issuing /\ gate[h].pc \in Issuing => g = h

\* A device that was issued and is not counted yet belongs to a request on its way.
CapInv ==
    ~crowded =>
        /\ daily <= DailyCap /\ made <= daily + 1
        /\ made > daily => \E g \in Gate : gate[g].kind = "api" /\ gate[g].pc \in {"store", "count"}
        /\ \A g \in Gate : gate[g].kind = "api" /\ gate[g].pc \in Issuing => daily < DailyCap

\* A device issued for a key is in the cache, or its request is about to store it.
KeyInv ==
    ~crowded => \A w \in Users :
        /\ madeByKey[w] <= 1
        /\ madeByKey[w] = 1 => w \in stored \/ \E g \in Gate : HasKey(g) /\ gate[g].pc = "store" /\ W(g) = w
        /\ \A g \in Gate : HasKey(g) /\ gate[g].pc = "issue" /\ gate[g].kind # "app" /\ W(g) = w
                             => madeByKey[w] = 0

LEMMA PathStep == GateTypeOK /\ PathInv /\ [GateNext]_rateVars => PathInv'
  <1> SUFFICES ASSUME GateTypeOK, PathInv, [GateNext]_rateVars PROVE PathInv'
    OBVIOUS
  <1>1. ASSUME NEW g \in Gate, NEW kind \in GateKind, CountRequest(g, kind) PROVE PathInv'
    BY <1>1, CountType DEF PathInv
  <1>2. ASSUME NEW g \in Gate, NEW pc \in GatePc, GateGoes(g, pc),
               pc \in {"cap", "count"} => gate[g].kind = "api",
               pc \in {"lookup", "store"} => gate[g].kind # "app"
        PROVE  PathInv'
    BY <1>2, MoveType DEF PathInv
  <1>3. ASSUME NEW g \in Gate, GateStep(g) \/ GateFailsOpen(g) \/ GateLost(g) PROVE PathInv'
    <2>1. \E pc \in GatePc : /\ GateGoes(g, pc)
                             /\ pc \in {"cap", "count"} => gate[g].kind = "api"
                             /\ pc \in {"lookup", "store"} => gate[g].kind # "app"
      <3>1. CASE CheckLimit(g) \/ GateFailsOpen(g)
        BY <3>1, AdmittedTo DEF CheckLimit, GateFailsOpen, GateAt, PathInv, GatePc, GateTypeOK, GateRow, GateKind
      <3>2. CASE StartWindow(g) \/ CheckCap(g) \/ LookupKey(g) \/ IssueDevice(g) \/ IssueForApp(g)
                 \/ DeliverConfig(g) \/ CountDevice(g)
        BY <3>2 DEF StartWindow, CheckCap, LookupKey, IssueDevice, IssueForApp, DeliverConfig, CountDevice,
                    GateAt, PathInv, GatePc
      <3>3. CASE StoreKey(g) \/ GateLost(g)
        BY <3>3 DEF StoreKey, GateLost, Stored, GateAt, PathInv, GatePc
      <3> QED
        BY <1>3, <3>1, <3>2, <3>3 DEF GateStep
    <2> QED
      BY <1>2, <2>1
  <1>4. CASE DayEnds \/ UNCHANGED rateVars \/ \E w \in Users : WindowEnds(w)
    BY <1>4 DEF DayEnds, rateVars, WindowEnds, PathInv
  <1> QED
    BY <1>1, <1>3, <1>4 DEF GateNext, Users

\* What a step that does not crowd the keys does to a request.
LEMMA Uncrowded ==
  ASSUME GateTypeOK, PathInv, [GateNext]_rateVars, ~crowded'
  PROVE  /\ ~crowded
         /\ \A g \in Gate : ~GateLost(g)
         /\ \A g, h \in Gate : LookupKey(g) \/ (CheckCap(g) /\ daily < DailyCap) => ~Racing(g, h)
  <1>1. \A g \in Gate : ~GateLost(g)
    BY DEF GateLost
  <1>2. \A g, h \in Gate : LookupKey(g) \/ (CheckCap(g) /\ daily < DailyCap) => ~Racing(g, h)
    BY DEF LookupKey, CheckCap
  <1>3. ASSUME NEW g \in Gate,
               GateStep(g) \/ GateFailsOpen(g) \/ \E kind \in GateKind : CountRequest(g, kind)
        PROVE  ~crowded
    <2>1. CASE GateFailsOpen(g) \/ CheckCap(g) \/ LookupKey(g)
      BY <2>1 DEF GateFailsOpen, CheckCap, LookupKey
    <2>2. CASE crowded' = crowded
      BY <2>2
    <2> QED
      BY <1>3, <2>1, <2>2
         DEF GateStep, CountRequest, StartWindow, CheckLimit, IssueDevice, IssueForApp, DeliverConfig,
             StoreKey, CountDevice, OnlyGate
  <1>4. CASE DayEnds \/ UNCHANGED rateVars \/ \E w \in Users : WindowEnds(w)
    <2>1. crowded' = crowded
      BY <1>4 DEF DayEnds, rateVars, WindowEnds
    <2> QED
      BY <1>1, <1>2, <2>1
  <1> QED
    BY <1>1, <1>2, <1>3, <1>4 DEF GateNext, Users

\* How a request comes past its lookup, and one of the API past its cap.
LEMMA Entering ==
  ASSUME GateTypeOK, PathInv, PathInv', [GateNext]_rateVars, ~crowded', NEW g \in Gate
  PROVE  /\ gate'[g].kind = gate[g].kind \/ gate'[g].pc \in {"expire", "limit"}
         /\ gate'[g].pc \in Past /\ gate'[g].kind # "app" => gate[g].pc \in Past \/ LookupKey(g)
         /\ gate'[g].pc \in Issuing /\ gate'[g].kind = "api" =>
               gate[g].pc \in Issuing \/ (CheckCap(g) /\ daily < DailyCap)
         /\ gate'[g].pc \in Issuing /\ gate'[g].kind # "app" /\ gate[g].pc \in Past => gate'[g].pc \in Past
         /\ gate'[g].pc = gate[g].pc \/ gate[g].pc \notin {"store", "count"} \/ StoreKey(g) \/ CountDevice(g)
  <1> USE DEF Past, Issuing
  <1>1. ASSUME NEW h \in Gate, NEW kind \in GateKind, CountRequest(h, kind), g = h
        PROVE  gate'[g].pc \in {"expire", "limit"} /\ gate[g].pc = "idle"
    BY <1>1, CountType DEF CountRequest, GateAt
  <1>2. ASSUME NEW h \in Gate, g # h,
               GateStep(h) \/ GateFailsOpen(h) \/ \E kind \in GateKind : CountRequest(h, kind)
        PROVE  gate'[g] = gate[g]
    BY <1>2, CountType, Moves, MoveType
  <1>3. CASE GateStep(g) \/ GateFailsOpen(g)
    <2>1. gate'[g].kind = gate[g].kind
      BY <1>3, Moves, MoveType
    <2>2. CASE StartWindow(g) \/ DeliverConfig(g) \/ IssueForApp(g) \/ CountDevice(g)
      BY <2>1, <2>2, MoveType DEF StartWindow, DeliverConfig, IssueForApp, CountDevice, GateAt, GatePc
    <2>3. CASE CheckLimit(g) \/ GateFailsOpen(g)
      <3>1. \/ gate'[g].pc = Admitted(g) /\ gate[g].pc \notin Issuing
            \/ gate'[g].pc = "end" /\ gate[g].pc \notin Issuing
        BY <2>3, AdmittedTo, MoveType DEF CheckLimit, GateFailsOpen, GateAt, GatePc
      <3> QED
        BY <2>1, <3>1, AdmittedTo DEF GateTypeOK, GateRow, GateKind
    <2>4. CASE CheckCap(g)
      <3>1. gate[g].pc = "cap" /\ (gate'[g].pc = "end" \/ (gate'[g].pc = "lookup" /\ ~(daily >= DailyCap)))
        BY <2>4, MoveType DEF CheckCap, GateAt, GatePc
      <3> QED
        BY <2>1, <2>4, <3>1, IssueGateAssumption DEF GateTypeOK
    <2>5. CASE LookupKey(g)
      BY <2>1, <2>5, MoveType DEF LookupKey, GateAt, GatePc
    <2>6. CASE IssueDevice(g)
      BY <2>1, <2>6, MoveType DEF IssueDevice, GateAt, GatePc
    <2>7. CASE StoreKey(g)
      BY <2>1, <2>7, MoveType DEF StoreKey, Stored, GateAt, GatePc
    <2> QED
      BY <1>3, <2>2, <2>3, <2>4, <2>5, <2>6, <2>7 DEF GateStep
  <1>4. CASE DayEnds \/ UNCHANGED rateVars \/ \E w \in Users : WindowEnds(w)
    BY <1>4 DEF DayEnds, rateVars, WindowEnds
  <1> QED
    BY <1>1, <1>2, <1>3, <1>4, Uncrowded DEF GateNext, Users

LEMMA OneStep ==
  ASSUME GateTypeOK, PathInv, PathInv', OneInv, [GateNext]_rateVars
  PROVE  OneInv'
  <1> SUFFICES ASSUME ~crowded', NEW g \in Gate, NEW h \in Gate, g # h, gate'[g].kind = gate'[h].kind
               PROVE  /\ ~(gate'[g].kind # "app" /\ gate'[g].pc \in Past /\ gate'[h].pc \in Past)
                      /\ ~(gate'[g].kind = "api" /\ gate'[g].pc \in Issuing /\ gate'[h].pc \in Issuing)
    BY DEF OneInv
  <1>0. ~crowded /\ \A a, b \in Gate : LookupKey(a) \/ (CheckCap(a) /\ daily < DailyCap) => ~Racing(a, b)
    BY Uncrowded
  <1>1. ASSUME NEW a \in Gate, NEW b \in Gate, a # b, LookupKey(a) \/ CheckCap(a)
        PROVE  gate'[b] = gate[b]
    BY <1>1, Moves, MoveType DEF GateStep
  <1>2. ASSUME gate'[g].kind # "app", gate'[g].pc \in Past, gate'[h].pc \in Past PROVE FALSE
    <2>1. gate[g].kind = gate'[g].kind /\ gate[h].kind = gate'[h].kind
      BY <1>2, Entering DEF Past
    <2>2. /\ gate[g].pc \in Past \/ LookupKey(g)
          /\ gate[h].pc \in Past \/ LookupKey(h)
      BY <1>2, Entering
    <2>3. CASE gate[g].pc \in Past /\ gate[h].pc \in Past
      BY <1>0, <1>2, <2>1, <2>3 DEF OneInv
    <2>4. CASE LookupKey(g)
      BY <1>0, <1>1, <1>2, <2>1, <2>4 DEF Racing, Past, Issuing
    <2>5. CASE LookupKey(h)
      BY <1>0, <1>1, <1>2, <2>1, <2>5 DEF Racing, Past, Issuing
    <2> QED
      BY <2>2, <2>3, <2>4, <2>5
  <1>3. ASSUME gate'[g].kind = "api", gate'[g].pc \in Issuing, gate'[h].pc \in Issuing PROVE FALSE
    <2>1. gate[g].kind = gate'[g].kind /\ gate[h].kind = gate'[h].kind
      BY <1>3, Entering DEF Issuing
    <2>2. /\ gate[g].pc \in Issuing \/ (CheckCap(g) /\ daily < DailyCap)
          /\ gate[h].pc \in Issuing \/ (CheckCap(h) /\ daily < DailyCap)
      BY <1>3, Entering
    <2>3. CASE gate[g].pc \in Issuing /\ gate[h].pc \in Issuing
      BY <1>0, <1>3, <2>1, <2>3 DEF OneInv
    <2>4. CASE CheckCap(g) /\ daily < DailyCap
      BY <1>0, <1>1, <1>3, <2>1, <2>4 DEF Racing
    <2>5. CASE CheckCap(h) /\ daily < DailyCap
      BY <1>0, <1>1, <1>3, <2>1, <2>5 DEF Racing
    <2> QED
      BY <2>2, <2>3, <2>4, <2>5
  <1> QED
    BY <1>2, <1>3

LEMMA CapStep ==
  ASSUME GateTypeOK, PathInv, PathInv', OneInv, CapInv, [GateNext]_rateVars
  PROVE  CapInv'
  <1> USE IssueGateAssumption DEF GateTypeOK
  <1> SUFFICES ASSUME ~crowded' PROVE CapInv'
    BY DEF CapInv
  <1>0. ~crowded
    BY Uncrowded
  <1>1. ASSUME daily' = daily, made' = made,
               \A g \in Gate : gate[g].kind = "api" /\ gate[g].pc \in {"store", "count"} =>
                   gate'[g].kind = "api" /\ gate'[g].pc \in {"store", "count"}
        PROVE  CapInv'
    <2>1. \A g \in Gate : gate'[g].kind = "api" /\ gate'[g].pc \in Issuing => daily < DailyCap
      BY <1>0, Entering DEF CapInv, Issuing
    <2> QED
      BY <1>0, <1>1, <2>1 DEF CapInv
  <1>2. ASSUME NEW g \in Gate, CountDevice(g) PROVE CapInv'
    <2>1. gate[g].kind = "api" /\ gate[g].pc = "count" /\ daily' = daily + 1 /\ made' = made
      BY <1>2 DEF CountDevice, GateAt, PathInv
    <2>2. daily < DailyCap /\ made <= daily + 1
      BY <1>0, <2>1 DEF CapInv, Issuing
    <2>3. \A h \in Gate : ~(gate'[h].kind = "api" /\ gate'[h].pc \in Issuing)
      <3>1. gate'[g].pc = "end" /\ \A h \in Gate \ {g} : gate'[h] = gate[h]
        BY <1>2, MoveType DEF CountDevice, GatePc
      <3> QED
        BY <1>0, <2>1, <3>1 DEF OneInv, Issuing
    <2> QED
      BY <2>1, <2>2, <2>3 DEF CapInv
  <1>3. ASSUME NEW g \in Gate, IssueDevice(g), gate[g].kind = "api", GateGoes(g, "store"), made' = made + 1
        PROVE  CapInv'
    <2>1. daily' = daily /\ gate[g].pc = "issue"
      BY <1>3 DEF IssueDevice, GateAt
    <2>2. \A h \in Gate : gate[h].kind = "api" /\ gate[h].pc \in Issuing => h = g
      BY <1>0, <1>3, <2>1 DEF OneInv, Issuing
    <2>3. made <= daily /\ daily < DailyCap
      BY <1>0, <1>3, <2>1, <2>2 DEF CapInv, Issuing
    <2>4. gate'[g].pc = "store" /\ gate'[g].kind = "api"
      BY <1>3, MoveType DEF GatePc
    <2>5. daily' <= DailyCap /\ made' <= daily' + 1
      BY <1>3, <2>1, <2>3
    <2> QED
      BY <2>1, <2>3, <2>4, <2>5 DEF CapInv
  <1>4. ASSUME NEW g \in Gate, GateStep(g) \/ GateFailsOpen(g), ~CountDevice(g),
               ~(IssueDevice(g) /\ gate[g].kind = "api" /\ GateGoes(g, "store") /\ made' = made + 1)
        PROVE  CapInv'
    <2>1. daily' = daily /\ made' = made
      BY <1>4 DEF GateStep, GateFailsOpen, StartWindow, CheckLimit, CheckCap, LookupKey, IssueDevice,
                  IssueForApp, DeliverConfig, StoreKey, OnlyGate
    <2>2. \A h \in Gate \ {g} : gate'[h] = gate[h]
      BY <1>4, Moves, MoveType
    <2>3. ASSUME gate[g].kind = "api", gate[g].pc \in {"store", "count"}
          PROVE  gate'[g].kind = "api" /\ gate'[g].pc \in {"store", "count"}
      <3>1. StoreKey(g)
        BY <1>4, <2>3 DEF GateStep, GateFailsOpen, StartWindow, CheckLimit, CheckCap, LookupKey,
                          IssueDevice, IssueForApp, DeliverConfig, GateAt
      <3> QED
        BY <2>3, <3>1, MoveType DEF StoreKey, Stored, GatePc
    <2> QED
      BY <1>1, <2>1, <2>2, <2>3
  <1>5. ASSUME NEW g \in Gate, NEW kind \in GateKind, CountRequest(g, kind) PROVE CapInv'
    <2>1. daily' = daily /\ made' = made /\ gate[g].pc = "idle"
      BY <1>5 DEF CountRequest, GateAt
    <2> QED
      BY <1>1, <1>5, <2>1, CountType
  <1>6. CASE DayEnds
    <2>1. \A g \in Gate : gate'[g].pc \in {"idle", "end"}
      BY <1>6 DEF DayEnds
    <2>2. daily' = 0 /\ made' = 0
      BY <1>6 DEF DayEnds
    <2> QED
      BY <2>1, <2>2 DEF CapInv, Issuing
  <1>7. CASE UNCHANGED rateVars \/ \E w \in Users : WindowEnds(w)
    <2>1. daily' = daily /\ made' = made /\ gate' = gate
      BY <1>7 DEF rateVars, WindowEnds
    <2> QED
      BY <1>1, <2>1
  <1> QED
    BY <1>2, <1>3, <1>4, <1>5, <1>6, <1>7, Uncrowded DEF GateNext, Users

\* Whose counter a request of each endpoint is on.
LEMMA SameKind ==
  ASSUME GateTypeOK, NEW g \in Gate, NEW h \in Gate, gate[g].kind # "app", gate[h].kind # "app",
         W(g) = W(h)
  PROVE  gate[g].kind = gate[h].kind
  BY DEF GateTypeOK, GateRow, GateKind, W, Who

LEMMA KeyStep ==
  ASSUME GateTypeOK, PathInv, PathInv', OneInv, KeyInv, [GateNext]_rateVars
  PROVE  KeyInv'
  <1> USE DEF GateTypeOK
  <1> SUFFICES ASSUME ~crowded', NEW w \in Users
               PROVE  /\ madeByKey'[w] <= 1
                      /\ madeByKey'[w] = 1 => \/ w \in stored'
                                              \/ \E g \in Gate : HasKey(g) /\ gate'[g].pc = "store" /\ W(g)' = w
                      /\ \A g \in Gate : /\ HasKey(g) /\ gate'[g].pc = "issue" /\ gate'[g].kind # "app"
                                          /\ W(g)' = w
                                          => madeByKey'[w] = 0
    BY DEF KeyInv, HasKey
  <1> DEFINE Kept == /\ madeByKey'[w] <= 1
                     /\ madeByKey'[w] = 1 => \/ w \in stored'
                                             \/ \E g \in Gate : HasKey(g) /\ gate'[g].pc = "store" /\ W(g)' = w
                     /\ \A g \in Gate : /\ HasKey(g) /\ gate'[g].pc = "issue" /\ gate'[g].kind # "app"
                                         /\ W(g)' = w
                                         => madeByKey'[w] = 0
  <1>0. /\ ~crowded
        /\ madeByKey[w] \in Nat /\ madeByKey[w] <= 1
        /\ madeByKey[w] = 1 => \/ w \in stored
                               \/ \E g \in Gate : HasKey(g) /\ gate[g].pc = "store" /\ W(g) = w
        /\ \A g \in Gate : HasKey(g) /\ gate[g].pc = "issue" /\ gate[g].kind # "app" /\ W(g) = w
                             => madeByKey[w] = 0
    BY Uncrowded DEF KeyInv
  \* A request comes to issue only past a lookup that found nothing.
  <1>1. ASSUME NEW g \in Gate, LookupKey(g), HasKey(g), W(g) = w, w \notin stored PROVE madeByKey[w] = 0
    <2>1. \A h \in Gate : gate[h].pc = "store" /\ W(h) = w => FALSE
      <3>1. gate[g].pc = "lookup" /\ gate[g].kind # "app"
        BY <1>1 DEF LookupKey, GateAt, PathInv
      <3>2. ASSUME NEW h \in Gate, gate[h].pc = "store", W(h) = w PROVE FALSE
        <4>1. gate[h].kind = gate[g].kind
          BY <1>1, <3>1, <3>2, SameKind DEF PathInv
        <4>2. Racing(g, h)
          BY <3>1, <3>2, <4>1 DEF Racing, Issuing
        <4>3. ~Racing(g, h)
          BY <1>1, Uncrowded
        <4> QED
          BY <4>2, <4>3
      <3> QED
        BY <3>2
    <2> QED
      BY <1>0, <1>1, <2>1
  <1>2. ASSUME NEW g \in Gate, NEW h \in Gate, HasKey(h), gate'[h].pc = "issue", gate'[h].kind # "app",
               W(h)' = w, GateStep(g) \/ GateFailsOpen(g)
        PROVE  W(h) = w /\ (gate[h].pc = "issue" \/ (LookupKey(h) /\ w \notin stored))
    <2>1. gate'[h].kind = gate[h].kind /\ W(h) = w
      BY <1>2, Moves, MoveType DEF W
    <2>2. CASE g # h
      BY <1>2, <2>1, <2>2, Moves, MoveType
    <2>3. CASE g = h
      <3>1. CASE LookupKey(h)
        <4>1. ~(HasKey(h) /\ W(h) \in stored)
          BY <1>2, <3>1, MoveType DEF LookupKey, GatePc
        <4> QED
          BY <1>2, <2>1, <3>1, <4>1
      <3>2. CASE ~LookupKey(h)
        <4>1. gate[h].pc \in Past
          BY <1>2, <3>2, Entering DEF Past
        <4>2. gate[h].pc = "issue"
          BY <1>2, <2>3, <3>2, <4>1, MoveType
             DEF GateStep, GateFailsOpen, StartWindow, CheckLimit, CheckCap, IssueDevice, IssueForApp,
                 DeliverConfig, StoreKey, Stored, CountDevice, GateAt, Past, GatePc
        <4> QED
          BY <2>1, <4>2
      <3> QED
        BY <3>1, <3>2
    <2> QED
      BY <2>2, <2>3
  <1>3. ASSUME NEW g \in Gate, IssueDevice(g), madeByKey'[w] # madeByKey[w] PROVE Kept
    <2>1. /\ HasKey(g) /\ W(g) = w /\ GateGoes(g, "store") /\ gate[g].pc = "issue" /\ gate[g].kind # "app"
          /\ madeByKey'[w] = madeByKey[w] + 1
      BY <1>3, WhoType DEF IssueDevice, GateAt
    <2>2. madeByKey'[w] = 1
      BY <1>0, <2>1
    <2>3. gate'[g].pc = "store" /\ W(g)' = w /\ \A h \in Gate \ {g} : gate'[h] = gate[h]
      BY <2>1, MoveType DEF W, GatePc
    <2>4. ASSUME NEW h \in Gate, HasKey(h), gate'[h].pc = "issue", gate'[h].kind # "app", W(h)' = w
          PROVE  FALSE
      <3>1. h # g /\ gate[h].pc = "issue" /\ gate[h].kind # "app" /\ W(h) = w
        BY <2>3, <2>4 DEF W
      <3>2. gate[h].kind = gate[g].kind
        BY <2>1, <3>1, SameKind
      <3> QED
        BY <1>0, <2>1, <3>1, <3>2 DEF OneInv, Past
    <2> QED
      BY <2>1, <2>2, <2>3, <2>4
  <1>4. ASSUME NEW g \in Gate, GateStep(g) \/ GateFailsOpen(g), madeByKey'[w] = madeByKey[w] PROVE Kept
    <2>1. stored \subseteq stored'
      BY <1>4 DEF GateStep, GateFailsOpen, StartWindow, CheckLimit, CheckCap, LookupKey, IssueDevice,
                  IssueForApp, DeliverConfig, StoreKey, CountDevice, OnlyGate
    <2>2. ASSUME NEW h \in Gate, HasKey(h), gate[h].pc = "store", W(h) = w
          PROVE  w \in stored' \/ (gate'[h].pc = "store" /\ W(h)' = w)
      <3>1. CASE StoreKey(h)
        BY <2>2, <3>1 DEF StoreKey
      <3>2. CASE ~StoreKey(h)
        <4>1. gate'[h].pc = "store"
          BY <2>2, <3>2, Entering DEF CountDevice, GateAt
        <4>2. gate'[h].kind = gate[h].kind
          BY <1>4, Moves, MoveType
        <4> QED
          BY <2>2, <4>1, <4>2 DEF W
      <3> QED
        BY <3>1, <3>2
    <2>3. ASSUME NEW h \in Gate, HasKey(h), gate'[h].pc = "issue", gate'[h].kind # "app", W(h)' = w
          PROVE  madeByKey[w] = 0
      <3>1. W(h) = w /\ (gate[h].pc = "issue" \/ (LookupKey(h) /\ w \notin stored))
        BY <1>2, <1>4, <2>3
      <3>2. gate[h].kind # "app"
        BY <1>4, <2>3, Moves, MoveType
      <3> QED
        BY <1>0, <1>1, <2>3, <3>1, <3>2
    <2> QED
      BY <1>0, <1>4, <2>1, <2>2, <2>3
  <1>5. ASSUME NEW g \in Gate, NEW kind \in GateKind, CountRequest(g, kind) PROVE Kept
    <2>1. /\ madeByKey' = madeByKey /\ stored' = stored /\ gate[g].pc = "idle"
          /\ gate'[g].pc \notin {"issue", "store"} /\ \A h \in Gate \ {g} : gate'[h] = gate[h]
      BY <1>5, CountType DEF CountRequest, GateAt
    <2> QED
      BY <1>0, <2>1 DEF W
  <1>6. CASE DayEnds
    <2>1. madeByKey'[w] = 0
      BY <1>6 DEF DayEnds, Users
    <2> QED
      BY <2>1
  <1>7. CASE UNCHANGED rateVars \/ \E v \in Users : WindowEnds(v)
    <2>1. madeByKey' = madeByKey /\ stored' = stored /\ gate' = gate
      BY <1>7 DEF rateVars, WindowEnds
    <2> QED
      BY <1>0, <2>1 DEF W
  <1>8. ASSUME NEW g \in Gate, GateStep(g) \/ GateFailsOpen(g), ~IssueDevice(g)
        PROVE  madeByKey' = madeByKey
    BY <1>8 DEF GateStep, GateFailsOpen, StartWindow, CheckLimit, CheckCap, LookupKey,
                IssueForApp, DeliverConfig, StoreKey, CountDevice, OnlyGate
  <1>9. ASSUME NEW g \in Gate, GateStep(g) \/ GateFailsOpen(g) PROVE Kept
    BY <1>3, <1>4, <1>8, <1>9
  <1> QED
    BY <1>5, <1>6, <1>7, <1>9, Uncrowded DEF GateNext, Users

GateInv == GateTypeOK /\ PathInv /\ OneInv /\ CapInv /\ KeyInv

LEMMA GateInvHolds == GateSpec => []GateInv
  <1>1. GateInit => GateInv
    BY GateTypeInit, IssueGateAssumption
       DEF GateInit, GateInv, OneInv, CapInv, KeyInv, Past, Issuing, Users
  <1>2. GateInv /\ [GateNext]_rateVars => GateInv'
    BY GateTypeStep, PathStep, OneStep, CapStep, KeyStep DEF GateInv
  <1> QED
    BY <1>1, <1>2, PTL DEF GateSpec

\* For every cap, every limit and every number of requests: the daily cap holds unless
\* two requests of the API were past it at once or Redis failed.
THEOREM DailyCapHolds == GateSpec => []CapHolds
  <1>1. GateInv => CapHolds
    BY IssueGateAssumption DEF GateInv, CapInv, CapHolds, GateTypeOK, Issuing
  <1> QED
    BY <1>1, GateInvHolds, PTL

\* A request that is repeated with its Idempotency-Key, or its client_request_id,
\* issues no second device, under the same condition.
THEOREM KeyIssuesOnce == GateSpec => []RepeatIssuesOnce
  <1>1. GateInv => RepeatIssuesOnce
    BY DEF GateInv, KeyInv, RepeatIssuesOnce, Users
  <1> QED
    BY <1>1, GateInvHolds, PTL

\* The three promises of the gate together, for every number of requests.
THEOREM GateAlwaysHolds == GateSpec => []GateHolds
  <1>1. WindowIsBounded /\ CapHolds /\ RepeatIssuesOnce => GateHolds
    BY DEF GateHolds
  <1> QED
    BY <1>1, WindowsEnd, DailyCapHolds, KeyIssuesOnce, PTL
=============================================================================
