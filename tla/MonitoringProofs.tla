-------------------------- MODULE MonitoringProofs --------------------------
(***************************************************************************)
(* A scrape target outlives the rounds that miss it: MissedIsKept for      *)
(* every time to live.  The invariant behind it bounds the age of a target *)
(* in the state file by the rounds that have missed it, one more while a   *)
(* round is under way.                                                     *)
(*                                                                         *)
(* No event is sent twice on one connection of the event stream, for any   *)
(* number of writers and events and any sizes of the pages.                *)
(***************************************************************************)
EXTENDS Discovery, EventFeed, TLAPS, WellFoundedInduction

Ages ==
    /\ cliRuns \in Nat
    /\ seenAt \in [Jobs -> 0..Never]
    /\ missed \in [Jobs -> 0..Never]
    /\ targets \subseteq Jobs
    /\ runner \in [at : {"due", "state", "targets", "idle"}, found : SUBSET Jobs]

\* How far the age of a target may be ahead of the rounds that missed it.
Slack == IF runner.at = "idle" THEN 0 ELSE 1

AgeInv ==
    /\ \A j \in Jobs : missed[j] < Never => seenAt[j] <= missed[j] + Slack
    /\ runner.at = "targets" => \A j \in runner.found : seenAt[j] = 0

IInv == Ages /\ AgeInv /\ MissedIsKept

LEMMA NeverType == Never \in Nat /\ TargetTTL \in Nat /\ Never = TargetTTL + 1 /\ 0 < TargetTTL
  BY DiscoveryAssumption DEF Never

LEMMA FoundAreJobs == JobsFound \subseteq Jobs
  BY DEF JobsFound, Jobs

LEMMA InitIInv == DisInit => IInv
  BY NeverType DEF DisInit, IInv, Ages, AgeInv, MissedIsKept, Slack

LEMMA SaveStateInv == IInv /\ SaveState => IInv'
  <1> SUFFICES ASSUME IInv, SaveState PROVE IInv'
    OBVIOUS
  <1> USE NeverType DEF IInv
  <1>1. Ages'
    BY DEF SaveState, Ages, Merge
  <1>2. AgeInv'
    BY DEF SaveState, Ages, AgeInv, Slack, Merge
  <1> QED
    BY <1>1, <1>2 DEF SaveState, MissedIsKept

LEMMA WriteTargetsInv == IInv /\ WriteTargets => IInv'
  <1> SUFFICES ASSUME IInv, WriteTargets PROVE IInv'
    OBVIOUS
  <1> USE NeverType DEF IInv
  <1>1. Ages'
    BY DEF WriteTargets, Ages, WithinTTL
  <1>2. AgeInv'
    BY DEF WriteTargets, Ages, AgeInv, Slack
  <1>3. ASSUME NEW j \in Jobs, missed'[j] < TargetTTL PROVE j \in targets'
    <2>1. seenAt[j] <= TargetTTL
      BY <1>3 DEF WriteTargets, Ages, AgeInv, Slack
    <2> QED
      BY <2>1 DEF WriteTargets, WithinTTL
  <1> QED
    BY <1>1, <1>2, <1>3 DEF MissedIsKept

LEMMA NextRoundInv == IInv /\ NextRound => IInv'
  <1> SUFFICES ASSUME IInv, NextRound PROVE IInv'
    OBVIOUS
  <1> USE NeverType DEF IInv
  <1>1. Ages'
    BY DEF NextRound, Ages
  <1>2. AgeInv'
    BY DEF NextRound, Ages, AgeInv, Slack
  <1> QED
    BY <1>1, <1>2 DEF NextRound, MissedIsKept

\* The steps that touch neither the state file nor the rounds missed.
LEMMA OtherInv ==
  IInv /\ (WriteInventory \/ RunnerRestarts \/ CliRuns \/ HostMoves \/ UNCHANGED disVars) => IInv'
  <1> SUFFICES ASSUME IInv,
                      WriteInventory \/ RunnerRestarts \/ CliRuns \/ HostMoves \/ UNCHANGED disVars
               PROVE  IInv'
    OBVIOUS
  <1> USE NeverType DEF IInv
  <1>1. CASE WriteInventory
    BY <1>1, FoundAreJobs DEF WriteInventory, Ages, AgeInv, Slack, MissedIsKept
  <1>2. CASE RunnerRestarts
    BY <1>2 DEF RunnerRestarts, Ages, AgeInv, Slack, MissedIsKept
  <1>3. CASE CliRuns
    <2>1. JobsFoundByCli \subseteq Jobs
      BY FoundAreJobs DEF JobsFoundByCli, Jobs
    <2> QED
      BY <1>3, <2>1 DEF CliRuns, Ages, AgeInv, Slack, MissedIsKept
  <1>4. CASE HostMoves \/ UNCHANGED disVars
    BY <1>4 DEF HostMoves, disVars, Ages, AgeInv, Slack, MissedIsKept
  <1> QED
    BY <1>1, <1>2, <1>3, <1>4

\* For every time to live, a target is dropped only after as many finished
\* rounds have missed it, whatever restarts come between the files.
THEOREM TargetsAreKept == DisSpec => []MissedIsKept
  <1>1. IInv /\ [DisNext]_disVars => IInv'
    BY SaveStateInv, WriteTargetsInv, NextRoundInv, OtherInv DEF DisNext
  <1>2. IInv => MissedIsKept
    BY DEF IInv
  <1> QED
    BY <1>1, <1>2, InitIInv, PTL DEF DisSpec

-----------------------------------------------------------------------------
(* The event stream.                                                       *)

EventId == 1..MaxEvents

FeedTypeOK ==
    /\ now \in Nat /\ added \in Nat
    /\ tx \in [EWriters -> [at : Nat, events : SUBSET EventId]]
    /\ rows \subseteq [id : EventId, at : Nat]
    /\ socket \in [open : BOOLEAN, last : Nat, ids : SUBSET EventId]
    /\ sent \in [EventId -> Nat]

\* Nothing is dated later than the clock, and no event has a number that is still to come.
Dated ==
    /\ \A r \in rows : r.at <= now /\ r.id <= added
    /\ \A w \in EWriters : tx[w].at <= now /\ \A i \in tx[w].events : i <= added

\* An event is in one transaction or one row.
RowsUnique ==
    /\ \A r, q \in rows : r.id = q.id => r = q
    /\ \A w \in EWriters, r \in rows : r.id \notin tx[w].events
    /\ \A w, v \in EWriters : w # v => tx[w].events \cap tx[v].events = {}

\* The cursor is past the row: a poll does not send it again.
Past(c, r) == r.at < c.last \/ (r.at = c.last /\ r.id \in c.ids)

SentIsPast ==
    /\ ~socket.open => \A i \in EventId : sent[i] = 0
    /\ \A i \in EventId : sent[i] = 0 \/ (sent[i] = 1 /\ \E r \in rows : r.id = i /\ Past(socket, r))

FeedInv == FeedTypeOK /\ Dated /\ RowsUnique /\ SentIsPast

-----------------------------------------------------------------------------
\* A set of naturals that is not empty and bounded has a maximum.
LEMMA MaxOfBounded ==
  ASSUME NEW S, S \subseteq Nat, S # {}, NEW n \in Nat, \A x \in S : x <= n
  PROVE  Max(S) \in S /\ \A y \in S : y <= Max(S)
  <1> DEFINE T == {n - x : x \in S}
             R == OpToRel(<, Nat)
  <1>1. IsWellFoundedOn(R, Nat)
    BY NatLessThanWellFounded
  <1>2. \A x, y \in Nat : x < y => <<x, y>> \in R
    BY DEF OpToRel
  <1> HIDE DEF R
  <1>3. T \subseteq Nat /\ T # {}
    <2>1. \A x \in S : n - x \in Nat
      OBVIOUS
    <2> QED
      BY <2>1
  <1> HIDE DEF T
  <1>4. PICK m \in T : \A y \in T : m <= y
    <2>1. \E x \in T : \A y \in T : ~(<<y, x>> \in R)
      BY <1>1, <1>3, WFMin
    <2>2. PICK m \in T : \A y \in T : ~(<<y, m>> \in R)
      BY <2>1
    <2>3. \A y \in T : ~(y < m)
      BY <1>2, <1>3, <2>2
    <2>4. \A y \in T : m <= y
      BY <1>3, <2>3
    <2> QED
      BY <2>4
  <1> USE DEF T
  <1>5. PICK x \in S : m = n - x
    OBVIOUS
  <1>6. \A y \in S : n - y \in T
    OBVIOUS
  <1>7. \A y \in S : x >= y
    BY <1>4, <1>5, <1>6
  <1>8. Max(S) \in S /\ \A y \in S : Max(S) >= y
    BY <1>5, <1>7 DEF Max
  <1> QED
    BY <1>8

LEMMA CursorMoves ==
  ASSUME FeedTypeOK, Dated, NEW c \in [open : BOOLEAN, last : Nat, ids : SUBSET EventId],
         NEW p \in SUBSET rows
  PROVE  /\ Cursor(c, p) \in [open : BOOLEAN, last : Nat, ids : SUBSET EventId]
         /\ Cursor(c, p).open = c.open
         /\ \A r \in p : Past(Cursor(c, p), r)
         /\ \A r \in rows : Past(c, r) => Past(Cursor(c, p), r)
  <1> DEFINE S == {c.last} \cup {r.at : r \in p}
             last == Max(S)
             ids == Ids({r \in p : r.at = last}) \cup (IF last = c.last THEN c.ids ELSE {})
  <1>1. \A r \in rows : r.at \in Nat /\ r.id \in EventId /\ r.at <= now
    BY DEF FeedTypeOK, Dated
  <1>2. S \subseteq Nat /\ S # {}
    BY <1>1
  <1>3. now \in Nat /\ c.last \in Nat
    BY DEF FeedTypeOK
  <1>4. now + c.last \in Nat /\ \A x \in S : x <= now + c.last
    BY <1>1, <1>3
  <1>5. last \in S /\ \A y \in S : y <= last
    BY <1>2, <1>4, MaxOfBounded
  <1>6. last \in Nat /\ c.last <= last /\ \A r \in p : r.at <= last
    BY <1>2, <1>5
  <1> HIDE DEF last
  <1>7. ids \in SUBSET EventId
    BY <1>1 DEF Ids
  <1>8. \A r \in p : r.at = last => r.id \in ids
    BY DEF Ids
  <1>9. last = c.last => c.ids \subseteq ids
    OBVIOUS
  <1> HIDE DEF ids
  <1>10. Cursor(c, p) = [c EXCEPT !.last = last, !.ids = ids]
    BY DEF Cursor, ids, last
  <1>11. /\ Cursor(c, p) \in [open : BOOLEAN, last : Nat, ids : SUBSET EventId]
         /\ Cursor(c, p).open = c.open /\ Cursor(c, p).last = last /\ Cursor(c, p).ids = ids
    BY <1>6, <1>7, <1>10
  <1>12. \A r \in p : Past(Cursor(c, p), r)
    BY <1>1, <1>6, <1>8, <1>11 DEF Past
  <1>13. \A r \in rows : Past(c, r) => Past(Cursor(c, p), r)
    BY <1>1, <1>3, <1>6, <1>9, <1>11 DEF Past
  <1> QED
    BY <1>11, <1>12, <1>13

LEMMA FeedInitInv == FeedInit => FeedInv
  BY EventFeedAssumption DEF FeedInit, FeedInv, FeedTypeOK, Dated, RowsUnique, SentIsPast, EventId, NoTx,
     Closed

\* The rows p go out: none of them has been sent before.
LEMMA SendInv ==
  ASSUME FeedInv, NEW c \in [open : BOOLEAN, last : Nat, ids : SUBSET EventId], c.open,
         NEW p \in SUBSET rows, Send(p), socket' = Cursor(c, p), UNCHANGED <<now, tx, added, rows>>,
         \A r \in p : ~Past(c, r),
         \A i \in EventId : sent[i] = 0 \/ (sent[i] = 1 /\ \E r \in rows : r.id = i /\ Past(c, r))
  PROVE  FeedInv'
  <1>1. /\ socket' \in [open : BOOLEAN, last : Nat, ids : SUBSET EventId]
        /\ socket'.open
        /\ \A r \in p : Past(socket', r)
        /\ \A r \in rows : Past(c, r) => Past(socket', r)
    BY CursorMoves DEF FeedInv
  <1>2. sent' = [i \in EventId |-> IF i \in Ids(p) THEN sent[i] + 1 ELSE sent[i]]
    BY DEF Send, EventId
  <1>3. sent \in [EventId -> Nat]
    BY DEF FeedInv, FeedTypeOK
  <1>4. FeedTypeOK'
    BY <1>1, <1>2, <1>3 DEF FeedInv, FeedTypeOK
  <1>5. Dated' /\ RowsUnique'
    BY DEF FeedInv, Dated, RowsUnique
  <1>6. ASSUME NEW i \in EventId
        PROVE  sent'[i] = 0 \/ (sent'[i] = 1 /\ \E r \in rows : r.id = i /\ Past(socket', r))
    <2>1. CASE i \in Ids(p)
      <3>1. PICK r \in p : r.id = i
        BY <2>1 DEF Ids
      <3>2. sent[i] = 0
        BY <3>1 DEF FeedInv, RowsUnique
      <3> QED
        BY <1>1, <1>2, <2>1, <3>1, <3>2
    <2>2. CASE i \notin Ids(p)
      BY <1>1, <1>2, <2>2
    <2> QED
      BY <2>1, <2>2
  <1>7. SentIsPast'
    BY <1>1, <1>6 DEF SentIsPast
  <1> QED
    BY <1>4, <1>5, <1>7 DEF FeedInv

LEMMA ConnectInv == FeedInv /\ Connect => FeedInv'
  <1> SUFFICES ASSUME FeedInv, Connect PROVE FeedInv'
    OBVIOUS
  <1> DEFINE c == [Closed EXCEPT !.open = TRUE]
  <1>1. PICK p \in SUBSET rows : socket' = Cursor(c, p) /\ Send(p)
    BY DEF Connect, Newest
  <1>2. c \in [open : BOOLEAN, last : Nat, ids : SUBSET EventId] /\ c.open /\ c.last = 0 /\ c.ids = {}
    BY DEF Closed
  <1> HIDE DEF c
  <1>3. \A r \in p : r.at \in Nat
    BY DEF FeedInv, FeedTypeOK
  <1>4. \A r \in p : ~Past(c, r)
    BY <1>2, <1>3 DEF Past
  <1>5. \A i \in EventId : sent[i] = 0
    BY DEF Connect, FeedInv, SentIsPast
  <1> QED
    BY <1>1, <1>2, <1>4, <1>5, SendInv DEF Connect

LEMMA PollInv == FeedInv /\ Poll => FeedInv'
  <1> SUFFICES ASSUME FeedInv, Poll PROVE FeedInv'
    OBVIOUS
  <1>1. PICK page \in Oldest(After(socket), Page) :
            /\ Send({r \in page : ~(r.at = socket.last /\ r.id \in socket.ids)})
            /\ socket' = Cursor(socket, {r \in page : ~(r.at = socket.last /\ r.id \in socket.ids)})
    BY DEF Poll
  <1> DEFINE p == {r \in page : ~(r.at = socket.last /\ r.id \in socket.ids)}
  <1>2. p \in SUBSET rows /\ \A r \in p : r.at >= socket.last
    BY DEF Oldest, After
  <1>3. socket \in [open : BOOLEAN, last : Nat, ids : SUBSET EventId]
    BY DEF FeedInv, FeedTypeOK
  <1>4. \A r \in p : r.at \in Nat
    BY <1>2 DEF FeedInv, FeedTypeOK
  <1>5. \A r \in p : ~Past(socket, r)
    BY <1>2, <1>3, <1>4 DEF Past
  <1>6. Send(p) /\ socket' = Cursor(socket, p)
    BY <1>1
  <1> HIDE DEF p
  <1>7. socket.open /\ UNCHANGED <<now, tx, added, rows>>
    BY DEF Poll
  <1>8. \A i \in EventId : sent[i] = 0 \/ (sent[i] = 1 /\ \E r \in rows : r.id = i /\ Past(socket, r))
    BY DEF FeedInv, SentIsPast
  <1> QED
    BY <1>2, <1>3, <1>5, <1>6, <1>7, <1>8, SendInv

LEMMA WriterInv ==
  ASSUME FeedInv, NEW w \in EWriters, TxBegins(w) \/ AddEvent(w) \/ Commit(w) \/ Rollback(w)
  PROVE  FeedInv'
  <1>1. CASE TxBegins(w)
    BY <1>1 DEF TxBegins, NoTx, FeedInv, FeedTypeOK, Dated, RowsUnique, SentIsPast
  <1>2. CASE AddEvent(w)
    <2>1. /\ now \in Nat /\ added \in 0..MaxEvents /\ MaxEvents \in Nat /\ rows' = rows
          /\ added' = added + 1 /\ added < MaxEvents
          /\ tx' = [tx EXCEPT ![w].events = @ \cup {added + 1}]
          /\ UNCHANGED <<now, rows, socket, sent>>
      BY <1>2, EventFeedAssumption DEF AddEvent, FeedInv, FeedTypeOK
    <2>2. /\ \A v \in EWriters : tx'[v].at = tx[v].at
          /\ \A v \in EWriters : tx'[v].events = IF v = w THEN tx[v].events \cup {added + 1} ELSE tx[v].events
      BY <2>1 DEF FeedInv, FeedTypeOK
    <2>3. FeedTypeOK'
      <3>1. added + 1 \in EventId
        BY <2>1 DEF EventId
      <3> QED
        BY <2>1, <3>1 DEF FeedInv, FeedTypeOK
    <2>4. /\ \A r \in rows : r.id \in Int /\ r.id <= added
          /\ \A v \in EWriters : \A i \in tx[v].events : i \in Int /\ i <= added
      BY DEF FeedInv, FeedTypeOK, Dated, EventId
    <2>5. Dated'
      BY <2>1, <2>2, <2>4 DEF FeedInv, Dated
    <2>6. RowsUnique'
      BY <2>1, <2>2, <2>4 DEF FeedInv, RowsUnique
    <2>7. SentIsPast'
      BY <2>1 DEF FeedInv, SentIsPast
    <2> QED
      BY <2>3, <2>5, <2>6, <2>7 DEF FeedInv
  <1>3. CASE Commit(w)
    <2>1. /\ rows' = rows \cup {[id |-> i, at |-> tx[w].at] : i \in tx[w].events}
          /\ tx' = [tx EXCEPT ![w] = NoTx] /\ now' = now + 1
          /\ UNCHANGED <<added, socket, sent>>
      BY <1>3 DEF Commit
    <2>2. FeedTypeOK'
      BY <2>1 DEF NoTx, FeedInv, FeedTypeOK
    <2>3. Dated'
      BY <2>1 DEF NoTx, FeedInv, FeedTypeOK, Dated
    <2>4. RowsUnique'
      BY <2>1 DEF NoTx, FeedInv, FeedTypeOK, RowsUnique
    <2>5. SentIsPast'
      BY <2>1 DEF FeedInv, FeedTypeOK, SentIsPast
    <2> QED
      BY <2>2, <2>3, <2>4, <2>5 DEF FeedInv
  <1>4. CASE Rollback(w)
    BY <1>4 DEF Rollback, NoTx, FeedInv, FeedTypeOK, Dated, RowsUnique, SentIsPast
  <1> QED
    BY <1>1, <1>2, <1>3, <1>4

LEMMA FeedStepInv == FeedInv /\ [FeedNext]_feedVars => FeedInv'
  <1> SUFFICES ASSUME FeedInv, [FeedNext]_feedVars PROVE FeedInv'
    OBVIOUS
  <1>1. CASE Disconnect
    BY <1>1 DEF Disconnect, Closed, FeedInv, FeedTypeOK, Dated, RowsUnique, SentIsPast, EventId
  <1>2. CASE UNCHANGED feedVars
    BY <1>2 DEF feedVars, FeedInv, FeedTypeOK, Dated, RowsUnique, SentIsPast
  <1> QED
    BY <1>1, <1>2, WriterInv, ConnectInv, PollInv DEF FeedNext

\* No event is sent twice on one connection, although every poll asks for the last instant
\* again: for any number of writers whose transactions overlap and commit in any order, any
\* number of events of one instant and any sizes of the pages.
THEOREM EventsAreSentOnce == FeedSpec => []EventSentOnce
  <1>1. FeedInv => EventSentOnce
    BY DEF FeedInv, FeedTypeOK, SentIsPast, EventSentOnce, EventId
  <1> QED
    BY <1>1, FeedInitInv, FeedStepInv, PTL DEF FeedSpec
=============================================================================
