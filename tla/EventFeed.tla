----------------------------- MODULE EventFeed ------------------------------
(***************************************************************************)
(* The control-plane event stream: transactions add ControlPlaneEvent rows *)
(* whose created_at is the start of the transaction, and the WebSocket     *)
(* handler polls for rows at or after the last created_at it has sent,     *)
(* one page at a time, remembering the ids it has sent of that instant.    *)
(*                                                                         *)
(* A row is visible when its transaction commits.  Rows of one page that   *)
(* share their created_at come in any order.                               *)
(***************************************************************************)
EXTENDS Naturals, FiniteSets, FiniteSetsExt

CONSTANTS
    EWriters,   \* transactions that may be open at the same time
    MaxEvents,  \* events added
    MaxPerTx,   \* events of one transaction
    Page,       \* EVENTS_PAGE_SIZE
    InitialPage \* control_plane_events_ws_initial_limit

ASSUME EventFeedAssumption ==
    /\ MaxEvents \in Nat /\ MaxPerTx \in Nat \ {0}
    /\ Page \in Nat \ {0} /\ InitialPage \in Nat \ {0}

VARIABLES
    now,     \* the clock
    tx,      \* writer -> [at, events]: start and events of its transaction
    added,   \* events added so far
    rows,    \* committed events, [id, at]
    socket,  \* the connection: [open, last, ids]
    sent,    \* event -> times it was sent on this connection
    owed     \* events committed while the connection is open, ahead of its cursor

feedVars == <<now, tx, added, rows, socket, sent, owed>>

NoTx == [at |-> 0, events |-> {}]
Closed == [open |-> FALSE, last |-> 0, ids |-> {}]

FeedInit ==
    /\ now = 1 /\ tx = [w \in EWriters |-> NoTx] /\ added = 0 /\ rows = {}
    /\ socket = Closed /\ sent = [i \in 1..MaxEvents |-> 0] /\ owed = {}

-----------------------------------------------------------------------------
(* Writers: the automation cycle, throttling, migrations. *)

TxBegins(w) ==
    /\ tx[w] = NoTx /\ added < MaxEvents
    /\ tx' = [tx EXCEPT ![w].at = now]
    /\ UNCHANGED <<now, added, rows, socket, sent, owed>>

AddEvent(w) ==
    /\ tx[w] # NoTx /\ added < MaxEvents /\ Cardinality(tx[w].events) < MaxPerTx
    /\ added' = added + 1
    /\ tx' = [tx EXCEPT ![w].events = @ \cup {added + 1}]
    /\ UNCHANGED <<now, rows, socket, sent, owed>>

(* The cursor of the connection has passed the start of the transaction, for *)
(* one that started later was committed and sent before: what it commits is  *)
(* not asked for again.                                                      *)
Overtaken(w) == tx[w].at < socket.last

(* The next transaction starts at a later instant than this one. *)
Commit(w) ==
    /\ tx[w].events # {}
    /\ rows' = rows \cup {[id |-> i, at |-> tx[w].at] : i \in tx[w].events}
    /\ owed' = IF socket.open /\ ~Overtaken(w) THEN owed \cup tx[w].events ELSE owed
    /\ tx' = [tx EXCEPT ![w] = NoTx]
    /\ now' = now + 1
    /\ UNCHANGED <<added, socket, sent>>

Rollback(w) ==
    /\ tx[w].events # {}
    /\ tx' = [tx EXCEPT ![w] = NoTx]
    /\ UNCHANGED <<now, added, rows, socket, sent, owed>>

-----------------------------------------------------------------------------
(* stream_control_plane_events. *)

(* The pages a query may return: the first n of s by created_at. *)
Oldest(s, n) ==
    {p \in SUBSET s : /\ Cardinality(p) = IF Cardinality(s) < n THEN Cardinality(s) ELSE n
                      /\ \A r \in p, q \in s \ p : r.at <= q.at}

Newest(s, n) ==
    {p \in SUBSET s : /\ Cardinality(p) = IF Cardinality(s) < n THEN Cardinality(s) ELSE n
                      /\ \A r \in p, q \in s \ p : r.at >= q.at}

Ids(s) == {r.id : r \in s}

(* The cursor after the rows p have been sent. *)
Cursor(c, p) ==
    LET last == Max({c.last} \cup {r.at : r \in p})
    IN  [c EXCEPT !.last = last,
                  !.ids = Ids({r \in p : r.at = last}) \cup
                          (IF last = c.last THEN c.ids ELSE {})]

Send(p) == sent' = [i \in 1..MaxEvents |-> IF i \in Ids(p) THEN sent[i] + 1 ELSE sent[i]]

Connect ==
    /\ ~socket.open
    /\ \E p \in Newest(rows, InitialPage) :
          /\ socket' = Cursor([Closed EXCEPT !.open = TRUE], p)
          /\ Send(p)
    /\ UNCHANGED <<now, tx, added, rows, owed>>

(* Mutant: only rows after the last instant are queried. *)
AfterStrictly(c) == {r \in rows : r.at > c.last}

After(c) == {r \in rows : r.at >= c.last}

Poll ==
    /\ socket.open
    /\ \E page \in Oldest(After(socket), Page) :
          LET p == {r \in page : ~(r.at = socket.last /\ r.id \in socket.ids)}
          IN  Send(p) /\ socket' = Cursor(socket, p)
    /\ UNCHANGED <<now, tx, added, rows, owed>>

Disconnect ==
    /\ socket.open
    /\ socket' = Closed /\ sent' = [i \in 1..MaxEvents |-> 0] /\ owed' = {}
    /\ UNCHANGED <<now, tx, added, rows>>

FeedNext ==
    \/ \E w \in EWriters : TxBegins(w) \/ AddEvent(w) \/ Commit(w) \/ Rollback(w)
    \/ Connect \/ Poll \/ Disconnect

FeedSpec == FeedInit /\ [][FeedNext]_feedVars

(* The handler polls while the connection is open. *)
FeedFairSpec == FeedSpec /\ WF_feedVars(Poll)

-----------------------------------------------------------------------------
(* Properties. *)

(* No event is sent twice on one connection, although every poll asks for   *)
(* the last instant again.                                                  *)
EventSentOnce == \A i \in 1..MaxEvents : sent[i] <= 1

(* A page holds more than the events of one instant. *)
PagesFit == \A r \in rows : Cardinality({q \in rows : q.at = r.at}) < Page

(* An event committed while the console is connected reaches it or the      *)
(* connection ends, whatever commits beside it, unless a transaction that   *)
(* started later was committed and sent before its own, or a page is full   *)
(* of one instant (stream_control_plane_events asks by created_at only).    *)
EventsReach ==
    \A i \in 1..MaxEvents : []<>(sent[i] > 0 \/ i \notin owed \/ ~PagesFit)

(* An event that is owed to a connected console is sent, and sent once.     *)
EventsReachOnce == EventsReach /\ []EventSentOnce
=============================================================================
