--------------------------- MODULE NodeAgentProofs ---------------------------
(***************************************************************************)
(* The action queue: completed work was done, nothing is done twice, and no*)
(* row returns to the queue, for any number of actions, slow polls and     *)
(* crashes.  The agent's reconcile loop never cuts off a device that stayed*)
(* in the desired state and never brings back a peer it has removed: for   *)
(* any number of devices, keys, addresses and actions, any budget and any  *)
(* history of edits, faults and crashes.                                   *)
(***************************************************************************)
EXTENDS NodeAgent, TLAPS

-----------------------------------------------------------------------------
(* The action queue.                                                       *)

\* What the agent holds ties its memory to the row in the table: an action it
\* works on is running and not yet done, and a "completed" report follows the
\* work and finds the row still running.
HeldInv ==
    /\ report # "none" => held # NoAction
    /\ held # NoAction => status[held] \notin {"absent", "pending"}
    /\ Working => status[held] = "running" /\ effect[held] = 0
    /\ report = "completed" => status[held] = "running" /\ effect[held] > 0

\* A report the agent has given up on: its action is not being worked on, is
\* taken, and "completed" follows the work.
LateInv ==
    \A a \in Action, s \in Reports : <<a, s>> \in late =>
        /\ s # "none"
        /\ status[a] \notin {"absent", "pending"}
        /\ s = "completed" => effect[a] > 0
        /\ held = a => report = "failed"

\* The agent waits for a poll with empty hands, and the row that the poll has read was
\* never handed to it before: its work is not done and no report of it is on its way.
\* Polls read only rows that are there.
AskedInv ==
    /\ asked # NoAction => /\ held = NoAction
                           /\ status[asked] \in {"pending", "running"} /\ effect[asked] = 0
                           /\ \A s \in Reports : <<asked, s>> \notin late
    /\ \A a \in slow : status[a] # "absent"

\* What the rows alone say: queued work has not been done.
RowInv ==
    \A a \in Action :
        /\ status[a] \in {"absent", "pending"} => effect[a] = 0
        /\ status[a] = "completed" => effect[a] > 0
        /\ effect[a] <= 1

QueueInv == ActionsTypeOK /\ HeldInv /\ LateInv /\ AskedInv /\ RowInv

LEMMA QueueInvInit == ActionsInit => QueueInv
  BY NActionsAssumption, MaxCrashesAssumption
     DEF ActionsInit, QueueInv, ActionsTypeOK, HeldInv, LateInv, AskedInv, RowInv, Working,
         Action, NoAction, Status, Reports

\* One step per operation of the queue, the agent or the network.
LEMMA QueueInvStep == QueueInv /\ [ActionsNext]_actionVars => QueueInv'
  <1> SUFFICES ASSUME QueueInv, [ActionsNext]_actionVars PROVE QueueInv'
    OBVIOUS
  <1> USE NActionsAssumption, MaxCrashesAssumption
      DEF QueueInv, ActionsTypeOK, HeldInv, LateInv, AskedInv, RowInv, Working, Action, NoAction,
          Status, Reports
  <1>1. ASSUME NEW a \in Action, CreateAction(a) PROVE QueueInv'
    BY <1>1 DEF CreateAction
  <1>2. ASSUME NEW a \in Action, PollRead(a) PROVE QueueInv'
    BY <1>2 DEF PollRead, Idle, GetPendingAction
  <1>21. ASSUME NEW a \in Action, PollAnswered(a) PROVE QueueInv'
    <2>1. /\ held = NoAction /\ report = "none" /\ a # NoAction
          /\ status[a] # "completed" /\ effect[a] = 0
          /\ \A s \in Reports : <<a, s>> \notin late
      BY <1>21 DEF PollAnswered
    <2>2. /\ status' = [status EXCEPT ![a] = "running"] /\ held' = a /\ asked' = NoAction
          /\ UNCHANGED <<slow, report, late, effect, crashes>>
      BY <1>21 DEF PollAnswered, SetRunning
    <2>3. ActionsTypeOK' /\ HeldInv' /\ AskedInv'
      BY <2>1, <2>2
    <2>4. LateInv'
      BY <2>1, <2>2
    <2>5. RowInv'
      BY <2>1, <2>2
    <2> QED
      BY <2>3, <2>4, <2>5
  <1>22. CASE PollTimedOut
    BY <1>22 DEF PollTimedOut, GiveUp
  <1>3. ASSUME NEW a \in Action, SlowRead(a) PROVE QueueInv'
    BY <1>3 DEF SlowRead, GetPendingAction
  <1>31. ASSUME NEW a \in Action, SlowWrite(a) PROVE QueueInv'
    BY <1>31 DEF SlowWrite, SetRunning
  <1>4. CASE WorkDone
    BY <1>4 DEF WorkDone
  <1>5. CASE WorkFailed
    <2>1. held \in Action /\ effect[held] = 0 /\ asked = NoAction /\ report = "none"
      BY <1>5 DEF WorkFailed
    <2>2. /\ effect' = effect \/ effect' = [effect EXCEPT ![held] = @ + 1]
          /\ report' = "failed" /\ UNCHANGED <<status, asked, slow, held, late, crashes>>
      BY <1>5 DEF WorkFailed
    <2>3. ActionsTypeOK' /\ RowInv'
      BY <2>1, <2>2
    <2>4. HeldInv' /\ AskedInv'
      BY <2>1, <2>2
    <2>5. LateInv'
      BY <2>1, <2>2
    <2> QED
      BY <2>3, <2>4, <2>5
  <1>6. CASE ReportDelivered
    BY <1>6 DEF ReportDelivered, SetStatus
  <1>7. CASE ReportTimedOut
    BY <1>7 DEF ReportTimedOut, ReportRaised
  <1>8. ASSUME NEW a \in Action, NEW s \in Reports, LateReport(a, s) PROVE QueueInv'
    BY <1>8 DEF LateReport, SetStatus
  <1>9. CASE AgentCrash
    BY <1>9 DEF AgentCrash, InFlight, GiveUp
  <1>10. CASE UNCHANGED actionVars
    BY <1>10 DEF actionVars
  <1> QED
    BY <1>1, <1>2, <1>21, <1>22, <1>3, <1>31, <1>4, <1>5, <1>6, <1>7, <1>8, <1>9, <1>10
       DEF ActionsNext, Poll, Work, SendReport, Late

LEMMA QueueInvariant == ActionsSpec => []QueueInv
  BY QueueInvInit, QueueInvStep, PTL DEF ActionsSpec

\* Every variable keeps its type.
THEOREM ActionsTyped == ActionsSpec => []ActionsTypeOK
  <1>1. QueueInv => ActionsTypeOK
    BY DEF QueueInv
  <1> QED
    BY <1>1, QueueInvariant, PTL

\* No action is carried out twice, and a completed row's work took place on the node,
\* for every number of actions, lost messages and crashes.
THEOREM ActionsDoneOnce == ActionsSpec => []WorkIsDoneOnce
  <1>1. QueueInv => WorkIsDoneOnce
    BY DEF QueueInv, RowInv, WorkIsDoneOnce, CompletedWasDone, AtMostOnce
  <1> QED
    BY <1>1, QueueInvariant, PTL

\* No row returns to the queue; only a poll the agent had given up on makes a finished
\* row say running again, and only a report it had given up on turns a failed row into a
\* completed one.
THEOREM ActionsNotRevived == ActionsSpec => NoRevival
  <1> DEFINE Kept == \A a \in Action :
                       /\ status[a] \in {"running", "completed", "failed"}
                            => status'[a] \in {"running", "completed", "failed"}
                       /\ status[a] \in {"completed", "failed"} /\ status'[a] = "running" => a \in slow
                       /\ status[a] = "failed" /\ status'[a] = "completed"
                            => <<a, "completed">> \in late
  <1>1. QueueInv /\ [ActionsNext]_actionVars => [Kept]_actionVars
    <2> SUFFICES ASSUME QueueInv, ActionsNext PROVE Kept
      OBVIOUS
    <2> USE DEF QueueInv, ActionsTypeOK, HeldInv, LateInv, Action, NoAction, Status, Reports
    <2>1. CASE UNCHANGED status
      BY <2>1
    <2>2. ASSUME NEW a \in Action, CreateAction(a) PROVE Kept
      BY <2>2 DEF CreateAction
    <2>3. ASSUME NEW a \in Action, PollAnswered(a) \/ SlowWrite(a) PROVE Kept
      <3>1. status' = [status EXCEPT ![a] = "running"]
        BY <2>3 DEF PollAnswered, SlowWrite, SetRunning
      <3>2. status[a] # "running" => a \in slow \/ status[a] = "pending"
        BY <2>3 DEF PollAnswered, SlowWrite, AskedInv
      <3> QED
        BY <3>1, <3>2
    <2>4. ASSUME report # "none", SetStatus(held, report) PROVE Kept
      BY <2>4 DEF SetStatus
    <2>5. ASSUME NEW a \in Action, NEW s \in Reports, LateReport(a, s) PROVE Kept
      BY <2>5 DEF LateReport, SetStatus
    <2> QED
      BY <2>1, <2>2, <2>3, <2>4, <2>5
         DEF ActionsNext, Poll, PollRead, PollTimedOut, Late, SlowRead, Work, WorkDone,
             WorkFailed, SendReport, ReportDelivered, ReportTimedOut, AgentCrash
  <1> QED
    BY <1>1, QueueInvariant, PTL DEF ActionsSpec, NoRevival

-----------------------------------------------------------------------------
(* The loop.                                                               *)

Peers == Ip \cup {NoIp}

-----------------------------------------------------------------------------
(* Partial functions on keys.                                              *)

LEMMA KeyMapIntro ==
    ASSUME NEW S, NEW D \in SUBSET Key, NEW f \in [D -> S]
    PROVE  f \in KeyMap(S)
  BY DEF KeyMap

LEMMA KeyMapElim ==
    ASSUME NEW S, NEW f \in KeyMap(S)
    PROVE  /\ DOMAIN f \subseteq Key
           /\ f \in [DOMAIN f -> S]
           /\ \A k \in DOMAIN f : f[k] \in S
  <1>1. PICK D \in SUBSET Key : f \in [D -> S]
    BY DEF KeyMap
  <1> QED
    BY <1>1

LEMMA EmptyMap ==
    ASSUME NEW S
    PROVE  Empty \in KeyMap(S) /\ DOMAIN Empty = {}
  <1>1. Empty \in [{} -> S] /\ DOMAIN Empty = {}
    BY DEF Empty
  <1> QED
    BY <1>1, KeyMapIntro

LEMMA WgSetMap ==
    ASSUME NEW w \in KeyMap(Peers), NEW k \in Key, NEW ip \in Ip
    PROVE  /\ WgSet(w, k, ip) \in KeyMap(Peers)
           /\ DOMAIN WgSet(w, k, ip) = DOMAIN w \cup {k}
  <1>1. DOMAIN w \subseteq Key /\ \A j \in DOMAIN w : w[j] \in Peers
    BY KeyMapElim
  <1>2. WgSet(w, k, ip) \in [DOMAIN w \cup {k} -> Peers]
    BY <1>1 DEF WgSet, Peers
  <1> QED
    BY <1>1, <1>2, KeyMapIntro

LEMMA WgRemoveMap ==
    ASSUME NEW w \in KeyMap(Peers), NEW k \in Key
    PROVE  /\ WgRemove(w, k) \in KeyMap(Peers)
           /\ DOMAIN WgRemove(w, k) = DOMAIN w \ {k}
  <1>1. DOMAIN w \subseteq Key /\ \A j \in DOMAIN w : w[j] \in Peers
    BY KeyMapElim
  <1>2. WgRemove(w, k) \in [DOMAIN w \ {k} -> Peers]
    BY <1>1 DEF WgRemove
  <1> QED
    BY <1>1, <1>2, KeyMapIntro

-----------------------------------------------------------------------------
(* The desired state.                                                      *)

\* An issued device has a key.
KeysIssued(table) == \A d \in Device : table[d].st # "none" => table[d].key \in Key

LEMMA DesiredStateMap ==
    ASSUME NEW table \in [Device -> Row], KeysIssued(table)
    PROVE  /\ DesiredState(table) \in KeyMap(PeerSpec)
           /\ DOMAIN DesiredState(table) = DesiredKeys(table)
           /\ DesiredKeys(table) \subseteq Key
  <1>1. DesiredKeys(table) \subseteq Key
    BY DEF DesiredKeys, InDesired, KeysIssued
  <1>2. DOMAIN DesiredState(table) = DesiredKeys(table)
    BY DEF DesiredState
  <1>3. ASSUME NEW k \in DesiredKeys(table)
        PROVE  DesiredState(table)[k] \in PeerSpec
    <2> DEFINE d == CHOOSE e \in Device : InDesired(table[e]) /\ table[e].key = k
    <2>1. d \in Device
      BY <1>3 DEF DesiredKeys
    <2>2. DesiredState(table)[k] = [dev |-> d, ip |-> table[d].ip, psk |-> table[d].psk]
      BY <1>3 DEF DesiredState
    <2>3. table[d].ip \in Ip /\ table[d].psk \in BOOLEAN
      BY <2>1 DEF Row
    <2> QED
      BY <2>1, <2>2, <2>3 DEF PeerSpec
  <1>4. DesiredState(table) \in [DesiredKeys(table) -> PeerSpec]
    BY <1>3 DEF DesiredState
  <1> QED
    BY <1>1, <1>2, <1>4, KeyMapIntro

-----------------------------------------------------------------------------
(* The loop and the action queue.                                          *)

\* Every step of the loop is a step of the queue or leaves it alone.
LEMMA StepRefines == [Next]_vars => [ActionsNext]_actionVars
  <1> SUFFICES ASSUME [Next]_vars PROVE [ActionsNext]_actionVars
    OBVIOUS
  <1>1. CASE TableEdit
    BY <1>1 DEF TableEdit, Issue, Rotate, Revoke, Unrevoke, Delete, Suspend,
                Resume, ChangeIp, Edit
  <1>2. CASE Loop
    BY <1>2 DEF Loop, ReadRuntime, Fetch, FetchDesired, FetchNotDue, FetchRaised,
                StartReconcile, SkipReconcile, Mutate, SetPeer, RemovePeer,
                FinishReconcile, FinishSync, NoPoll, AskPoll, PollAction, Act, SyncFetch,
                SyncFetchRaised, RestartService, Acknowledge, Report,
                ActionsNext, Poll, Work
  <1>3. CASE NodeRestart
    BY <1>3 DEF NodeRestart
  <1>4. CASE Crash
    BY <1>4 DEF Crash, ActionsNext
  <1>5. CASE Backend
    BY <1>5 DEF Backend, ActionsNext
  <1>6. CASE UNCHANGED vars
    BY <1>6 DEF vars
  <1> QED
    BY <1>1, <1>2, <1>3, <1>4, <1>5, <1>6 DEF Next

\* The loop implements the action queue, for every value of the constants.
THEOREM LoopRefinesQueue == Spec => QueueRefined
  <1>1. Init => ActionsInit
    BY DEF Init
  <1> QED
    BY <1>1, StepRefines, PTL DEF Spec, QueueRefined, ActionsSpec

-----------------------------------------------------------------------------
(* The inductive invariant.                                                *)

\* The observers follow the table.
ObserverInv ==
    /\ KeysIssued(rows)
    /\ Key \ DesiredKeys(rows) \subseteq gone
    /\ purged \cap DesiredKeys(rows) = {}

\* What a reconcile works from and what it has still to do.
PlanInv ==
    /\ todo.rem \cap DOMAIN plan = {}
    /\ todo.add \cup todo.upd \subseteq DOMAIN plan
    /\ pc # "mutate" => todo = NoWork
    /\ pc = "mutate" => /\ Key \ DOMAIN plan \subseteq gone
                        /\ purged \cap DOMAIN plan = {}
                        /\ held = NoAction => plan = desired

\* The cached desired state: whatever it lacks was undesired since the process
\* started, and it names no purged peer, except while a sync action works from
\* a newer one.
CacheInv ==
    /\ fetched => Key \ DOMAIN desired \subseteq gone
    /\ pc \notin {"top", "fetch"} => fetched
    /\ (pc = "mutate" /\ held # NoAction) \/ purged \cap DOMAIN desired = {}
    /\ pc \in {"top", "fetch", "reconcile", "poll"} => held = NoAction
    /\ pc = "act" => held # NoAction

Inv == TypeOK /\ QueueInv /\ ObserverInv /\ PlanInv /\ CacheInv

LEMMA InvInit == Init => Inv
  <1> SUFFICES ASSUME Init PROVE Inv
    OBVIOUS
  <1>1. QueueInv
    BY QueueInvInit DEF Init
  <1>2. DesiredKeys(rows) = {}
    BY DEF Init, DesiredKeys, InDesired, NotIssued
  <1>3. NotIssued \in Row
    BY NodeAgentAssumption DEF NotIssued, Row, Ip
  <1>4. /\ Empty \in KeyMap(Ip \cup {NoIp})
        /\ Empty \in KeyMap(PeerSpec)
    BY EmptyMap
  <1>5. NoWork \in [add : SUBSET Key, upd : SUBSET Key, rem : SUBSET Key]
    BY DEF NoWork
  <1>6. TypeOK
    <2>1. rows \in [Device -> Row]
      BY <1>3 DEF Init
    <2>2. /\ keys \in 0..NKeys /\ left \in 0..MaxMutations
          /\ edits \in 0..MaxEdits /\ faults \in 0..MaxFaults
      BY NodeAgentAssumption DEF Init
    <2>3. /\ wg \in KeyMap(Ip \cup {NoIp}) /\ saved \in KeyMap(Ip \cup {NoIp})
          /\ rt \in KeyMap(Ip \cup {NoIp})
          /\ desired \in KeyMap(PeerSpec) /\ plan \in KeyMap(PeerSpec)
          /\ todo \in [add : SUBSET Key, upd : SUBSET Key, rem : SUBSET Key]
      BY <1>4, <1>5, Zenon DEF Init
    <2>4. /\ gone \in SUBSET Key /\ purged \in SUBSET Key
          /\ fetched \in BOOLEAN /\ rtOk \in BOOLEAN
          /\ pc \in {"top", "fetch", "reconcile", "mutate", "poll", "act", "report"}
      BY DEF Init
    <2> QED
      BY <1>1, <2>1, <2>2, <2>3, <2>4, Zenon DEF TypeOK, QueueInv
  <1> QED
    BY <1>1, <1>2, <1>6, EmptyMap
       DEF Init, Inv, ObserverInv, PlanInv, CacheInv, KeysIssued, NotIssued,
           NoWork, ActionsInit

\* A change of the table: the observers are updated with it, the agent's copies
\* stay as they are.
LEMMA EditStep ==
    ASSUME Inv, NEW table, Edit(table), keys' \in 0..NKeys,
           table \in [Device -> Row], KeysIssued(table)
    PROVE  Inv'
  <1>1. QueueInv'
    BY DEF Inv, Edit, QueueInv, ActionsTypeOK, HeldInv, LateInv, AskedInv, RowInv, Working, actionVars
  <1>2. TypeOK'
    BY <1>1, NodeAgentAssumption DEF Inv, TypeOK, Edit, QueueInv, actionVars, nodeVars, loopVars, reconVars
  <1>3. ObserverInv'
    BY DEF Inv, ObserverInv, Edit
  <1>4. PlanInv' /\ CacheInv'
    BY DEF Inv, PlanInv, CacheInv, Edit, loopVars, reconVars, actionVars
  <1> QED
    BY <1>1, <1>2, <1>3, <1>4 DEF Inv

LEMMA TableEditStep == Inv /\ TableEdit => Inv'
  <1> SUFFICES ASSUME Inv, TableEdit PROVE Inv'
    OBVIOUS
  <1> USE DEF Inv, TypeOK, ObserverInv, KeysIssued
  <1>1. rows \in [Device -> Row] /\ keys \in 0..NKeys /\ KeysIssued(rows)
    OBVIOUS
  <1>2. ASSUME NEW d \in Device, NEW k \in Key, Issue(d, k) PROVE Inv'
    <2>1. PICK ip \in Ip :
             Edit([rows EXCEPT ![d] = [st |-> "active", suspended |-> FALSE,
                                       key |-> k, ip |-> ip, psk |-> d \in WithPsk]])
      BY <1>2 DEF Issue
    <2>2. keys' \in 0..NKeys
      BY <1>1, <1>2, NodeAgentAssumption DEF Issue, NewKey, Key
    <2> DEFINE new == [st |-> "active", suspended |-> FALSE,
                       key |-> k, ip |-> ip, psk |-> d \in WithPsk]
               table == [rows EXCEPT ![d] = new]
    <2>3. new \in Row /\ new.key \in Key
      BY DEF Row
    <2>4. table \in [Device -> Row] /\ KeysIssued(table)
      <3> HIDE DEF new
      <3> QED
        BY <1>1, <2>3
    <2>5. Edit(table)
      BY <2>1
    <2> HIDE DEF table
    <2> QED
      BY <2>2, <2>4, <2>5, EditStep
  <1>3. ASSUME NEW d \in Device, NEW k \in Key, Rotate(d, k) PROVE Inv'
    <2>1. Edit([rows EXCEPT ![d].key = k, ![d].psk = TRUE])
      BY <1>3 DEF Rotate
    <2>2. keys' \in 0..NKeys
      BY <1>1, <1>3, NodeAgentAssumption DEF Rotate, NewKey, Key
    <2> DEFINE new == [rows[d] EXCEPT !.key = k, !.psk = TRUE]
               table == [rows EXCEPT ![d] = new]
    <2>3. new \in Row /\ new.key \in Key
      BY <1>1 DEF Row
    <2>4. table \in [Device -> Row] /\ KeysIssued(table)
      <3> HIDE DEF new
      <3> QED
        BY <1>1, <2>3
    <2>5. table = [rows EXCEPT ![d].key = k, ![d].psk = TRUE]
      BY <1>1 DEF Row
    <2>6. Edit(table)
      BY <2>1, <2>5
    <2> HIDE DEF table
    <2> QED
      BY <2>2, <2>4, <2>6, EditStep
  <1>4. ASSUME NEW d \in Device, Revoke(d) PROVE Inv'
    BY <1>1, <1>4, EditStep DEF Revoke, Row
  <1>5. ASSUME NEW d \in Device, Unrevoke(d) PROVE Inv'
    BY <1>1, <1>5, EditStep DEF Unrevoke, Row
  <1>6. ASSUME NEW d \in Device, Delete(d) PROVE Inv'
    BY <1>1, <1>6, EditStep DEF Delete, Row
  <1>7. ASSUME NEW d \in Device, Suspend(d) PROVE Inv'
    BY <1>1, <1>7, EditStep DEF Suspend, Row
  <1>8. ASSUME NEW d \in Device, Resume(d) PROVE Inv'
    BY <1>1, <1>8, EditStep DEF Resume, Row
  <1>9. ASSUME NEW d \in Device, NEW ip \in Ip, ChangeIp(d, ip) PROVE Inv'
    BY <1>1, <1>9, EditStep DEF ChangeIp, Row
  <1> QED
    BY <1>2, <1>3, <1>4, <1>5, <1>6, <1>7, <1>8, <1>9 DEF TableEdit

-----------------------------------------------------------------------------
(* The loop's steps.                                                       *)

\* The queue's part of the invariant holds after every step.
LEMMA QueueKept == Inv /\ [Next]_vars => QueueInv'
  BY StepRefines, QueueInvStep DEF Inv

\* The runtime snapshot is a copy of the interface or empty.
LEMMA ReadingStep ==
    ASSUME Inv, ReadRuntime \/ Fetch \/ SkipReconcile \/ NoPoll
    PROVE  Inv'
  <1> USE DEF Inv
  <1>1. QueueInv'
    <2>1. Next
      BY DEF Next, Loop
    <2> QED
      BY <2>1, QueueKept
  <1>2. /\ Empty \in KeyMap(Ip \cup {NoIp})
        /\ DesiredState(rows) \in KeyMap(PeerSpec)
        /\ DOMAIN DesiredState(rows) = DesiredKeys(rows)
    BY EmptyMap, DesiredStateMap DEF TypeOK, ObserverInv
  <1>3. TypeOK'
    <2>1. ActionsTypeOK'
      BY <1>1 DEF QueueInv
    <2>2. CASE FetchDesired
      <3>1. wg' \in KeyMap(Ip \cup {NoIp}) /\ faults' \in 0..MaxFaults
        BY <1>2, <2>2, NodeAgentAssumption
           DEF FetchDesired, ApplyObfuscation, Restarted, TypeOK
      <3> QED
        BY <1>2, <2>1, <2>2, <3>1 DEF TypeOK, FetchDesired, Goto, tableVars, reconVars
    <2> QED
      BY <1>2, <2>1, <2>2
         DEF TypeOK, ReadRuntime, Fetch, FetchNotDue, FetchRaised, SkipReconcile,
             NoPoll, Goto, ForgetRuntime, actionVars, tableVars, nodeVars, loopVars,
             reconVars, boundVars
  <1>4. ObserverInv'
    BY DEF ObserverInv, KeysIssued, ReadRuntime, Fetch, FetchDesired, FetchNotDue,
           FetchRaised, SkipReconcile, NoPoll, tableVars
  <1>5. PlanInv' /\ CacheInv'
    <2>1. held' = held
      BY DEF ReadRuntime, Fetch, FetchDesired, FetchNotDue, FetchRaised, SkipReconcile, NoPoll,
             PollTimedOut, actionVars
    <2> QED
      BY <1>2, <2>1 DEF ObserverInv, PlanInv, CacheInv, ReadRuntime, Fetch, FetchDesired,
           FetchNotDue, FetchRaised, SkipReconcile, NoPoll, Goto, loopVars, reconVars
  <1> QED
    BY <1>1, <1>3, <1>4, <1>5

\* The lists a reconcile starts from, with the plan it follows.
LEMMA BeginStep ==
    ASSUME TypeOK, NEW want \in KeyMap(PeerSpec), BeginReconcile(want)
    PROVE  /\ plan' = want /\ left' \in 0..MaxMutations
           /\ todo' \in [add : SUBSET Key, upd : SUBSET Key, rem : SUBSET Key]
           /\ todo'.rem \cap DOMAIN want = {}
           /\ todo'.add \cup todo'.upd \subseteq DOMAIN want
  <1>1. DOMAIN want \subseteq Key /\ DOMAIN rt \subseteq Key
    BY KeyMapElim DEF TypeOK
  <1>2. MaxMutations \in 0..MaxMutations
    BY NodeAgentAssumption
  <1> QED
    BY <1>1, <1>2 DEF BeginReconcile, ToAdd, ToUpdate, ToRemove, NoWork

LEMMA StartStep == ASSUME Inv, StartReconcile \/ SyncFetch PROVE Inv'
  <1> USE DEF Inv
  <1>1. QueueInv'
    <2>1. Next
      BY DEF Next, Loop, Act
    <2> QED
      BY <2>1, QueueKept
  <1>2. /\ DesiredState(rows) \in KeyMap(PeerSpec)
        /\ DOMAIN DesiredState(rows) = DesiredKeys(rows)
    BY DesiredStateMap DEF TypeOK, ObserverInv
  <1>3. PICK want \in KeyMap(PeerSpec) :
           /\ BeginReconcile(want)
           /\ Key \ DOMAIN want \subseteq gone
           /\ purged \cap DOMAIN want = {}
           /\ held = NoAction => want = desired
    <2>1. CASE StartReconcile
      BY <2>1 DEF StartReconcile, Goto, TypeOK, CacheInv
    <2>2. CASE SyncFetch
      BY <1>2, <2>2 DEF SyncFetch, Goto, ObserverInv, CacheInv
    <2> QED
      BY <2>1, <2>2
  <1>4. /\ plan' = want /\ left' \in 0..MaxMutations
        /\ todo' \in [add : SUBSET Key, upd : SUBSET Key, rem : SUBSET Key]
        /\ todo'.rem \cap DOMAIN want = {}
        /\ todo'.add \cup todo'.upd \subseteq DOMAIN want
    BY <1>3, BeginStep
  <1>5. /\ pc' = "mutate" /\ pc \in {"reconcile", "act"}
        /\ UNCHANGED <<actionVars, tableVars, nodeVars, loopVars, gone, purged, boundVars>>
    BY DEF StartReconcile, SyncFetch, Goto
  <1>6. TypeOK'
    BY <1>1, <1>3, <1>4, <1>5
       DEF TypeOK, QueueInv, tableVars, nodeVars, loopVars, boundVars
  <1>7. ObserverInv' /\ CacheInv'
    BY <1>5 DEF ObserverInv, KeysIssued, CacheInv, tableVars, loopVars, actionVars
  <1>8. PlanInv'
    BY <1>3, <1>4, <1>5 DEF PlanInv, loopVars, actionVars
  <1> QED
    BY <1>1, <1>6, <1>7, <1>8

\* One command of a reconcile: what it may do to the interface and the lists.
LEMMA SetPeerEffect ==
    ASSUME Inv, NEW k \in Key, SetPeer(k)
    PROVE  /\ k \in DOMAIN plan
           /\ wg' \in KeyMap(Ip \cup {NoIp})
           /\ DOMAIN wg \subseteq DOMAIN wg'
           /\ DOMAIN wg' \subseteq DOMAIN wg \cup {k}
           /\ todo' \in [add : SUBSET Key, upd : SUBSET Key, rem : SUBSET Key]
           /\ todo'.add \subseteq todo.add /\ todo'.upd \subseteq todo.upd
           /\ todo'.rem = todo.rem
           /\ left' \in 0..MaxMutations /\ faults' \in 0..MaxFaults
  <1> USE DEF Inv
  <1>1. k \in DOMAIN plan
    BY DEF SetPeer, IsNext, SetNow, PlanInv
  <1>2. plan[k].ip \in Ip
    <2>1. plan[k] \in PeerSpec
      BY <1>1, KeyMapElim DEF TypeOK
    <2> QED
      BY <2>1 DEF PeerSpec
  <1>3. wg \in KeyMap(Peers)
    BY DEF TypeOK, Peers
  <1>4. /\ WgSet(wg, k, plan[k].ip) \in KeyMap(Peers)
        /\ DOMAIN WgSet(wg, k, plan[k].ip) = DOMAIN wg \cup {k}
    BY <1>2, <1>3, WgSetMap
  <1>5. wg' = wg \/ wg' = WgSet(wg, k, plan[k].ip)
    BY DEF SetPeer
  <1>6. /\ wg' \in KeyMap(Ip \cup {NoIp})
        /\ DOMAIN wg \subseteq DOMAIN wg'
        /\ DOMAIN wg' \subseteq DOMAIN wg \cup {k}
    BY <1>3, <1>4, <1>5 DEF Peers
  <1>7. /\ todo' \in [add : SUBSET Key, upd : SUBSET Key, rem : SUBSET Key]
        /\ todo'.add \subseteq todo.add /\ todo'.upd \subseteq todo.upd
        /\ todo'.rem = todo.rem
    BY DEF SetPeer, TypeOK
  <1>8. left' \in 0..MaxMutations /\ faults' \in 0..MaxFaults
    BY NodeAgentAssumption DEF SetPeer, Succeeds, Fails, TypeOK
  <1> QED
    BY <1>1, <1>6, <1>7, <1>8

LEMMA RemovePeerEffect ==
    ASSUME Inv, NEW k \in Key, RemovePeer(k)
    PROVE  /\ k \notin DOMAIN plan
           /\ wg' \in KeyMap(Ip \cup {NoIp})
           /\ DOMAIN wg' \subseteq DOMAIN wg
           /\ DOMAIN wg \subseteq DOMAIN wg' \cup {k}
           /\ todo' \in [add : SUBSET Key, upd : SUBSET Key, rem : SUBSET Key]
           /\ todo'.add = todo.add /\ todo'.upd = todo.upd
           /\ todo'.rem \subseteq todo.rem
           /\ left' \in 0..MaxMutations /\ faults' \in 0..MaxFaults
           /\ purged \subseteq purged' /\ purged' \subseteq purged \cup {k}
           /\ purged' \cap DesiredKeys(rows) = {}
  <1> USE DEF Inv
  <1>1. k \notin DOMAIN plan
    BY DEF RemovePeer, PlanInv
  <1>2. wg \in KeyMap(Peers)
    BY DEF TypeOK, Peers
  <1>3. /\ WgRemove(wg, k) \in KeyMap(Peers)
        /\ DOMAIN WgRemove(wg, k) = DOMAIN wg \ {k}
    BY <1>2, WgRemoveMap
  <1>4. wg' = wg \/ wg' = WgRemove(wg, k)
    BY DEF RemovePeer
  <1>5. /\ wg' \in KeyMap(Ip \cup {NoIp})
        /\ DOMAIN wg' \subseteq DOMAIN wg
        /\ DOMAIN wg \subseteq DOMAIN wg' \cup {k}
    BY <1>2, <1>3, <1>4 DEF Peers
  <1>6. /\ todo' \in [add : SUBSET Key, upd : SUBSET Key, rem : SUBSET Key]
        /\ todo'.add = todo.add /\ todo'.upd = todo.upd
        /\ todo'.rem \subseteq todo.rem
    BY DEF RemovePeer, TypeOK
  <1>7. left' \in 0..MaxMutations /\ faults' \in 0..MaxFaults
    BY NodeAgentAssumption DEF RemovePeer, Succeeds, Fails, TypeOK
  <1>8. /\ purged \subseteq purged' /\ purged' \subseteq purged \cup {k}
        /\ purged' \cap DesiredKeys(rows) = {}
    BY DEF RemovePeer, ObserverInv
  <1> QED
    BY <1>1, <1>5, <1>6, <1>7, <1>8

LEMMA SetPeerStep == ASSUME Inv, NEW k \in Key, SetPeer(k) PROVE Inv'
  <1> USE DEF Inv
  <1>1. QueueInv'
    <2>1. Next
      BY DEF Next, Loop, Mutate
    <2> QED
      BY <2>1, QueueKept
  <1>2. TypeOK'
    BY <1>1, SetPeerEffect DEF TypeOK, QueueInv, SetPeer, tableVars, loopVars
  <1>3. ObserverInv'
    BY DEF ObserverInv, KeysIssued, SetPeer, tableVars
  <1>4. PlanInv' /\ CacheInv'
    BY SetPeerEffect DEF SetPeer, PlanInv, CacheInv, loopVars, actionVars
  <1> QED
    BY <1>1, <1>2, <1>3, <1>4

LEMMA RemovePeerStep == ASSUME Inv, NEW k \in Key, RemovePeer(k) PROVE Inv'
  <1> USE DEF Inv
  <1>1. QueueInv'
    <2>1. Next
      BY DEF Next, Loop, Mutate
    <2> QED
      BY <2>1, QueueKept
  <1>2. TypeOK'
    BY <1>1, RemovePeerEffect DEF TypeOK, QueueInv, RemovePeer, tableVars, loopVars
  <1>3. ObserverInv'
    BY RemovePeerEffect DEF ObserverInv, KeysIssued, RemovePeer, tableVars
  <1>4. PlanInv' /\ CacheInv'
    BY RemovePeerEffect DEF RemovePeer, PlanInv, CacheInv, loopVars, actionVars
  <1> QED
    BY <1>1, <1>2, <1>3, <1>4

\* A reconcile that ends leaves no lists; after a sync its plan is the cache.
LEMMA FinishStep == ASSUME Inv, FinishReconcile \/ FinishSync PROVE Inv'
  <1> USE DEF Inv
  <1>1. QueueInv'
    <2>1. Next
      BY DEF Next, Loop, Mutate
    <2> QED
      BY <2>1, QueueKept
  <1>2. /\ Empty \in KeyMap(PeerSpec) /\ DOMAIN Empty = {}
        /\ NoWork \in [add : SUBSET Key, upd : SUBSET Key, rem : SUBSET Key]
    BY EmptyMap DEF NoWork
  <1>3. /\ saved' \in KeyMap(Ip \cup {NoIp}) /\ faults' \in 0..MaxFaults
        /\ plan' = Empty /\ todo' = NoWork /\ left' \in 0..MaxMutations
        /\ desired' \in KeyMap(PeerSpec)
        /\ UNCHANGED <<tableVars, wg, fetched, rtOk, rt, gone, purged, edits>>
    BY NodeAgentAssumption
       DEF FinishReconcile, FinishSync, SaveConfig, ForgetLists, TypeOK, loopVars
  <1>4. TypeOK'
    BY <1>1, <1>2, <1>3 DEF TypeOK, QueueInv, FinishReconcile, FinishSync, tableVars
  <1>5. ObserverInv'
    BY <1>3 DEF ObserverInv, KeysIssued, tableVars
  <1>6. pc' # "mutate"
    BY DEF FinishReconcile, FinishSync
  <1>7. PlanInv'
    BY <1>2, <1>3, <1>6 DEF PlanInv, NoWork
  <1>8. CacheInv'
    BY <1>3 DEF PlanInv, CacheInv, FinishReconcile, FinishSync, ReconcileOver,
                WorkDone, actionVars, loopVars
  <1> QED
    BY <1>1, <1>4, <1>5, <1>7, <1>8

\* Steps that leave the table, the caches and the lists alone, outside a
\* reconcile: the agent actions, their reports and a restart of the node.
LEMMA ActionStep ==
    ASSUME Inv, (\E a \in Action : AskPoll(a) \/ PollAction(a)) \/ SyncFetchRaised
                  \/ RestartService \/ Acknowledge \/ Report
    PROVE  Inv'
  <1> USE DEF Inv
  <1>1. QueueInv'
    <2>1. Next
      BY DEF Next, Loop, Act
    <2> QED
      BY <2>1, QueueKept
  <1>2. Empty \in KeyMap(Ip \cup {NoIp})
    BY EmptyMap
  <1>3. /\ wg' \in KeyMap(Ip \cup {NoIp}) /\ faults' \in 0..MaxFaults
        /\ rtOk' \in BOOLEAN /\ rt' \in KeyMap(Ip \cup {NoIp})
        /\ pc' \in {"poll", "act", "report", "top"}
        /\ pc \in {"poll", "act", "report"}
        /\ UNCHANGED <<tableVars, saved, fetched, desired, reconVars, gone, purged, edits>>
    <2> DEFINE Quiet ==
           /\ wg' \in KeyMap(Ip \cup {NoIp}) /\ faults' \in 0..MaxFaults
           /\ rtOk' \in BOOLEAN /\ rt' \in KeyMap(Ip \cup {NoIp})
           /\ pc' \in {"poll", "act", "report", "top"}
           /\ pc \in {"poll", "act", "report"}
           /\ UNCHANGED <<tableVars, saved, fetched, desired, reconVars, gone, purged, edits>>
    <2> USE DEF TypeOK, Goto, nodeVars, loopVars, boundVars
    <2>1. ASSUME NEW a \in Action, AskPoll(a) \/ PollAction(a) PROVE Quiet
      BY <2>1 DEF AskPoll, PollAction
    <2>2. CASE SyncFetchRaised \/ Acknowledge
      BY <2>2 DEF SyncFetchRaised, Acknowledge
    <2>3. CASE RestartService
      <3>1. faults' \in 0..MaxFaults
        BY <2>3, NodeAgentAssumption DEF RestartService
      <3>2. wg' \in KeyMap(Ip \cup {NoIp})
        BY <1>2, <2>3 DEF RestartService, Restarted
      <3> QED
        BY <2>3, <3>1, <3>2 DEF RestartService
    <2>4. CASE Report
      BY <1>2, <2>4 DEF Report, ForgetRuntime
    <2> QED
      BY <2>1, <2>2, <2>3, <2>4
  <1>4. TypeOK'
    BY <1>1, <1>3 DEF TypeOK, QueueInv, tableVars, reconVars
  <1>5. ObserverInv'
    BY <1>3 DEF ObserverInv, KeysIssued, tableVars
  <1>6. PlanInv'
    BY <1>3 DEF PlanInv, reconVars
  <1>7. /\ pc' \in {"top", "poll"} => held' = NoAction
        /\ pc' = "act" => held' # NoAction
    <2>1. ASSUME NEW a \in Action, PollAction(a)
          PROVE  pc' \notin {"top", "poll"} /\ held' # NoAction
      <3>1. a # NoAction
        BY NActionsAssumption DEF Action, NoAction
      <3>2. pc' = "act" /\ held' = a
        BY <2>1, Zenon DEF PollAction, PollAnswered, Goto
      <3> QED
        BY <3>1, <3>2
    <2>11. ASSUME NEW a \in Action, AskPoll(a) PROVE pc' = "poll" /\ held' = NoAction
      BY <2>11 DEF AskPoll, PollRead, Idle
    <2>2. CASE SyncFetchRaised \/ RestartService \/ Acknowledge
      BY <2>2 DEF SyncFetchRaised, RestartService, Acknowledge, Goto
    <2>3. CASE Report
      BY <2>3 DEF Report
    <2> QED
      BY <2>1, <2>11, <2>2, <2>3
  <1>8. CacheInv'
    BY <1>3, <1>7 DEF CacheInv
  <1> QED
    BY <1>1, <1>4, <1>5, <1>6, <1>8

LEMMA OutsideStep ==
    ASSUME Inv, NodeRestart \/ Crash \/ Backend
    PROVE  Inv'
  <1> USE DEF Inv
  <1>1. QueueInv'
    <2>1. Next
      BY DEF Next
    <2> QED
      BY <2>1, QueueKept
  <1>2. /\ Empty \in KeyMap(Ip \cup {NoIp}) /\ Empty \in KeyMap(PeerSpec)
        /\ DOMAIN Empty = {}
        /\ NoWork \in [add : SUBSET Key, upd : SUBSET Key, rem : SUBSET Key]
    BY EmptyMap DEF NoWork
  <1>3. CASE NodeRestart
    <2>1. TypeOK'
      BY <1>1, <1>2, <1>3, NodeAgentAssumption
         DEF TypeOK, QueueInv, NodeRestart, Restarted, tableVars, loopVars, reconVars
    <2>2. ObserverInv' /\ PlanInv' /\ CacheInv'
      BY <1>3 DEF NodeRestart, ObserverInv, KeysIssued, PlanInv, CacheInv,
                  actionVars, tableVars, loopVars, reconVars
    <2> QED
      BY <1>1, <2>1, <2>2
  <1>4. CASE Crash
    <2>1. MaxMutations \in 0..MaxMutations
      BY NodeAgentAssumption
    <2>2. TypeOK'
      BY <1>1, <1>2, <1>4, <2>1
         DEF TypeOK, QueueInv, Crash, ForgetRuntime, ForgetLists, tableVars,
             nodeVars, boundVars
    <2>3. ObserverInv'
      BY <1>4 DEF Crash, ObserverInv, KeysIssued, tableVars
    <2>4. PlanInv' /\ CacheInv'
      BY <1>2, <1>4 DEF Crash, AgentCrash, ForgetLists, PlanInv, CacheInv, NoWork
    <2> QED
      BY <1>1, <2>2, <2>3, <2>4
  <1>5. CASE Backend
    <2>1. TypeOK'
      BY <1>1, <1>5 DEF TypeOK, QueueInv, Backend, tableVars, nodeVars, loopVars,
                        reconVars, boundVars
    <2>2. ObserverInv' /\ PlanInv' /\ CacheInv'
      BY <1>5 DEF Backend, CreateAction, Late, SlowRead, SlowWrite, LateReport, ObserverInv, KeysIssued, PlanInv, CacheInv,
                  tableVars, loopVars, reconVars
    <2> QED
      BY <1>1, <2>1, <2>2
  <1> QED
    BY <1>3, <1>4, <1>5

LEMMA InvStep == Inv /\ [Next]_vars => Inv'
  <1> SUFFICES ASSUME Inv, [Next]_vars PROVE Inv'
    OBVIOUS
  <1>1. CASE TableEdit
    BY <1>1, TableEditStep
  <1>2. CASE Loop
    BY <1>2, ReadingStep, StartStep, SetPeerStep, RemovePeerStep, FinishStep,
       ActionStep DEF Loop, Mutate, Act
  <1>3. CASE NodeRestart \/ Crash \/ Backend
    BY <1>3, OutsideStep
  <1>4. CASE UNCHANGED vars
    BY <1>4 DEF vars, actionVars, tableVars, nodeVars, loopVars, reconVars, boundVars,
                Inv, TypeOK, QueueInv, ActionsTypeOK, HeldInv, LateInv, AskedInv, RowInv, Working,
                ObserverInv, KeysIssued, PlanInv, CacheInv
  <1> QED
    BY <1>1, <1>2, <1>3, <1>4 DEF Next

LEMMA Invariant == Spec => []Inv
  BY InvInit, InvStep, PTL DEF Spec

\* Every variable keeps its type.
THEOREM LoopTyped == Spec => []TypeOK
  <1>1. Inv => TypeOK
    BY DEF Inv
  <1> QED
    BY <1>1, Invariant, PTL

\* Only commands and the end or the start of a reconcile touch the lists; the
\* latter leave the interface alone.
LEMMA ListsMove ==
    ASSUME Inv, Next, todo' # todo
    PROVE  wg' = wg \/ \E k \in Key : SetPeer(k) \/ RemovePeer(k)
  <1>1. CASE TableEdit
    BY <1>1 DEF TableEdit, Issue, Rotate, Revoke, Unrevoke, Delete, Suspend,
                Resume, ChangeIp, Edit, nodeVars
  <1>2. CASE Loop
    BY <1>2 DEF Loop, ReadRuntime, Fetch, FetchDesired, FetchNotDue, FetchRaised,
                StartReconcile, SkipReconcile, Mutate, FinishReconcile, FinishSync,
                NoPoll, AskPoll, PollAction, Act, SyncFetch, SyncFetchRaised,
                RestartService, Acknowledge, Report, nodeVars, reconVars
  <1>3. CASE NodeRestart \/ Crash \/ Backend
    BY <1>3 DEF NodeRestart, Crash, Backend, nodeVars, reconVars
  <1> QED
    BY <1>1, <1>2, <1>3 DEF Next

\* The agent cuts off only devices that were out of the desired state at some
\* time since the agent process started.
THEOREM RemovalsAreJustified == Spec => RemovalJustified
  <1> DEFINE Justified == todo' # todo => (DOMAIN wg \ DOMAIN wg') \subseteq gone
  <1>1. Inv /\ [Next]_vars => [Justified]_vars
    <2> SUFFICES ASSUME Inv, Next, todo' # todo
                 PROVE  (DOMAIN wg \ DOMAIN wg') \subseteq gone
      OBVIOUS
    <2>1. ASSUME NEW k \in Key, RemovePeer(k)
          PROVE  (DOMAIN wg \ DOMAIN wg') \subseteq gone
      <3>1. k \notin DOMAIN plan /\ DOMAIN wg \subseteq DOMAIN wg' \cup {k}
        BY <2>1, RemovePeerEffect
      <3>2. Key \ DOMAIN plan \subseteq gone
        BY <2>1 DEF Inv, PlanInv, RemovePeer
      <3> QED
        BY <3>1, <3>2
    <2>2. ASSUME NEW k \in Key, SetPeer(k)
          PROVE  (DOMAIN wg \ DOMAIN wg') \subseteq gone
      BY <2>2, SetPeerEffect
    <2> QED
      BY <2>1, <2>2, ListsMove
  <1> QED
    BY <1>1, Invariant, PTL DEF Spec, RemovalJustified

\* The agent never brings back a peer it has removed while its device stays out
\* of the desired state.
THEOREM PurgedPeersStayOut == Spec => PurgedStaysOut
  <1> DEFINE StaysOut == todo' # todo => (DOMAIN wg' \ DOMAIN wg) \cap purged = {}
  <1>1. Inv /\ [Next]_vars => [StaysOut]_vars
    <2> SUFFICES ASSUME Inv, Next, todo' # todo
                 PROVE  (DOMAIN wg' \ DOMAIN wg) \cap purged = {}
      OBVIOUS
    <2>1. ASSUME NEW k \in Key, RemovePeer(k)
          PROVE  (DOMAIN wg' \ DOMAIN wg) \cap purged = {}
      BY <2>1, RemovePeerEffect
    <2>2. ASSUME NEW k \in Key, SetPeer(k)
          PROVE  (DOMAIN wg' \ DOMAIN wg) \cap purged = {}
      <3>1. k \in DOMAIN plan /\ DOMAIN wg' \subseteq DOMAIN wg \cup {k}
        BY <2>2, SetPeerEffect
      <3>2. purged \cap DOMAIN plan = {}
        BY <2>2 DEF Inv, PlanInv, SetPeer
      <3> QED
        BY <3>1, <3>2
    <2> QED
      BY <2>1, <2>2, ListsMove
  <1> QED
    BY <1>1, Invariant, PTL DEF Spec, PurgedStaysOut
=============================================================================
