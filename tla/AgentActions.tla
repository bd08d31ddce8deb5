---------------------------- MODULE AgentActions ----------------------------
(***************************************************************************)
(* The agent action queue of one server: rows of agent_actions created by  *)
(* the admin API, handed to the node agent by the poll endpoint, executed  *)
(* by the agent and closed by the report endpoint.  An HTTP exchange that   *)
(* fails at the agent may be handled by the control plane all the same, at *)
(* once, later or never.                                                   *)
(*                                                                         *)
(* Actions are numbered in the order of requested_at.  `effect` is an      *)
(* observer: how often the work of an action was really carried out on the *)
(* node (a docker restart that times out may have taken place).            *)
(***************************************************************************)
EXTENDS Naturals

CONSTANTS NActions,     \* how many actions are ever requested
          MaxCrashes    \* how often the agent process dies

ASSUME NActionsAssumption == NActions \in Nat
ASSUME MaxCrashesAssumption == MaxCrashes \in Nat

VARIABLES status,   \* agent_actions.status per action
          asked,    \* the row that the poll the agent waits for has read, or NoAction
          slow,     \* rows read by polls the agent has given up on, which may still
                    \*   write; a row stays, for several polls may have read it
          held,     \* the action the agent is working on, or NoAction
          report,   \* the report the agent is about to send, or "none"
          late,     \* reports that failed at the agent and may still be handled
          effect,   \* observer: times the action's work took place
          crashes   \* bound on AgentCrash

actionVars == <<status, asked, slow, held, report, late, effect, crashes>>

Action == 1..NActions
NoAction == 0

\* A row that is not there yet has status "absent".
Status == {"absent", "pending", "running", "completed", "failed"}
Reports == {"none", "completed", "failed"}

\* The types of the table, of what the agent holds and of the reports on their way; a
\* status is one that the poll and the report endpoints know.
ActionsTypeOK ==
    /\ status \in [Action -> Status]
    /\ asked \in Action \cup {NoAction}
    /\ slow \in SUBSET Action
    /\ held \in Action \cup {NoAction}
    /\ report \in Reports
    /\ late \in SUBSET (Action \X Reports)
    /\ effect \in [Action -> Nat]
    /\ crashes \in 0..MaxCrashes

ActionsInit ==
    /\ status = [a \in Action |-> "absent"]
    /\ asked = NoAction /\ slow = {}
    /\ held = NoAction
    /\ report = "none"
    /\ late = {}
    /\ effect = [a \in Action |-> 0]
    /\ crashes = 0

-----------------------------------------------------------------------------
(* Control plane.                                                          *)

\* create_server_action, reconcile_device and the failed reissue all insert
\* one pending row and commit.
CreateAction(a) ==
    /\ status[a] = "absent"
    /\ \A b \in 1..(a - 1) : status[b] # "absent"
    /\ status' = [status EXCEPT ![a] = "pending"]
    /\ UNCHANGED <<asked, slow, held, report, late, effect, crashes>>

\* Mutant: nothing is handed out while a row is running.
GetPendingWhenNoneRuns(a) ==
    /\ status[a] = "pending"
    /\ \A b \in Action : status[b] # "running"
    /\ \A b \in 1..(a - 1) : status[b] # "pending"

\* get_pending_action: the oldest pending row.
GetPendingAction(a) ==
    /\ status[a] = "pending"
    /\ \A b \in 1..(a - 1) : status[b] # "pending"

\* The poll handler then marks the row it has read running, whatever it says by now,
\* and commits before it answers.
SetRunning(a) == status' = [status EXCEPT ![a] = "running"]

\* The report handler writes the reported status whatever the row says now.
SetStatus(a, s) == status' = [status EXCEPT ![a] = s]

-----------------------------------------------------------------------------
(* Node agent.                                                             *)

Idle == held = NoAction /\ asked = NoAction

\* The handler of the agent's poll reads the row, without a lock.
PollRead(a) ==
    /\ Idle
    /\ GetPendingAction(a)
    /\ asked' = a
    /\ UNCHANGED <<status, slow, held, report, late, effect, crashes>>

PollAnswered(a) ==
    /\ asked = a
    /\ SetRunning(a)
    /\ asked' = NoAction
    /\ held' = a
    /\ UNCHANGED <<slow, report, late, effect, crashes>>

\* The rows of the polls that were given up, and of the one given up now.
GiveUp == slow' = slow \cup ({asked} \ {NoAction}) /\ asked' = NoAction

PollTimedOut ==
    /\ asked # NoAction
    /\ GiveUp
    /\ UNCHANGED <<status, held, report, late, effect, crashes>>

\* A poll that timed out at the agent is handled only now.
SlowRead(a) ==
    /\ GetPendingAction(a)
    /\ slow' = slow \cup {a}
    /\ UNCHANGED <<status, asked, held, report, late, effect, crashes>>

\* A poll that timed out at the agent writes the row it has read: the action is
\* handed to nobody, and one that another poll handed out says running again.
SlowWrite(a) ==
    /\ a \in slow
    /\ SetRunning(a)
    /\ UNCHANGED <<asked, slow, held, report, late, effect, crashes>>

Working == held # NoAction /\ report = "none"

WorkDone ==
    /\ Working
    /\ effect' = [effect EXCEPT ![held] = @ + 1]
    /\ report' = "completed"
    /\ UNCHANGED <<status, asked, slow, held, late, crashes>>

\* The command failed, or timed out and took place all the same.
WorkFailed ==
    /\ Working
    /\ \/ UNCHANGED effect
       \/ effect' = [effect EXCEPT ![held] = @ + 1]
    /\ report' = "failed"
    /\ UNCHANGED <<status, asked, slow, held, late, crashes>>

ReportDelivered ==
    /\ report # "none"
    /\ SetStatus(held, report)
    /\ held' = NoAction
    /\ report' = "none"
    /\ UNCHANGED <<asked, slow, late, effect, crashes>>

\* _actions_report raised: a "completed" report is followed by one try to
\* report "failed"; when that raises too, the agent drops the action.
ReportRaised ==
    IF report = "completed"
    THEN report' = "failed" /\ UNCHANGED held
    ELSE report' = "none" /\ held' = NoAction

\* Mutant: a report that failed makes the agent run the action again.
ReportFailureRetriesWork ==
    /\ report # "none"
    /\ late' = late \cup {<<held, report>>}
    /\ report' = "none"
    /\ UNCHANGED <<status, asked, slow, held, effect, crashes>>

ReportTimedOut ==
    /\ report # "none"
    /\ late' = late \cup {<<held, report>>}
    /\ ReportRaised
    /\ UNCHANGED <<status, asked, slow, effect, crashes>>

\* The control plane handles a report the agent has given up on.
LateReport(a, s) ==
    /\ <<a, s>> \in late
    /\ SetStatus(a, s)
    /\ late' = late \ {<<a, s>>}
    /\ UNCHANGED <<asked, slow, held, report, effect, crashes>>

\* A report on its way when the process dies.
InFlight == IF report = "none" THEN {} ELSE {<<held, report>>}

\* The agent keeps the action it works on in memory only.
AgentCrash ==
    /\ crashes < MaxCrashes
    /\ GiveUp
    /\ held' = NoAction
    /\ report' = "none"
    /\ late' = late \cup InFlight
    /\ crashes' = crashes + 1
    /\ UNCHANGED <<status, effect>>

-----------------------------------------------------------------------------
Poll == (\E a \in Action : PollRead(a) \/ PollAnswered(a)) \/ PollTimedOut
Work == WorkDone \/ WorkFailed
SendReport == ReportDelivered \/ ReportTimedOut
Late == \E a \in Action : SlowRead(a) \/ SlowWrite(a) \/ \E s \in Reports : LateReport(a, s)

ActionsNext ==
    \/ \E a \in Action : CreateAction(a)
    \/ Poll
    \/ Work
    \/ SendReport
    \/ Late
    \/ AgentCrash

ActionsSpec == ActionsInit /\ [][ActionsNext]_actionVars

\* The agent's loop polls again and again while it is idle, and now and then a poll is
\* answered; it finishes the handler it is in and sends the report; nothing promises
\* that a report arrives, that a slow poll is handled or that an admin requests anything.
ActionsFairSpec ==
    /\ ActionsSpec
    /\ WF_actionVars(\E a \in Action : PollRead(a))
    /\ SF_actionVars(\E a \in Action : PollAnswered(a))
    /\ WF_actionVars(Work)
    /\ WF_actionVars(SendReport)

-----------------------------------------------------------------------------
(* Properties.                                                             *)

\* A row says "completed" only when its work took place on the node: the
\* agent reports "completed" after the work, and no other path writes it.
CompletedWasDone ==
    \A a \in Action : status[a] = "completed" => effect[a] > 0

\* An action is carried out at most once, however often answers and reports
\* are lost, polls are handled late and the agent restarts: the agent works only on the
\* answer of a poll it waits for, and the rows such a poll finds pending were never
\* handed to it.
AtMostOnce == \A a \in Action : effect[a] <= 1

\* Once an action is handed out it never goes back to the queue; a finished row says
\* "running" again only by a poll that the agent had given up on and that read the row
\* while it was pending; and a failed row turns into a completed one only by a report
\* the agent had given up on: both endpoints write what they are told, but the second
\* report the agent sends for an action is always "failed".
NoRevival ==
    [][\A a \in Action :
          /\ status[a] \in {"running", "completed", "failed"}
                => status'[a] \in {"running", "completed", "failed"}
          /\ status[a] \in {"completed", "failed"} /\ status'[a] = "running" => a \in slow
          /\ status[a] = "failed" /\ status'[a] = "completed"
                => <<a, "completed">> \in late]_actionVars

\* Every requested action is handed out or at least taken off the queue, also
\* behind actions whose answer or report was lost: a lost exchange blocks only
\* its own action.
PendingIsTaken ==
    \A a \in Action : []<>(status[a] # "pending")

\* The agent's side and the table agree: no work is done twice, and a completed row
\* stands for work that took place, after any loss, delay and crash.
WorkIsDoneOnce == CompletedWasDone /\ AtMostOnce
=============================================================================
