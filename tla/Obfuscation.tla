----------------------------- MODULE Obfuscation -----------------------------
(***************************************************************************)
(* The obfuscation parameters (H1-H4 and with them S1, S2, Jc...) of one   *)
(* server in agent mode.  They are in four places: the server's row, the   *)
(* env file of the node, the interface that runs, and the last heartbeat.  *)
(* A rotation writes the row and queues an action; the agent carries the   *)
(* action and the desired state to the env file and restarts the           *)
(* container; and every request that issues a configuration takes the      *)
(* values of the heartbeat and writes them to the row.  A set of           *)
(* parameters is a number, 0 is none.                                      *)
(***************************************************************************)
EXTENDS Naturals, Sequences

CONSTANTS NIssues,       \* bound: requests that issue or reissue a configuration
          MaxRotations,  \* bound: rotations by an admin
          MaxObfFaults   \* bound: restarts that fail

NoH == 0
Issue == 1..NIssues

ASSUME ObfuscationAssumption ==
    NIssues \in Nat /\ MaxRotations \in Nat /\ MaxObfFaults \in Nat

VARIABLES
    hRow,      \* servers.amnezia_h1..h4
    hEnv,      \* AWG_* of the node's env file
    hLive,     \* what the interface runs with
    hBeat,     \* obfuscation of the heartbeat in Redis
    hActs,     \* queued apply_obfuscation_h actions
    hAgent,    \* the agent's loop: where it is and the values it has fetched
    issue,     \* the requests
    rotated,   \* observer: the values of the last rotation
    halfway,   \* observer: a restart failed and none has come after it
    rotations, obfFaults

obfNode == <<hEnv, hLive, halfway, obfFaults>>
adminVars == <<hRow, hActs, rotated, rotations>>
obfVars == <<obfNode, adminVars, hBeat, hAgent, issue>>

IdleIssue == [pc |-> "idle", seen |-> NoH, got |-> NoH]

ObfInit ==
    /\ hRow \in {NoH, 1} /\ hEnv = 1 /\ hLive = 1 /\ hBeat = NoH
    /\ hActs = <<>>
    /\ hAgent = [pc |-> "beat", want |-> NoH]
    /\ issue = [i \in Issue |-> IdleIssue]
    /\ rotated = NoH /\ halfway = FALSE /\ rotations = 0 /\ obfFaults = 0

-----------------------------------------------------------------------------
(* The agent's loop.                                                       *)

AgentGoes(from, to, want) == hAgent.pc = from /\ hAgent' = [pc |-> to, want |-> want]

\* A heartbeat that is due carries what `wg show` prints, or nothing when the
\* container does not answer.
Heartbeat ==
    /\ AgentGoes("beat", "fetch", NoH)
    /\ hBeat' \in {hLive, hBeat, NoH}
    /\ UNCHANGED <<obfNode, adminVars, issue>>

\* GET /agent/desired-state: the parameters are in it when the row has all of them.
FetchParameters ==
    /\ AgentGoes("fetch", IF hRow = NoH THEN "poll" ELSE "apply", hRow)
    /\ UNCHANGED <<obfNode, adminVars, hBeat, issue>>

\* The fetch is not due, or the container did not answer.
FetchSkipped ==
    /\ AgentGoes("fetch", "poll", NoH)
    /\ UNCHANGED <<obfNode, adminVars, hBeat, issue>>

\* docker restart: the entrypoint reads the env file.
Restart(env) ==
    \/ hLive' = env /\ halfway' = FALSE /\ UNCHANGED obfFaults
    \/ /\ obfFaults < MaxObfFaults /\ obfFaults' = obfFaults + 1
       /\ halfway' = TRUE /\ UNCHANGED hLive

\* The values of the desired state differ from the file's.
Differs == hAgent.want # hEnv

\* _apply_obfuscation_full_to_env: the file is written, then the container restarted;
\* a file that has the values already is left alone.
ApplyParameters ==
    /\ AgentGoes("apply", "poll", NoH)
    /\ IF Differs THEN hEnv' = hAgent.want /\ Restart(hAgent.want) ELSE UNCHANGED obfNode
    /\ UNCHANGED <<adminVars, hBeat, issue>>

\* Mutant: the action writes the file and leaves the restart to the next round.
ApplyActionOnly ==
    /\ AgentGoes("poll", "beat", NoH)
    /\ hActs # <<>>
    /\ hEnv' = Head(hActs) /\ hActs' = Tail(hActs)
    /\ UNCHANGED <<hLive, halfway, obfFaults, hRow, rotated, rotations, hBeat, issue>>

\* apply_obfuscation_h writes the file and restarts; the action is reported completed
\* or failed and not polled again.
ApplyAction ==
    /\ AgentGoes("poll", "beat", NoH)
    /\ hActs # <<>>
    /\ hEnv' = Head(hActs) /\ Restart(Head(hActs))
    /\ hActs' = Tail(hActs)
    /\ UNCHANGED <<hRow, rotated, rotations, hBeat, issue>>

\* No action, or the poll is not due or failed.
NoAction ==
    /\ AgentGoes("poll", "beat", NoH)
    /\ UNCHANGED <<obfNode, adminVars, hBeat, issue>>

\* restart_service by an admin, or the container's restart policy.
RestartService ==
    /\ hLive # hEnv
    /\ hLive' = hEnv /\ halfway' = FALSE
    /\ UNCHANGED <<hEnv, obfFaults, adminVars, hBeat, hAgent, issue>>

-----------------------------------------------------------------------------
(* The control plane.                                                      *)

\* POST /servers/{id}/rotate-obfuscation-h: row and action in one transaction.
RotateObfuscation ==
    /\ rotations < MaxRotations /\ rotations' = rotations + 1
    /\ rotated' = 2 + rotations
    /\ hRow' = 2 + rotations
    /\ hActs' = Append(hActs, 2 + rotations)
    /\ UNCHANGED <<obfNode, hBeat, hAgent, issue>>

IssueGoes(i, x) ==
    /\ issue' = [issue EXCEPT ![i] = x]
    /\ UNCHANGED <<obfNode, hBeat, hAgent, hActs, rotated, rotations>>

\* A request that issues a configuration loads the server's row...
LoadServer(i) ==
    /\ issue[i].pc = "idle"
    /\ IssueGoes(i, [pc |-> "node", seen |-> hRow, got |-> NoH])
    /\ UNCHANGED hRow

\* ...takes the node's values, here the heartbeat's, when it has all of H1-H4...
ReadNode(i) ==
    /\ issue[i].pc = "node"
    /\ IssueGoes(i, [issue[i] EXCEPT !.pc = "commit", !.got = hBeat])
    /\ UNCHANGED hRow

\* ...and writes them to the row when they differ from what it has loaded.
CommitIssue(i) ==
    /\ issue[i].pc = "commit"
    /\ hRow' = IF issue[i].got \in {NoH, issue[i].seen} THEN hRow ELSE issue[i].got
    /\ IssueGoes(i, [issue[i] EXCEPT !.pc = "end"])

\* Any other error of the request.
AbortIssue(i) ==
    /\ issue[i].pc \in {"node", "commit"}
    /\ IssueGoes(i, [issue[i] EXCEPT !.pc = "end", !.got = NoH])
    /\ UNCHANGED hRow

AgentLoop ==
    \/ Heartbeat \/ FetchParameters \/ FetchSkipped \/ ApplyParameters \/ ApplyAction \/ NoAction

ObfNext ==
    \/ AgentLoop \/ RestartService \/ RotateObfuscation
    \/ \E i \in Issue : LoadServer(i) \/ ReadNode(i) \/ CommitIssue(i) \/ AbortIssue(i)

\* The agent's loop goes on, a fetch and a poll come due again and again, and a
\* request ends.
ObfFairness ==
    /\ WF_obfVars(AgentLoop)
    /\ SF_obfVars(FetchParameters) /\ SF_obfVars(ApplyAction)
    /\ \A i \in Issue : WF_obfVars(ReadNode(i) \/ CommitIssue(i) \/ AbortIssue(i))

ObfSpec == ObfInit /\ [][ObfNext]_obfVars
ObfFairSpec == ObfSpec /\ ObfFairness

-----------------------------------------------------------------------------
(* Properties.                                                             *)

\* Whatever rotations, late actions and issued configurations did to the four copies,
\* the interface runs in the end with the values of the row, unless the last restart
\* failed after the file was written: the file then agrees and nothing restarts it.
NodeFollowsRow == <>[](hRow = NoH \/ halfway \/ hLive = hRow)

\* "the control-plane is the source of truth; the AmneziaWG container must get the
\* same values": the values of the last rotation end up on the node.
RotationReachesNode == <>[](rotated = NoH \/ halfway \/ hLive = rotated)
=============================================================================
