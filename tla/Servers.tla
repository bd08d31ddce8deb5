------------------------------ MODULE Servers ------------------------------
(***************************************************************************)
(* One row of the servers table in docker mode and everything that writes  *)
(* it: the sync loop and POST /servers/{id}/sync, the health check loop,   *)
(* the node scan, the admin's PATCH, bulk, create and delete, the clean-up *)
(* scripts; and what reads it: the cached server list and live_key_fetch.   *)
(*                                                                         *)
(* A task reads the row, waits for docker, and commits.  SQLAlchemy only   *)
(* writes the attributes whose value differs from the one that was read.   *)
(***************************************************************************)
EXTENDS Naturals

CONSTANTS NFail,       \* node_health_fail_count_disable
          BackoffMax,  \* server_sync_backoff_max_seconds, in units of the first delay
          SkipDraining,\* server_sync_skip_draining
          Deployments, \* the sets of loops that are switched on
          MaxSrvKey,   \* bound: keys the node generates
          MaxAdmin,    \* bound: requests of admins
          MaxSrvFaults \* bound: crashes and failed discoveries

ASSUME ServersAssumption ==
    /\ NFail \in Nat \ {0} /\ BackoffMax \in Nat \ {0} /\ SkipDraining \in BOOLEAN
    /\ Deployments \subseteq SUBSET {"sync", "health", "scan", "list"}
    /\ MaxSrvKey \in Nat /\ MaxAdmin \in Nat /\ MaxSrvFaults \in Nat

VARIABLES
    loops,    \* the loops of this deployment
    reg,      \* the row, without the attributes nobody's property tells apart
    real,     \* the container: its state and the key of its interface
    spare,    \* exactly one other node is running on the host
    logs,     \* server_health_logs: none, or how many of the newest NFail rows failed in a row
    syncing,  \* the tasks that sync
    health,   \* the health check
    scan,     \* the node scan
    backoff,  \* _backoff of the loop: rounds to skip, fail_count
    due,      \* last_snapshot_at is older than the interval
    list,     \* the cached list, and the request that fills it
    admins, srvFaults

srvVars == <<loops, reg, real, spare, logs, syncing, health, scan, backoff, due, list, admins, srvFaults>>
srvTasks == <<syncing, health, scan, backoff>>

Syncer == {"loop", "admin"}
NodeState == {"up", "idle", "hung", "gone"}
NoSrvKey == MaxSrvKey + 1
NoLogs == NFail + 1

IdleSync == [pc |-> "idle", seen |-> "gone", seenKey |-> 0, key |-> 0, keyStatus |-> "none"]
IdleCheck == [pc |-> "idle", seen |-> "gone", active |-> FALSE]
IdleScan == [pc |-> "idle", seen |-> "gone", seenKey |-> 0]

SrvInit ==
    /\ loops \in Deployments
    /\ \E registered \in BOOLEAN :
          reg = [there |-> registered, active |-> TRUE, draining |-> FALSE,
                 key |-> NoSrvKey, keyStatus |-> "none"]
    /\ real = [state |-> "up", key |-> 0] /\ spare = FALSE
    /\ logs = NoLogs
    /\ syncing = [t \in Syncer |-> IdleSync]
    /\ health = IdleCheck
    /\ scan = IdleScan
    /\ backoff = [wait |-> 0, fails |-> 0]
    /\ due = TRUE
    /\ list = [cached |-> "none", pc |-> "idle", seen |-> FALSE, drop |-> FALSE]
    /\ admins = 0 /\ srvFaults = 0

-----------------------------------------------------------------------------
(* What docker answers.                                                    *)

\* Mutant: no recent handshake counts as a failure.
FineOnlyOk == {"ok"}

\* The answers of health_check that keep a server active.
Fine == {"ok", "degraded"}
\* _resolve_node takes the only node there is for a server it does not find.
HealthAnswer(s) ==
    CASE s \in {"up", "other"} -> "ok" [] s = "idle" -> "degraded"
      [] s = "hung" -> "unreachable" [] s = "gone" -> "unknown"

\* A node whose dump fails has no key.
KeyOf(s, k) == IF s = "hung" THEN NoSrvKey ELSE k

\* discover_nodes returns nothing when docker cannot be asked.
Discovered(s) == \/ s = real.state /\ UNCHANGED srvFaults
                 \/ s = "gone" /\ s # real.state /\ srvFaults < MaxSrvFaults /\ srvFaults' = srvFaults + 1

\* The node that answers for the server: discovery failed, or it found the server's
\* own node, or only another one.
Resolved(s) ==
    \/ Discovered(s) /\ ~(real.state = "gone" /\ spare)
    \/ real.state = "gone" /\ spare /\ s = "other" /\ UNCHANGED srvFaults
    \/ real.state = "gone" /\ spare /\ s = "gone" /\ srvFaults < MaxSrvFaults /\ srvFaults' = srvFaults + 1

\* What an attribute becomes: v is assigned, it was old when the task read the row.
Assigned(v, old, current) == IF v = old THEN current ELSE v

-----------------------------------------------------------------------------
(* Synchronisation of the snapshot and the key.                            *)

Begin(t) == /\ syncing' = [syncing EXCEPT ![t].pc = "run"]
            /\ UNCHANGED <<reg, real, spare, logs, health, scan, backoff, due, list, srvFaults>>

\* The loop takes the active servers that are due and not backed off.
LoopStarts ==
    /\ "sync" \in loops /\ syncing["loop"].pc = "idle"
    /\ reg.there /\ reg.active /\ ~(SkipDraining /\ reg.draining)
    /\ due /\ backoff.wait = 0
    /\ Begin("loop") /\ UNCHANGED admins

TriggerSync ==
    /\ "sync" \in loops /\ syncing["admin"].pc = "idle" /\ reg.there
    /\ admins < MaxAdmin /\ admins' = admins + 1
    /\ Begin("admin")

\* 60, 120, 240, ... at most BACKOFF_MAX.
Delay(n) == IF 2 ^ (n - 1) < BackoffMax THEN 2 ^ (n - 1) ELSE BackoffMax
\* Bound: fail_count is not counted beyond the largest delay.
RecordFailure(t) ==
    LET n == IF backoff.fails > 0 /\ Delay(backoff.fails) = BackoffMax THEN backoff.fails ELSE backoff.fails + 1
    IN  backoff' = IF t = "loop" THEN [wait |-> Delay(n), fails |-> n] ELSE backoff
RecordSuccess(t) == backoff' = IF t = "loop" THEN [wait |-> 0, fails |-> 0] ELSE backoff

\* run_sync_for_server reads job, row and node; with the row its jobs are gone.
SyncReads(t) ==
    /\ syncing[t].pc = "run"
    /\ IF reg.there
       THEN /\ \E s \in NodeState :
                  /\ Discovered(s)
                  /\ syncing' = [syncing EXCEPT ![t] = [pc |-> "commit", seen |-> s,
                                                        seenKey |-> KeyOf(s, real.key), key |-> reg.key,
                                                        keyStatus |-> reg.keyStatus]]
            /\ UNCHANGED backoff
       ELSE /\ syncing' = [syncing EXCEPT ![t].pc = "idle"]
            /\ RecordFailure(t) /\ UNCHANGED srvFaults
    /\ UNCHANGED <<reg, real, spare, logs, health, scan, due, list, admins>>

\* Mutant: the key in the row is preferred.
SnapshotKeyOfRow(y) == IF y.key # NoSrvKey THEN y.key ELSE y.seenKey

\* The key of the snapshot: the node's, else the one that was in the row.
SnapshotKey(y) == IF y.seenKey # NoSrvKey THEN y.seenKey ELSE y.key

Snapshot(t) ==
    LET y == syncing[t]
        k == SnapshotKey(y)
    IN  /\ reg' = [reg EXCEPT !.key = Assigned(k, y.key, reg.key),
                              !.keyStatus = IF k = NoSrvKey THEN reg.keyStatus
                                            ELSE Assigned("verified", y.keyStatus, reg.keyStatus)]
        /\ due' = FALSE

SyncCommits(t) ==
    /\ syncing[t].pc = "commit"
    /\ syncing' = [syncing EXCEPT ![t] = IdleSync]
    /\ \/ /\ reg.there /\ syncing[t].seen # "gone"
          /\ Snapshot(t) /\ RecordSuccess(t)
       \/ /\ reg.there /\ syncing[t].seen = "gone"
          /\ reg' = [reg EXCEPT !.keyStatus = Assigned("not_found", syncing[t].keyStatus, reg.keyStatus)]
          /\ RecordFailure(t) /\ UNCHANGED due
       \/ ~reg.there /\ RecordFailure(t) /\ UNCHANGED <<reg, due>>
    /\ UNCHANGED <<real, spare, logs, health, scan, list, admins, srvFaults>>

\* The process ends between the two transactions: nobody takes the job up again.
SyncCrash(t) ==
    /\ syncing[t].pc # "idle" /\ srvFaults < MaxSrvFaults /\ srvFaults' = srvFaults + 1
    /\ syncing' = [syncing EXCEPT ![t] = IdleSync]
    /\ backoff' = IF t = "loop" THEN [wait |-> 0, fails |-> 0] ELSE backoff
    /\ UNCHANGED <<reg, real, spare, logs, health, scan, due, list, admins>>

IntervalPasses ==
    /\ "sync" \in loops /\ due' = TRUE
    /\ backoff' = [backoff EXCEPT !.wait = IF @ = 0 THEN 0 ELSE @ - 1]
    /\ UNCHANGED <<reg, real, spare, logs, syncing, health, scan, list, admins, srvFaults>>

-----------------------------------------------------------------------------
(* Health check and node scan.                                             *)

HealthReads ==
    /\ "health" \in loops /\ health.pc = "idle" /\ reg.there
    /\ \E s \in NodeState \cup {"other"} :
          Resolved(s) /\ health' = [pc |-> "commit", seen |-> s, active |-> reg.active]
    /\ UNCHANGED <<reg, real, spare, logs, syncing, scan, backoff, due, list, admins>>

\* The number of failures in a row after another answer.
Failures(a) == CASE a \in Fine -> 0 [] a \notin Fine /\ logs \in 0..(NFail - 1) -> logs + 1
                 [] a \notin Fine /\ logs = NFail -> NFail [] OTHER -> 1

\* run_health_check: the log row, the status, and is_active after NFail failures.
HealthCommits ==
    LET a == HealthAnswer(health.seen)
        act == CASE a \in Fine -> TRUE [] Failures(a) = NFail -> FALSE [] OTHER -> health.active
    IN  /\ health.pc = "commit"
        /\ health' = IdleCheck
        /\ IF reg.there
           THEN /\ logs' = Failures(a)
                /\ reg' = [reg EXCEPT !.active = Assigned(act, health.active, reg.active)]
           ELSE UNCHANGED <<logs, reg>>
        /\ UNCHANGED <<real, spare, syncing, scan, backoff, due, list, admins, srvFaults>>

ScanReads ==
    /\ "scan" \in loops /\ scan.pc = "idle"
    /\ \E s \in NodeState :
          Discovered(s) /\ scan' = [pc |-> "commit", seen |-> s, seenKey |-> KeyOf(s, real.key)]
    /\ UNCHANGED <<reg, real, spare, logs, syncing, health, backoff, due, list, admins>>

\* _sync_discovered_nodes: a row for what was found, what was not found is inactive.
ScanCommits ==
    LET found == scan.seen # "gone"
    IN  /\ scan.pc = "commit"
        /\ scan' = IdleScan
        /\ reg' = IF reg.there \/ found
                  THEN [reg EXCEPT !.there = TRUE,
                                   !.active = (scan.seen \in {"up", "idle"}),
                                   !.draining = reg.there /\ reg.draining,
                                   !.key = IF scan.seen \in {"up", "idle"} THEN scan.seenKey
                                           ELSE IF reg.there THEN reg.key ELSE NoSrvKey,
                                   !.keyStatus = IF reg.there THEN reg.keyStatus ELSE "none"]
                  ELSE reg
        /\ UNCHANGED <<real, spare, logs, syncing, health, backoff, due, list, admins, srvFaults>>

-----------------------------------------------------------------------------
(* Admins, the list, the node.                                             *)

Request == admins < MaxAdmin /\ admins' = admins + 1

\* PATCH /servers/{id} and the bulk actions commit and then drop the cached list.
UpdateServer ==
    /\ Request /\ reg.there /\ ~list.drop
    /\ \E b \in BOOLEAN : reg' = [reg EXCEPT !.active = b]
    /\ list' = [list EXCEPT !.drop = TRUE]
    /\ UNCHANGED <<real, spare, logs, srvTasks, due, srvFaults>>
BulkUpdate ==
    /\ Request /\ reg.there /\ ~list.drop
    /\ \E b \in BOOLEAN : reg' \in {[reg EXCEPT !.active = b], [reg EXCEPT !.draining = b]}
    /\ list' = [list EXCEPT !.drop = TRUE]
    /\ UNCHANGED <<real, spare, logs, srvTasks, due, srvFaults>>

\* The actions drain and undrain write the row at once, and keep the list.
DrainAction ==
    /\ Request /\ reg.there
    /\ \E b \in BOOLEAN : reg' = [reg EXCEPT !.draining = b]
    /\ UNCHANGED <<real, spare, logs, srvTasks, due, list, srvFaults>>

InvalidateList ==
    /\ list.drop
    /\ list' = [list EXCEPT !.drop = FALSE, !.cached = "none"]
    /\ UNCHANGED <<reg, real, spare, logs, srvTasks, due, admins, srvFaults>>

Gone == [reg EXCEPT !.there = FALSE]

\* delete_server: the health logs are no orphans the ORM may delete, it sets their
\* server_id to NULL, which the column forbids.
DeleteServer ==
    /\ Request /\ reg.there /\ ~list.drop
    /\ IF logs = NoLogs
       THEN reg' = Gone /\ list' = [list EXCEPT !.drop = TRUE]
       ELSE UNCHANGED <<reg, list>>
    /\ UNCHANGED <<real, spare, logs, srvTasks, due, srvFaults>>

\* cleanup_stale_servers.py deletes an inactive row and all that refers to it.
CleanupStale ==
    /\ Request /\ reg.there /\ ~reg.active /\ due
    /\ reg' = Gone /\ logs' = NoLogs
    /\ UNCHANGED <<real, spare, srvTasks, due, list, srvFaults>>

\* The script of ops/ deactivates a row that is due when docker ps, which may fail
\* and then lists nothing, does not list its container.
DeactivateStale ==
    /\ Request /\ reg.there /\ due
    /\ Discovered("gone")
    /\ reg' = [reg EXCEPT !.active = FALSE]
    /\ UNCHANGED <<real, spare, logs, srvTasks, due, list>>

CreateServer ==
    /\ Request /\ ~reg.there /\ ~list.drop
    /\ list' = [list EXCEPT !.drop = TRUE]
    /\ reg' = [there |-> TRUE, active |-> TRUE, draining |-> FALSE,
               key |-> NoSrvKey, keyStatus |-> "none"]
    /\ UNCHANGED <<real, spare, logs, srvTasks, due, srvFaults>>

\* list_servers: what is cached, else the rows, which are then cached.
ListReads ==
    /\ "list" \in loops /\ list.pc = "idle" /\ list.cached = "none"
    /\ list' = [list EXCEPT !.pc = "fill", !.seen = (reg.there /\ reg.active)]
    /\ UNCHANGED <<reg, real, spare, logs, srvTasks, due, admins, srvFaults>>
ListFills ==
    /\ list.pc = "fill"
    /\ list' = [list EXCEPT !.pc = "idle", !.seen = FALSE, !.cached = IF list.seen THEN "active" ELSE "inactive"]
    /\ UNCHANGED <<reg, real, spare, logs, srvTasks, due, admins, srvFaults>>

ListExpires ==
    /\ list.cached # "none"
    /\ list' = [list EXCEPT !.cached = "none"]
    /\ UNCHANGED <<reg, real, spare, logs, srvTasks, due, admins, srvFaults>>

\* The container stops, hangs, comes back; a new one has a new key.  Another node
\* comes or goes.
NodeChanges ==
    /\ \/ \E s \in NodeState \ {real.state} : real' = [real EXCEPT !.state = s] /\ UNCHANGED spare
       \/ real.key < MaxSrvKey /\ real' = [real EXCEPT !.key = @ + 1] /\ UNCHANGED spare
       \/ spare' = ~spare /\ UNCHANGED real
    /\ UNCHANGED <<reg, logs, srvTasks, due, list, admins, srvFaults>>

SrvStep ==
    \/ LoopStarts \/ TriggerSync \/ IntervalPasses
    \/ \E t \in Syncer : SyncReads(t) \/ SyncCommits(t) \/ SyncCrash(t)
    \/ HealthReads \/ HealthCommits \/ ScanReads \/ ScanCommits
    \/ UpdateServer \/ BulkUpdate \/ DrainAction \/ InvalidateList \/ DeleteServer
    \/ CleanupStale \/ DeactivateStale \/ CreateServer
    \/ ListReads \/ ListFills \/ ListExpires \/ NodeChanges

SrvNext == SrvStep /\ UNCHANGED loops

SrvSpec == SrvInit /\ [][SrvNext]_srvVars

\* The loops run for ever and redis expires its entries; nothing else is promised.
SrvFairSpec ==
    /\ SrvSpec
    /\ WF_srvVars(LoopStarts /\ UNCHANGED loops) /\ WF_srvVars(IntervalPasses /\ UNCHANGED loops)
    /\ \A t \in Syncer : /\ WF_srvVars(SyncReads(t) /\ UNCHANGED loops)
                         /\ WF_srvVars(SyncCommits(t) /\ UNCHANGED loops)
    /\ WF_srvVars(HealthReads /\ UNCHANGED loops) /\ WF_srvVars(HealthCommits /\ UNCHANGED loops)
    /\ WF_srvVars(ScanReads /\ UNCHANGED loops) /\ WF_srvVars(ScanCommits /\ UNCHANGED loops)
    /\ WF_srvVars(ListExpires /\ UNCHANGED loops) /\ WF_srvVars(InvalidateList /\ UNCHANGED loops)

-----------------------------------------------------------------------------

\* Nothing answers for the server.
Unanswered == real.state = "hung" \/ (real.state = "gone" /\ ~spare)

\* A server whose node stays reachable is offered again, whatever health checks,
\* scans, admins and failed discoveries did to is_active in between; one whose
\* node stays unreachable is no longer offered, unless the node is gone and the
\* health check takes the only other node for it: then scan and check disagree.
ActiveFollowsNode ==
    /\ <>[](loops \cap {"health", "scan"} # {} /\ reg.there /\ real.state \in {"up", "idle"}) => <>[](reg.there => reg.active)
    /\ <>[](loops \cap {"health", "scan"} # {} /\ reg.there /\ Unanswered) => <>[](reg.there => ~reg.active)

\* The row ends up with the key the node has and says so, although old
\* snapshots are committed late, discovery fails and the loop backs off (an
\* inactive or draining server is not synced).
KeyCatchesUp ==
    <>[]("sync" \in loops /\ reg.there /\ reg.active /\ ~reg.draining /\ real.state \in {"up", "idle"})
        => <>[](reg.there => reg.key = real.key /\ reg.keyStatus = "verified")

\* A list that was read before an update and cached after the invalidation does
\* not stay: what is cached for ever agrees with the row.
ListCatchesUp ==
    \A b \in BOOLEAN : <>[]((reg.there /\ reg.active) = b)
        => <>[](list.cached # IF b THEN "inactive" ELSE "active")

\* What users are offered follows the node: the row, and the cached list behind it.
OfferFollowsNode == ActiveFollowsNode /\ ListCatchesUp
=============================================================================
