----------------------------- MODULE Containers -----------------------------
(***************************************************************************)
(* Docker telemetry: the console's view of the containers of the hosts and *)
(* the fallback alerts.  The API process and the worker each hold a        *)
(* DockerTelemetryService with a circuit breaker per host and a copy of    *)
(* the last Prometheus snapshot; the list of containers is cached in Redis *)
(* for both.  The worker evaluates the alert rules every interval and      *)
(* commits the alert rows; the console polls hosts, containers and alerts. *)
(*                                                                         *)
(* One container per host stands for its containers.  A tick is one        *)
(* interval of the alert loop; the Redis entry and the Prometheus copy     *)
(* live for less than that.  A console poll is one step: it awaits several *)
(* answers of the engine, but nothing else writes the circuit of the API   *)
(* process meanwhile.  The evaluation of the worker takes one step per     *)
(* host and one to store, with the world moving between them.              *)
(***************************************************************************)
EXTENDS Naturals, FiniteSets, Sequences

CONSTANTS
    Engines,     \* the configured hosts, parse_docker_hosts_config
    Threshold,   \* docker_telemetry_circuit_fail_threshold
    OpenTicks,   \* docker_telemetry_circuit_open_seconds, in ticks
    AlertLimit,  \* the newest rows that list_alerts reads
    UiRate,      \* polls of /hosts and of logs by the console in one tick
    PromEnabled, \* Prometheus is configured
    MaxWorld,    \* changes of the world outside: engine, containers, disk
    MaxSlow      \* container lists that exceed their time budget

ASSUME ContainersAssumption ==
    /\ Threshold \in Nat \ {0} /\ OpenTicks \in Nat \ {0}
    /\ AlertLimit \in Nat /\ UiRate \in Nat /\ MaxWorld \in Nat /\ MaxSlow \in Nat
    /\ PromEnabled \in BOOLEAN

VARIABLES
    engine,   \* host -> does the Docker engine answer
    box,      \* host -> its container as it really is
    disk,     \* does the root disk of the worker exceed the limit
    prom,     \* [up |-> Prometheus answers, fires |-> it has container alerts]
    circuit,  \* process -> host -> [failures, open] (open: ticks left)
    copy,     \* process -> the last Prometheus snapshot
    listed,   \* host -> the container list cached in Redis
    alerts,   \* the alert rows, newest first: fingerprint, intervals since resolved_at (0: open)
    eval,     \* the evaluation of the worker in progress
    polls,    \* polls of the console in this tick
    console,  \* host -> what the console shows of it
    bell,     \* the alerts the console shows as firing
    world, slow  \* budgets used

conVars == <<engine, box, disk, prom, circuit, copy, listed, alerts,
             eval, polls, console, bell, world, slow>>

Processes == {"api", "worker"}

Unknown == [state |-> "none", ill |-> FALSE, loops |-> FALSE, cpu |-> 0]

Boxes == [state : {"running", "restarting", "exited"}, ill : BOOLEAN,
          loops : BOOLEAN, cpu : 0..2]

Fine0 == [state |-> "running", ill |-> FALSE, loops |-> FALSE, cpu |-> 0]

(* A container is well, or has one trouble at a time. *)
RealBoxes ==
    {b \in Boxes : Cardinality({k \in {"state", "ill", "loops", "cpu"} :
                                  b[k] # Fine0[k]}) <= 1}

NoCopy == [fresh |-> FALSE, cpu |-> [h \in {} |-> 0]]
Copied(c) == DOMAIN c.cpu # {}

Rules == {"DockerContainerUnhealthy", "DockerContainerRestartLoop",
          "DockerContainerHighCPUCritical", "DockerContainerHighCPUWarning"}

(* The fingerprint of an alert is the hash of its rule, host and container. *)
Fingerprint(rule, h) == [rule |-> rule, host |-> h]
DiskAlert == Fingerprint("DockerHostDiskPressure", "local")
PromAlert == Fingerprint("an alert of Prometheus", "local")

NoEval == [at |-> "idle", todo |-> {}, hosts |-> {}, active |-> {}]
EvalDue == [NoEval EXCEPT !.at = "due"]

ConInit ==
    /\ engine \in [Engines -> BOOLEAN]
    /\ box = [h \in Engines |-> Fine0]
    /\ disk = FALSE
    /\ prom = [up |-> TRUE, fires |-> FALSE]
    /\ circuit = [p \in Processes |-> [h \in Engines |-> [failures |-> 0, open |-> 0]]]
    /\ copy = [p \in Processes |-> NoCopy]
    /\ listed = [h \in Engines |-> Unknown]
    /\ alerts = <<>>
    /\ eval = EvalDue /\ polls = 0
    /\ console = [h \in Engines |-> Unknown] /\ bell = {}
    /\ world = 0 /\ slow = 0

-----------------------------------------------------------------------------
(* The circuit breaker. *)

IsCircuitOpen(p, h) == circuit[p][h].open > 0

(* The failure that reaches the threshold opens the circuit for the whole   *)
(* time and starts the count again, also when the circuit is open already.  *)
RecordFailure(c) ==
    IF c.failures + 1 >= Threshold
    THEN [failures |-> 0, open |-> OpenTicks]
    ELSE [c EXCEPT !.failures = @ + 1]

RecordSuccess == [failures |-> 0, open |-> 0]

(* list_hosts: an open circuit is raised inside the try, so that the poll   *)
(* is recorded as a failure like one that the engine did not answer.        *)
Reachable(p) == {h \in Engines : ~IsCircuitOpen(p, h) /\ engine[h]}

ListHosts(p) ==
    circuit' = [circuit EXCEPT ![p] =
                  [h \in Engines |-> IF h \in Reachable(p) THEN RecordSuccess
                                     ELSE RecordFailure(@[h])]]

(* _get_prometheus_snapshot: an answer of this tick is used again; when     *)
(* Prometheus does not answer, the last snapshot is, however old.           *)
Snapshot(p) ==
    CASE ~PromEnabled -> NoCopy
      [] PromEnabled /\ copy[p].fresh /\ Copied(copy[p]) -> copy[p]
      [] PromEnabled /\ ~(copy[p].fresh /\ Copied(copy[p])) /\ prom.up ->
            [fresh |-> TRUE, cpu |-> [h \in Engines |-> box[h].cpu]]
      [] OTHER -> copy[p]

(* _build_container_summary: with Prometheus configured the CPU is that of  *)
(* the snapshot or missing, without it that of /stats.                      *)
FullSummary(p, h) ==
    [box[h] EXCEPT !.cpu =
        IF ~PromEnabled THEN box[h].cpu
        ELSE IF Copied(Snapshot(p)) THEN Snapshot(p).cpu[h] ELSE 0]

(* _minimal_summary_from_row: only what the list itself says. *)
MinimalSummary(h) ==
    [state |-> box[h].state, ill |-> FALSE,
     loops |-> box[h].state = "restarting", cpu |-> 0]

Summaries(p, h) ==
    {FullSummary(p, h)} \cup (IF slow < MaxSlow THEN {MinimalSummary(h)} ELSE {})

(* The part of list_containers behind the cache, with the summary that the  *)
(* time budget leaves.                                                      *)
ListContainers(p, h, s) ==
    /\ s \in Summaries(p, h)
    /\ slow' = IF s = FullSummary(p, h) THEN slow ELSE slow + 1
    /\ copy' = [copy EXCEPT ![p] = Snapshot(p)]
    /\ circuit' = [circuit EXCEPT ![p][h] = RecordSuccess]
    /\ listed' = [listed EXCEPT ![h] = s]

-----------------------------------------------------------------------------
(* The console. *)

UiHosts ==
    /\ polls < UiRate
    /\ polls' = polls + 1
    /\ ListHosts("api")
    /\ UNCHANGED <<engine, box, disk, prom, copy, listed, alerts, eval,
                   console, bell, world, slow>>

(* A cached list is shown whatever the circuit says. *)
UiContainers(h) ==
    /\ \/ /\ listed[h] # Unknown
          /\ console' = [console EXCEPT ![h] = listed[h]]
          /\ UNCHANGED <<circuit, copy, listed, slow>>
       \/ /\ listed[h] = Unknown /\ ~IsCircuitOpen("api", h) /\ engine[h]
          /\ \E s \in Summaries("api", h) :
                /\ ListContainers("api", h, s)
                /\ console' = [console EXCEPT ![h] = s]
       \/ /\ listed[h] = Unknown /\ ~IsCircuitOpen("api", h) /\ ~engine[h]
          /\ circuit' = [circuit EXCEPT !["api"][h] = RecordFailure(@)]
          /\ console' = [console EXCEPT ![h] = Unknown]
          /\ UNCHANGED <<copy, listed, slow>>
       \/ /\ listed[h] = Unknown /\ IsCircuitOpen("api", h)
          /\ console' = [console EXCEPT ![h] = Unknown]
          /\ UNCHANGED <<circuit, copy, listed, slow>>
    /\ UNCHANGED <<engine, box, disk, prom, alerts, eval, polls, bell, world>>

(* get_container_logs looks at no circuit, and an engine that does not      *)
(* answer its inspection is recorded.                                       *)
UiLogs(h) ==
    /\ ~engine[h] /\ polls < UiRate
    /\ polls' = polls + 1
    /\ circuit' = [circuit EXCEPT !["api"][h] = RecordFailure(@)]
    /\ UNCHANGED <<engine, box, disk, prom, copy, listed, alerts, eval,
                   console, bell, world, slow>>

(* start, stop and restart of a container from the console. *)
Operate(h, state) ==
    /\ ~IsCircuitOpen("api", h) /\ world < MaxWorld
    /\ IF engine[h]
       THEN /\ box' = [box EXCEPT ![h] =
                         IF state = "exited" THEN [Fine0 EXCEPT !.state = "exited"]
                         ELSE Fine0]
            /\ circuit' = [circuit EXCEPT !["api"][h] = RecordSuccess]
       ELSE /\ circuit' = [circuit EXCEPT !["api"][h] = RecordFailure(@)]
            /\ UNCHANGED box
    /\ world' = world + 1
    /\ UNCHANGED <<engine, disk, prom, copy, listed, alerts, eval, polls,
                   console, bell, slow>>

StartContainer(h) == Operate(h, "running")
StopContainer(h) == Operate(h, "exited")

(* The fingerprints of the open rows among some rows. *)
Open(rows) == {rows[i].f : i \in {j \in DOMAIN rows : rows[j].age = 0}}
Firing == Open(alerts)

(* list_alerts: the container alerts of Prometheus when it has any, and     *)
(* otherwise the newest rows, firing and resolved; the console shows those  *)
(* that fire.                                                               *)
ListAlerts ==
    /\ bell' = IF prom.up /\ prom.fires THEN {PromAlert}
               ELSE Open(SubSeq(alerts, 1, IF Len(alerts) < AlertLimit THEN Len(alerts) ELSE AlertLimit))
    /\ UNCHANGED <<engine, box, disk, prom, circuit, copy, listed, alerts,
                   eval, polls, console, world, slow>>

-----------------------------------------------------------------------------
(* The alert loop of the worker. *)

(* The rules that a summary satisfies: critical CPU excludes the warning. *)
RulesOf(h, s) ==
    {Fingerprint(r, h) : r \in
        (IF s.ill THEN {"DockerContainerUnhealthy"} ELSE {})
        \cup (IF s.state = "restarting" \/ s.loops
              THEN {"DockerContainerRestartLoop"} ELSE {})
        \cup (IF s.cpu = 2 THEN {"DockerContainerHighCPUCritical"}
              ELSE IF s.cpu = 1 THEN {"DockerContainerHighCPUWarning"} ELSE {})}

EvalHosts ==
    /\ eval.at = "due"
    /\ ListHosts("worker")
    /\ eval' = [NoEval EXCEPT !.at = "list", !.todo = Reachable("worker"),
                              !.hosts = Reachable("worker")]
    /\ UNCHANGED <<engine, box, disk, prom, copy, listed, alerts, polls,
                   console, bell, world, slow>>

(* A host that stopped answering makes the evaluation raise: the loop logs  *)
(* it and nothing is stored before the next interval.                       *)
EvalContainers(h) ==
    /\ eval.at = "list" /\ h \in eval.todo
    /\ \/ /\ engine[h]
          /\ \E s \in Summaries("worker", h) :
                /\ ListContainers("worker", h, s)
                /\ eval' = [eval EXCEPT !.todo = @ \ {h},
                                        !.active = @ \cup RulesOf(h, s)]
       \/ /\ ~engine[h]
          /\ circuit' = [circuit EXCEPT !["worker"][h] = RecordFailure(@)]
          /\ eval' = NoEval
          /\ UNCHANGED <<copy, listed, slow>>
    /\ UNCHANGED <<engine, box, disk, prom, alerts, polls, console, bell, world>>

(* The open rows of the hosts seen are matched against the rules; the       *)
(* others are left as they are.  Resolved rows past their time are deleted. *)
Seen == eval.hosts \cup (IF disk THEN {"local"} ELSE {})

Active == eval.active \cup (IF disk THEN {DiskAlert} ELSE {})

(* Mutant: only hosts with an active rule are matched. *)
ResolvedOfActive == {f \in Firing : f.host \in {a.host : a \in Active}} \ Active

Resolved == {f \in Firing : f.host \in Seen} \ Active

(* Rows of one commit have one created_at: their order is any. *)
Orders(fs) == {q \in [1..Cardinality(fs) -> fs] : \A i, j \in DOMAIN q : q[i] = q[j] => i = j}
Settled(r) == IF r.age = 0 /\ r.f \in Resolved THEN [r EXCEPT !.age = 1] ELSE r

EvalStore ==
    /\ eval.at = "list" /\ eval.todo = {}
    /\ \E new \in Orders(Active \ Firing) :
          alerts' = [i \in DOMAIN new |-> [f |-> new[i], age |-> 0]]
                    \o SelectSeq([i \in DOMAIN alerts |-> Settled(alerts[i])], LAMBDA r : r.age < 2)
    /\ eval' = NoEval
    /\ UNCHANGED <<engine, box, disk, prom, circuit, copy, listed, polls, console,
                   bell, world, slow>>

(* The worker restarts: the evaluation is lost, and with it the circuit and *)
(* the snapshot in memory.                                                  *)
WorkerRestart ==
    /\ world < MaxWorld /\ world' = world + 1
    /\ circuit' = [circuit EXCEPT !["worker"] =
                     [h \in Engines |-> [failures |-> 0, open |-> 0]]]
    /\ copy' = [copy EXCEPT !["worker"] = NoCopy]
    /\ eval' = EvalDue
    /\ UNCHANGED <<engine, box, disk, prom, listed, alerts, polls, console,
                   bell, slow>>

-----------------------------------------------------------------------------
(* Time and the world. *)

(* One interval passes: circuits come closer to their end, the cached list  *)
(* and the snapshots expire, resolved rows age, the loop wakes up.          *)
Expire == /\ listed' = [h \in Engines |-> Unknown]
          /\ copy' = [p \in Processes |-> [copy[p] EXCEPT !.fresh = FALSE]]

ConTick ==
    /\ eval.at = "idle"
    /\ eval' = EvalDue
    /\ circuit' = [p \in Processes |-> [h \in Engines |->
                     [circuit[p][h] EXCEPT !.open = IF @ > 0 THEN @ - 1 ELSE 0]]]
    /\ Expire
    /\ alerts' = [i \in DOMAIN alerts |-> [alerts[i] EXCEPT !.age = IF @ = 1 THEN 2 ELSE @]]
    /\ polls' = 0
    /\ UNCHANGED <<engine, box, disk, prom, console, bell, world, slow>>

WorldMoves ==
    /\ world < MaxWorld /\ world' = world + 1
    /\ \/ /\ \E h \in Engines : engine' = [engine EXCEPT ![h] = ~@]
          /\ UNCHANGED <<box, disk, prom>>
       \/ /\ \E h \in Engines, b \in RealBoxes : box' = [box EXCEPT ![h] = b]
          /\ UNCHANGED <<engine, disk, prom>>
       \/ /\ disk' = ~disk
          /\ UNCHANGED <<engine, box, prom>>
       \/ /\ \E q \in [up : BOOLEAN, fires : BOOLEAN] :
                q # prom /\ (q.fires => q.up) /\ prom' = q
          /\ UNCHANGED <<engine, box, disk>>
    /\ UNCHANGED <<circuit, copy, listed, alerts, eval, polls, console, bell, slow>>

ConNext ==
    \/ UiHosts
    \/ \E h \in Engines : UiContainers(h) \/ StartContainer(h) \/ StopContainer(h)
                          \/ UiLogs(h) \/ EvalContainers(h)
    \/ ListAlerts \/ EvalHosts \/ EvalStore \/ WorkerRestart \/ ConTick \/ WorldMoves

ConSpec == ConInit /\ [][ConNext]_conVars

(* The worker loop runs on, time passes and the console keeps polling the   *)
(* containers and the alerts; nothing makes the world move.                 *)
ConFairness ==
    /\ WF_conVars(EvalHosts) /\ WF_conVars(EvalStore) /\ WF_conVars(ConTick)
    /\ WF_conVars(ListAlerts)
    /\ \A h \in Engines : WF_conVars(EvalContainers(h)) /\ WF_conVars(UiContainers(h))

ConFairSpec == ConSpec /\ ConFairness

-----------------------------------------------------------------------------
(* Properties. *)

Steady(h) == engine[h] /\ prom.up /\ ~prom.fires

(* A container that stays in trouble is shown as an alert, and one that     *)
(* stays well is not, however the evaluations were cut off by an engine     *)
(* that did not answer, an open circuit, a slow list or a restart of the    *)
(* worker: docker_alert_rule_engine evaluates and resolves by fingerprint.  *)
(* It is shown as long as fewer rows than the limit are newer than its own: *)
(* a container that flaps adds a row each time, kept for a day.             *)
Newer(f) ==
    {i \in DOMAIN alerts : \E j \in DOMAIN alerts : i < j /\ alerts[j] = [f |-> f, age |-> 0]}
InReach(f) == Cardinality(Newer(f)) < AlertLimit

AlertFollows ==
    \A h \in Engines : \A r \in Rules : LET f == Fingerprint(r, h) IN
        /\ <>[](Steady(h) /\ f \in RulesOf(h, box[h]) /\ InReach(f)) => <>[](f \in bell)
        /\ <>[](Steady(h) /\ f \notin RulesOf(h, box[h])) => <>[](f \notin bell)

(* A host whose engine answers again is shown by the console as it is: the  *)
(* circuit of the API process closes although polls of /hosts made while it *)
(* is open count as failures.  This needs fewer of them in one open time    *)
(* than the threshold.                                                      *)
ConsoleFollows ==
    \A h \in Engines : <>[](engine[h] /\ prom.up) => []<>(console[h] = box[h])

(* The disk alert of the worker goes when the disk has room again, as long  *)
(* as the host it is filed under is one the evaluation reaches.             *)
DiskAlertFollows ==
    /\ <>[](disk /\ prom.up /\ ~prom.fires /\ InReach(DiskAlert)) => <>[](DiskAlert \in bell)
    /\ <>[](~disk /\ \A h \in Engines : engine[h]) => <>[](DiskAlert \notin bell)

(* Alerts and the view of the containers follow the hosts, each through     *)
(* its own circuit and caches.                                              *)
AlertsFollow == AlertFollows /\ ConsoleFollows /\ DiskAlertFollows
=============================================================================
