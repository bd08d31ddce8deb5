----------------------------- MODULE Discovery ------------------------------
(***************************************************************************)
(* The discovery runner (ops/discovery): every interval it classifies the  *)
(* containers of the host, writes inventory.json, merges the scrape        *)
(* targets it has found into .targets_state.json and writes the targets    *)
(* seen within their time to live to targets.json, which Prometheus reads. *)
(* The command line form (__main__) writes the targets found now and keeps *)
(* no state.  Files are replaced atomically; a restart may come between    *)
(* two of them.                                                            *)
(*                                                                         *)
(* A container is the set of what the classifiers see of it: its image     *)
(* family, its entry point, the tun device, NET_ADMIN and a WireGuard      *)
(* port.  The targets that are always written are left out.                *)
(***************************************************************************)
EXTENDS Naturals, FiniteSets

CONSTANTS
    TargetTTL,    \* DISCOVERY_TARGET_TTL_SECONDS in intervals
    MaxHostMoves, \* changes on the host: containers, port, docker CLI
    MaxCli        \* runs of the command line form

ASSUME DiscoveryAssumption ==
    TargetTTL \in Nat \ {0} /\ MaxHostMoves \in Nat /\ MaxCli \in Nat

VARIABLES
    running,  \* containers that run on the host
    wgPort,   \* does host.docker.internal:9586 accept a connection
    cliOk,    \* do docker ps and docker inspect succeed
    seenAt,   \* .targets_state.json: job -> intervals since last_seen
    targets,  \* jobs in targets.json
    inventory,\* the node kinds in inventory.json
    runner,   \* the runner: [at, found]
    missed,   \* job -> rounds finished without it since it came up
    hostMoves, cliRuns

disVars == <<running, wgPort, cliOk, seenAt, targets, inventory, runner, missed,
             hostMoves, cliRuns>>

(* The containers of the suite, by what the classifiers see of them. *)
Suite ==
    [vpn   |-> {"amnezia", "tun", "net_admin", "wg_port"},
     agent |-> {"exporter", "entry", "net_admin"},
     bot   |-> {"exporter"},
     wg    |-> {"exporter", "net_admin"},
     web   |-> {}]

HostContainers == DOMAIN Suite

Jobs == {"agent", "bot", "wg"}
Never == TargetTTL + 1

-----------------------------------------------------------------------------
(* classify_container and classify_candidate of the runner. *)
Kind(f) == IF f \cap {"amnezia", "entry", "tun", "net_admin", "wg_port"} # {}
           THEN "awg" ELSE "unknown"

(* Mutant: what the container does is looked at before what its image is. *)
TypeOfKindFirst(f) ==
    CASE Kind(f) = "awg" -> "awg-node"
      [] Kind(f) # "awg" /\ "prometheus" \in f -> "prometheus"
      [] Kind(f) # "awg" /\ "prometheus" \notin f /\ "exporter" \in f -> "exporter"
      [] OTHER -> "unknown"

TypeOf(f) ==
    CASE "prometheus" \in f -> "prometheus"
      [] "prometheus" \notin f /\ "exporter" \in f -> "exporter"
      [] f \cap {"prometheus", "exporter"} = {} /\ Kind(f) = "awg" -> "awg-node"
      [] OTHER -> "unknown"

-----------------------------------------------------------------------------
(* One round. *)

(* run_discovery: a docker command that fails gives no containers. *)
Found == IF cliOk THEN running ELSE {}

(* The runner knows no addresses of containers, so that the exporter of     *)
(* WireGuard is a target only when its port answers on the host.            *)
JobsFound ==
    {j \in {"agent", "bot"} : j \in Found /\ TypeOf(Suite[j]) = "exporter"}
    \cup (IF wgPort THEN {"wg"} ELSE {})

(* _build_targets of the command line form has the addresses. *)
JobsFoundByCli ==
    JobsFound \cup {j \in {"wg"} : j \in Found /\ TypeOf(Suite[j]) = "exporter"}

DisInit ==
    /\ running \in {{}, {"vpn", "agent", "wg"}} /\ wgPort = FALSE /\ cliOk = TRUE
    /\ seenAt = [j \in Jobs |-> Never] /\ targets = {} /\ inventory = {}
    /\ runner = [at |-> "due", found |-> {}]
    /\ missed = [j \in Jobs |-> Never]
    /\ hostMoves = 0 /\ cliRuns = 0

WriteInventory ==
    /\ runner.at = "due"
    /\ inventory' = {<<c, Kind(Suite[c])>> : c \in Found}
    /\ runner' = [at |-> "state", found |-> JobsFound]
    /\ UNCHANGED <<running, wgPort, cliOk, seenAt, targets, missed, hostMoves, cliRuns>>

(* Mutant: the state is built from this round alone. *)
MergeFresh(found) == [j \in Jobs |-> IF j \in found THEN 0 ELSE Never]

(* The state keeps every target it ever saw, with the time of it. *)
Merge(found) == [j \in Jobs |-> IF j \in found THEN 0 ELSE seenAt[j]]

SaveState ==
    /\ runner.at = "state"
    /\ seenAt' = Merge(runner.found)
    /\ runner' = [runner EXCEPT !.at = "targets"]
    /\ UNCHANGED <<running, wgPort, cliOk, targets, inventory, missed, hostMoves, cliRuns>>

WithinTTL == {j \in Jobs : seenAt[j] <= TargetTTL}

WriteTargets ==
    /\ runner.at = "targets"
    /\ targets' = WithinTTL
    /\ missed' = [j \in Jobs |-> IF j \in runner.found THEN 0
                                 ELSE IF missed[j] < Never THEN missed[j] + 1 ELSE Never]
    /\ runner' = [at |-> "idle", found |-> {}]
    /\ UNCHANGED <<running, wgPort, cliOk, seenAt, inventory, hostMoves, cliRuns>>

(* The interval passes and the next round is due. *)
NextRound ==
    /\ runner.at = "idle"
    /\ runner' = [at |-> "due", found |-> {}]
    /\ seenAt' = [j \in Jobs |-> IF seenAt[j] < Never THEN seenAt[j] + 1 ELSE Never]
    /\ UNCHANGED <<running, wgPort, cliOk, targets, inventory, missed, hostMoves, cliRuns>>

(* The runner is restarted in the middle of a round. *)
RunnerRestarts ==
    /\ runner.at \in {"state", "targets"} /\ hostMoves < MaxHostMoves
    /\ runner' = [at |-> "due", found |-> {}] /\ hostMoves' = hostMoves + 1
    /\ UNCHANGED <<running, wgPort, cliOk, seenAt, targets, inventory, missed, cliRuns>>

(* python -m ops.discovery. *)
CliRuns ==
    /\ cliRuns < MaxCli /\ cliRuns' = cliRuns + 1
    /\ inventory' = {<<c, Kind(Suite[c])>> : c \in Found}
    /\ targets' = JobsFoundByCli
    /\ UNCHANGED <<running, wgPort, cliOk, seenAt, runner, missed, hostMoves>>

HostMoves ==
    /\ hostMoves < MaxHostMoves /\ hostMoves' = hostMoves + 1
    /\ \/ /\ \E c \in HostContainers :
                 running' = IF c \in running THEN running \ {c} ELSE running \cup {c}
          /\ UNCHANGED <<wgPort, cliOk>>
       \/ wgPort' = ~wgPort /\ UNCHANGED <<running, cliOk>>
       \/ cliOk' = ~cliOk /\ UNCHANGED <<running, wgPort>>
    /\ UNCHANGED <<seenAt, targets, inventory, runner, missed, cliRuns>>

DisNext ==
    \/ WriteInventory \/ SaveState \/ WriteTargets \/ NextRound
    \/ RunnerRestarts \/ CliRuns \/ HostMoves

DisSpec == DisInit /\ [][DisNext]_disVars

(* The loop of the runner goes on. *)
DisFairSpec ==
    /\ DisSpec
    /\ WF_disVars(WriteInventory) /\ WF_disVars(SaveState)
    /\ WF_disVars(WriteTargets) /\ WF_disVars(NextRound)

-----------------------------------------------------------------------------
(* Properties. *)

(* A target that the runner has seen is not dropped by rounds that miss it  *)
(* while they are fewer than its time to live covers, whatever restarts     *)
(* come between the state file and targets.json; only the command line      *)
(* form forgets (run_loop.run_once).                                        *)
MissedIsKept ==
    cliRuns = 0 => \A j \in Jobs : missed[j] < TargetTTL => j \in targets

(* What runs is scraped and what is gone is not: targets.json ends up with  *)
(* the agent and the bot exactly when they run, after failures of the       *)
(* docker CLI, restarts and runs of the command line form.  (The runner     *)
(* finds the exporter "wg" by its port only, the command line form also by  *)
(* its container.)                                                          *)
TargetsFollow ==
    \A j \in {"agent", "bot"} :
        /\ <>[](cliOk /\ j \in running) => <>[](j \in targets)
        /\ <>[](j \notin running) => <>[](j \notin targets)

=============================================================================
