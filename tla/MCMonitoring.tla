---------------------------- MODULE MCMonitoring ----------------------------
(***************************************************************************)
(* What operators see, in one run: node telemetry and the dashboard,       *)
(* container telemetry and alerts, scrape targets, the event stream and    *)
(* the handshake gate.  The parts share no variable, so `part` picks the   *)
(* one that moves: each goes through all of its states, and the state      *)
(* spaces add up instead of multiplying.                                   *)
(***************************************************************************)
EXTENDS Telemetry, Containers, Discovery, EventFeed, QualityGate

VARIABLE part

\* The parts that do not move start in one state only, in which nothing is reported.
MCInit ==
    /\ part \in {"telemetry", "containers", "discovery", "events", "gate"}
    /\ TelInit /\ ConInit /\ DisInit /\ FeedInit /\ GateTaskInit
    /\ part # "telemetry" => loopsUp = {} /\ room = 0 /\ \A n \in TNodes : feed[n].peer = "none"
    /\ room = 0 => \A n \in TNodes : feed[n].peer = "none"  \* one thing at a time
    /\ part # "containers" => \A h \in Engines : ~engine[h]
    /\ part # "discovery" => running = {}

MCNext ==
    \/ part = "telemetry" /\ TelNext
       /\ (\A n \in TNodes : feed[n].peer # "none" => feed'[n].reading = 1)  \* one thing at a time
       /\ UNCHANGED <<part, conVars, disVars, feedVars, gateVars>>
    \/ part = "containers" /\ ConNext /\ UNCHANGED <<part, telVars, disVars, feedVars, gateVars>>
    \/ part = "discovery" /\ DisNext /\ UNCHANGED <<part, telVars, conVars, feedVars, gateVars>>
    \/ part = "events" /\ FeedNext /\ UNCHANGED <<part, telVars, conVars, disVars, gateVars>>
    \/ part = "gate" /\ GateTaskNext /\ UNCHANGED <<part, telVars, conVars, disVars, feedVars>>

\* The fairness of the part that moves, as its module states it.
MCFairness ==
    /\ WF_telVars(part = "telemetry" /\ FetchServers /\ UNCHANGED room)
    /\ WF_telVars(part = "telemetry" /\ StoreServers /\ UNCHANGED room)
    /\ WF_telVars(part = "telemetry" /\ ReadForSnapshot /\ UNCHANGED room)
    /\ WF_telVars(part = "telemetry" /\ WriteSnapshotNodes /\ UNCHANGED room)
    /\ WF_telVars(part = "telemetry" /\ WriteSnapshotMeta /\ UNCHANGED room)
    /\ WF_telVars(part = "telemetry" /\ BuildReadsNodes /\ UNCHANGED room)
    /\ WF_telVars(part = "telemetry" /\ BuildWrites /\ UNCHANGED room)
    /\ WF_telVars(part = "telemetry" /\ StreamStep /\ UNCHANGED room)
    /\ WF_telVars(part = "telemetry" /\ ServerKeyExpires /\ UNCHANGED room)
    /\ WF_telVars(part = "telemetry" /\ DeviceKeyExpires /\ UNCHANGED room)
    /\ WF_telVars(part = "telemetry" /\ SnapshotExpires /\ UNCHANGED room)
    /\ WF_telVars(part = "telemetry" /\ HotExpires /\ UNCHANGED room)
    /\ WF_telVars(part = "telemetry" /\ SeriesAges /\ UNCHANGED room)
    /\ WF_conVars(part = "containers" /\ EvalHosts) /\ WF_conVars(part = "containers" /\ EvalStore)
    /\ WF_conVars(part = "containers" /\ ConTick) /\ WF_conVars(part = "containers" /\ ListAlerts)
    /\ \A h \in Engines : /\ WF_conVars(part = "containers" /\ EvalContainers(h))
                          /\ WF_conVars(part = "containers" /\ UiContainers(h))
    /\ WF_disVars(part = "discovery" /\ WriteInventory) /\ WF_disVars(part = "discovery" /\ SaveState)
    /\ WF_disVars(part = "discovery" /\ WriteTargets) /\ WF_disVars(part = "discovery" /\ NextRound)
    /\ WF_feedVars(part = "events" /\ Poll)
    /\ WF_gateVars(part = "gate" /\ SendPeers) /\ WF_gateVars(part = "gate" /\ StorePeers)
    /\ WF_gateVars(part = "gate" /\ MarkApplied)
    /\ WF_gateVars(part = "gate" /\ GateStarts) /\ WF_gateVars(part = "gate" /\ GateMarks)
    /\ WF_gateVars(part = "gate" /\ GateReadsAgain) /\ WF_gateVars(part = "gate" /\ GateVerifies)
    /\ WF_gateVars(part = "gate" /\ GatePasses)
    /\ WF_gateVars(part = "gate" /\ PollReadsDevices) /\ WF_gateVars(part = "gate" /\ PollFetches)
    /\ WF_gateVars(part = "gate" /\ PollWrites)

MCSpec ==
    /\ MCInit
    /\ [][MCNext]_<<part, telVars, conVars, disVars, feedVars, gateVars>>
    /\ MCFairness
=============================================================================
