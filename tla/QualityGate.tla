----------------------------- MODULE QualityGate -----------------------------
(***************************************************************************)
(* Agent mode: the apply_status of one device.  The heartbeat of the       *)
(* device's agent, the handshake quality gate and a reissue write it; the  *)
(* gate judges by the telemetry in redis, which the heartbeat and the      *)
(* telemetry poll write for the device whose key they have read.           *)
(***************************************************************************)
EXTENDS Naturals

CONSTANTS DeviceKeys,   \* bound: keys the device has in turn
          PollsToo      \* node_telemetry_interval_seconds > 0: the poll loop runs

ASSUME QualityGateAssumption == DeviceKeys \in Nat \ {0} /\ PollsToo \in BOOLEAN

VARIABLES
    reporting,\* the agent runs
    conn,     \* the device: number of its key, whether that key has had a handshake
    msg,      \* the heartbeat that is handled: pc, key of the peer, its handshake
    hbPeers,  \* the peer in redis agent:hb:*
    status,   \* devices.apply_status
    unstable, \* devices.unstable_reason is set
    aged,     \* last_applied_at is older than the gate
    tele,     \* redis device_telemetry:*
    gate,     \* the quality gate: pc, whether it has picked the device
    poll      \* the telemetry poll: pc, and what it has read

gateVars == <<reporting, conn, msg, hbPeers, status, unstable, aged, tele, gate, poll>>
statusVars == <<status, unstable, aged>>

NoPeer == [key |-> 0, seen |-> FALSE]
NoMsg == [pc |-> "idle", peer |-> NoPeer]
NoPoll == [pc |-> "idle", key |-> 0, tele |-> "none"]

GateTaskInit ==
    /\ reporting = TRUE
    /\ conn = [key |-> 1, seen |-> FALSE]
    /\ msg = NoMsg /\ hbPeers = NoPeer
    /\ status = "PENDING_APPLY" /\ unstable = FALSE /\ aged = FALSE
    /\ tele = "none"
    /\ gate = [pc |-> "idle", picked |-> FALSE]
    /\ poll = NoPoll

\* The telemetry of a peer.
TeleOf(peer) == IF peer.seen THEN "seen" ELSE "silent"

-----------------------------------------------------------------------------
(* POST /agent/heartbeat.                                                  *)
SendPeers ==
    /\ reporting /\ msg.pc = "idle"
    /\ msg' = [pc |-> "store", peer |-> conn]
    /\ UNCHANGED <<reporting, conn, hbPeers, statusVars, tele, gate, poll>>

\* The heartbeat, and the telemetry of the device if the peer has its key.
StorePeers ==
    /\ msg.pc = "store"
    /\ hbPeers' = msg.peer
    /\ IF msg.peer.key = conn.key
       THEN tele' = TeleOf(msg.peer) /\ msg' = [msg EXCEPT !.pc = "apply"]
       ELSE msg' = NoMsg /\ UNCHANGED tele
    /\ UNCHANGED <<reporting, conn, statusVars, gate, poll>>

\* The peer is on the node: APPLIED, unless that was known.
MarkApplied ==
    /\ msg.pc = "apply"
    /\ IF status \in {"APPLIED", "VERIFIED"} THEN UNCHANGED <<status, aged>>
       ELSE status' = "APPLIED" /\ aged' = FALSE
    /\ msg' = NoMsg
    /\ UNCHANGED <<reporting, conn, hbPeers, unstable, tele, gate, poll>>

PeersExpire ==
    /\ ~reporting /\ hbPeers # NoPeer /\ hbPeers' = NoPeer
    /\ UNCHANGED <<reporting, conn, msg, statusVars, tele, gate, poll>>
TelemetryExpires ==
    /\ ~reporting /\ tele # "none" /\ tele' = "none"
    /\ UNCHANGED <<reporting, conn, msg, hbPeers, statusVars, gate, poll>>

-----------------------------------------------------------------------------
(* run_handshake_quality_gate_once: two passes, each reads the rows, then  *)
(* the telemetry, and updates the rows by their id.                        *)

\* Pass 1: APPLIED, past the gate, not marked yet, no handshake: ERROR.
GateStarts ==
    /\ gate.pc = "idle"
    /\ gate' = [pc |-> "pass1", picked |-> status = "APPLIED" /\ aged /\ ~unstable]
    /\ UNCHANGED <<reporting, conn, msg, hbPeers, statusVars, tele, poll>>
GateMarks ==
    /\ gate.pc = "pass1"
    /\ IF gate.picked /\ tele = "silent"
       THEN status' = "ERROR" /\ unstable' = TRUE /\ UNCHANGED aged
       ELSE UNCHANGED statusVars
    /\ gate' = [pc |-> "between", picked |-> FALSE]
    /\ UNCHANGED <<reporting, conn, msg, hbPeers, tele, poll>>

\* Mutant: pass 2 leaves out the rows that are marked, as pass 1 does.
EligibleUnmarked == status \in {"APPLIED", "ERROR"} /\ ~unstable

\* Pass 2: a handshake was seen: VERIFIED.
EligibleForVerified == status \in {"APPLIED", "ERROR"}
GateReadsAgain ==
    /\ gate.pc = "between"
    /\ gate' = [pc |-> "pass2", picked |-> EligibleForVerified]
    /\ UNCHANGED <<reporting, conn, msg, hbPeers, statusVars, tele, poll>>
GateVerifies ==
    /\ gate.pc = "pass2"
    /\ IF gate.picked /\ tele = "seen"
       THEN status' = "VERIFIED" /\ unstable' = FALSE /\ UNCHANGED aged
       ELSE UNCHANGED statusVars
    /\ gate' = [pc |-> "idle", picked |-> FALSE]
    /\ UNCHANGED <<reporting, conn, msg, hbPeers, tele, poll>>
GatePasses ==
    /\ ~aged /\ aged' = TRUE
    /\ UNCHANGED <<reporting, conn, msg, hbPeers, status, unstable, tele, gate, poll>>

-----------------------------------------------------------------------------
(* run_telemetry_poll_loop: the devices, then the heartbeats, then the     *)
(* telemetry of the peers that were matched.                               *)
PollReadsDevices ==
    /\ PollsToo /\ poll.pc = "idle"
    /\ poll' = [poll EXCEPT !.pc = "fetch", !.key = conn.key]
    /\ UNCHANGED <<reporting, conn, msg, hbPeers, statusVars, tele, gate>>
PollFetches ==
    /\ poll.pc = "fetch"
    /\ poll' = IF hbPeers.key = poll.key THEN [poll EXCEPT !.pc = "write", !.tele = TeleOf(hbPeers)] ELSE NoPoll
    /\ UNCHANGED <<reporting, conn, msg, hbPeers, statusVars, tele, gate>>
PollWrites ==
    /\ poll.pc = "write"
    /\ tele' = poll.tele
    /\ poll' = NoPoll
    /\ UNCHANGED <<reporting, conn, msg, hbPeers, statusVars, gate>>

-----------------------------------------------------------------------------
AgentToggles ==
    /\ reporting' = ~reporting
    /\ UNCHANGED <<conn, msg, hbPeers, statusVars, tele, gate, poll>>
Connects ==
    /\ ~conn.seen /\ conn' = [conn EXCEPT !.seen = TRUE]
    /\ UNCHANGED <<reporting, msg, hbPeers, statusVars, tele, gate, poll>>

\* In agent mode a reissue changes the key and leaves apply_status as it is.
Reissue ==
    /\ conn.key < DeviceKeys
    /\ conn' = [key |-> conn.key + 1, seen |-> FALSE]
    /\ UNCHANGED <<reporting, msg, hbPeers, statusVars, tele, gate, poll>>

GateTaskNext ==
    \/ SendPeers \/ StorePeers \/ MarkApplied \/ PeersExpire \/ TelemetryExpires
    \/ GateStarts \/ GateMarks \/ GateReadsAgain \/ GateVerifies \/ GatePasses
    \/ PollReadsDevices \/ PollFetches \/ PollWrites
    \/ AgentToggles \/ Connects \/ Reissue

GateTaskSpec == GateTaskInit /\ [][GateTaskNext]_gateVars

\* An agent that runs sends heartbeats, the gate and the poll are loops of the API
\* process, and time passes.
GateTaskFairSpec ==
    /\ GateTaskSpec
    /\ WF_gateVars(SendPeers) /\ WF_gateVars(StorePeers) /\ WF_gateVars(MarkApplied)
    /\ WF_gateVars(GateStarts) /\ WF_gateVars(GateMarks)
    /\ WF_gateVars(GateReadsAgain) /\ WF_gateVars(GateVerifies) /\ WF_gateVars(GatePasses)
    /\ WF_gateVars(PollReadsDevices) /\ WF_gateVars(PollFetches) /\ WF_gateVars(PollWrites)

-----------------------------------------------------------------------------
\* A device that is connected is VERIFIED in the end, also one that was marked for
\* want of a handshake before, while its agent reports.
ConnectedIsVerified == <>[](reporting /\ conn.seen) => <>[](status = "VERIFIED")
=============================================================================
