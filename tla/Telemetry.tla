------------------------------ MODULE Telemetry ------------------------------
(***************************************************************************)
(* The telemetry pipeline.  The poll loop reads the nodes and writes one   *)
(* redis key per server, then the snapshot aggregator writes the snapshot  *)
(* keys one by one.  The live aggregator turns them into the hot state, a  *)
(* stream turns the hot state into events, and a console applies those.    *)
(* All of it goes through redis keys that expire when their writer stops.  *)
(*                                                                         *)
(* Docker mode.  list_peers of a node that does not answer is an empty     *)
(* list, so its reading is one of zeros and not a missing one; with agents *)
(* the poll loop ends in the same empty list, and only the endpoint of one *)
(* server looks at the heartbeat itself.                                   *)
(***************************************************************************)
EXTENDS Naturals, FiniteSets

CONSTANTS TNodes,      \* servers
          MaxReading,  \* bound: readings each node has in turn
          PromUp,      \* Prometheus is configured and answers
          MaxTurns     \* bound: times a loop, a node, a server or a stream goes away

ASSUME TelemetryAssumption ==
    TNodes # {} /\ MaxReading \in Nat \ {0} /\ MaxTurns \in Nat /\ PromUp \in BOOLEAN

VARIABLES
    feed,     \* of each server: is_active, whether its node answers, its reading, and
              \* whether it lists the peer of the server's device, if it has one
    loopsUp,  \* which of the two loops runs: "poll", "live"
    tpoll,    \* the poll loop: pc, and what it holds
    served,   \* telemetry:server:*
    devSeen,  \* the servers whose device has a telemetry key
    snapNodes,\* the snapshot key "nodes"
    snapMeta, \* the snapshot key "meta": its freshness
    builder,  \* the live aggregator: pc, the nodes snapshot it has read
    hot,      \* live:nodes:state
    room,     \* live_obs_max_event_bytes, as nodes an event may hold
    strm,     \* the stream: connected, prev_snapshot
    screen,   \* what the console shows: nodes, mode
    series,   \* dashboard:timeseries:cluster: age of the newest point
    turns     \* how often something has gone away

pollPart == <<tpoll, served, devSeen, snapNodes, snapMeta>>
livePart == <<builder, hot>>
telVars == <<feed, loopsUp, pollPart, livePart, room, strm, screen, series, turns>>

Turn == turns < MaxTurns /\ turns' = turns + 1

Absent == 0
Zeros == MaxReading + 1   \* no peers, no traffic
NoNodes == [n \in {} |-> Absent]
IdlePoll == [pc |-> "idle", got |-> NoNodes, devs |-> {}]
NoSnap == [there |-> FALSE, nodes |-> NoNodes]
NoHot == [there |-> FALSE, nodes |-> NoNodes, mode |-> "none"]

TelInit ==
    /\ \E p \in {"none", "listed"} :
          feed = [n \in TNodes |-> [active |-> TRUE, up |-> TRUE, reading |-> 1, peer |-> p]]
    /\ loopsUp \in SUBSET {"poll", "live"}
    /\ tpoll = IdlePoll
    /\ served = [n \in TNodes |-> Absent] /\ devSeen = {}
    /\ snapNodes = NoSnap /\ snapMeta = "none"
    /\ builder = [pc |-> "idle", snap |-> NoSnap]
    /\ hot = NoHot
    /\ room \in 0..Cardinality(TNodes)
    /\ strm = [open |-> FALSE, prev |-> NoHot]
    /\ screen = [nodes |-> NoNodes, mode |-> "none"]
    /\ series = "empty" /\ turns = 0

-----------------------------------------------------------------------------
(* run_telemetry_poll_loop.                                                *)

PollTargets == {n \in TNodes : feed[n].active}

\* What list_peers makes of a node, and whether the device is among the peers.
LiveReading(n) == IF feed[n].up THEN feed[n].reading ELSE Zeros
Lists(n) == feed[n].up /\ feed[n].peer = "listed"

FetchServers ==
    /\ "poll" \in loopsUp /\ tpoll.pc = "idle"
    /\ tpoll' = [pc |-> "store", got |-> [n \in PollTargets |-> LiveReading(n)],
                 devs |-> {n \in PollTargets : Lists(n)}]
    /\ UNCHANGED <<feed, loopsUp, served, devSeen, snapNodes, snapMeta, livePart, strm, screen, series, turns>>

\* The key of each server and of each device that was listed, and a point of the series.
StoreServers ==
    /\ tpoll.pc = "store"
    /\ served' = [n \in TNodes |-> IF n \in DOMAIN tpoll.got THEN tpoll.got[n] ELSE served[n]]
    /\ devSeen' = devSeen \cup tpoll.devs
    /\ series' = "fresh"
    /\ tpoll' = [IdlePoll EXCEPT !.pc = "read"]
    /\ UNCHANGED <<feed, loopsUp, snapNodes, snapMeta, livePart, strm, screen, turns>>

\* run_snapshot_aggregator: every active server is listed, with what its key says;
\* the devices without a key are stale.
ReadForSnapshot ==
    /\ tpoll.pc = "read"
    /\ tpoll' = [pc |-> "nodes", got |-> [n \in PollTargets |-> served[n]],
                 devs |-> {n \in PollTargets : feed[n].peer # "none"} \ devSeen]
    /\ UNCHANGED <<feed, loopsUp, served, devSeen, snapNodes, snapMeta, livePart, strm, screen, series, turns>>

WriteSnapshotNodes ==
    /\ tpoll.pc = "nodes"
    /\ snapNodes' = [there |-> TRUE, nodes |-> tpoll.got]
    /\ tpoll' = [tpoll EXCEPT !.pc = "meta"]
    /\ UNCHANGED <<feed, loopsUp, served, devSeen, snapMeta, livePart, strm, screen, series, turns>>
WriteSnapshotMeta ==
    /\ tpoll.pc = "meta"
    /\ snapMeta' = IF tpoll.devs # {} \/ \E n \in DOMAIN tpoll.got : tpoll.got[n] = Absent
                   THEN "degraded" ELSE "fresh"
    /\ tpoll' = IdlePoll
    /\ UNCHANGED <<feed, loopsUp, served, devSeen, snapNodes, livePart, strm, screen, series, turns>>

-----------------------------------------------------------------------------
(* run_live_metrics_aggregator.                                            *)
BuildReadsNodes ==
    /\ "live" \in loopsUp /\ builder.pc = "idle"
    /\ builder' = [pc |-> "meta", snap |-> snapNodes]
    /\ UNCHANGED <<feed, loopsUp, pollPart, hot, strm, screen, series, turns>>

\* Without a nodes snapshot the hot state is empty and says circuit_open.  Without
\* the meta snapshot the iteration fails.
BuildWrites ==
    /\ builder.pc = "meta"
    /\ builder' = [pc |-> "idle", snap |-> NoSnap]
    /\ IF builder.snap.there /\ snapMeta = "none" THEN UNCHANGED <<hot, series>>
       ELSE /\ hot' = [there |-> TRUE, nodes |-> builder.snap.nodes,
                       mode |-> IF builder.snap.there THEN "normal" ELSE "circuit_open"]
            /\ series' = "fresh"
    /\ UNCHANGED <<feed, loopsUp, pollPart, strm, screen, turns>>

-----------------------------------------------------------------------------
(* GET /live/metrics.                                                      *)
OpenStream ==
    /\ ~strm.open
    /\ strm' = [open |-> TRUE, prev |-> NoHot]
    /\ screen' = [nodes |-> NoNodes, mode |-> "none"]
    /\ UNCHANGED <<feed, loopsUp, pollPart, livePart, series, turns>>
CloseStream ==
    /\ Turn
    /\ strm.open /\ strm' = [open |-> FALSE, prev |-> NoHot]
    /\ screen' = [nodes |-> NoNodes, mode |-> "none"]
    /\ UNCHANGED <<feed, loopsUp, pollPart, livePart, series>>


\* _compute_patch: the nodes of the hot state that are new or differ.
Changed(prev, cur) ==
    {n \in DOMAIN cur.nodes : n \notin DOMAIN prev.nodes \/ prev.nodes[n] # cur.nodes[n]}

Event(prev, cur) ==
    CASE ~cur.there -> [type |-> "degraded", nodes |-> NoNodes]
      [] cur.there /\ ~prev.there -> [type |-> "snapshot", nodes |-> cur.nodes]
      [] cur.there /\ prev.there /\ Changed(prev, cur) = {} -> [type |-> "keepalive", nodes |-> NoNodes]
      [] OTHER -> [type |-> "patch", nodes |-> [n \in Changed(prev, cur) |-> cur.nodes[n]]]

\* An event that is too large is not sent; prev_snapshot is the hot state all the same.
Sent(e) == e.type \in {"snapshot", "patch"} => Cardinality(DOMAIN e.nodes) <= room

\* What the console makes of an event.
Applied(e, mode) ==
    CASE e.type = "snapshot" -> [nodes |-> e.nodes, mode |-> mode]
      [] e.type = "patch" ->
            [nodes |-> [n \in DOMAIN screen.nodes \cup DOMAIN e.nodes |->
                            IF n \in DOMAIN e.nodes THEN e.nodes[n] ELSE screen.nodes[n]],
             mode |-> mode]
      [] e.type = "degraded" -> [screen EXCEPT !.mode = "circuit_open"]
      [] OTHER -> screen

StreamStep ==
    LET e == Event(strm.prev, hot)
    IN  /\ strm.open
        /\ screen' = IF Sent(e) THEN Applied(e, hot.mode) ELSE screen
        /\ strm' = IF hot.there THEN [strm EXCEPT !.prev = hot] ELSE strm
        /\ UNCHANGED <<feed, loopsUp, pollPart, livePart, series, turns>>

-----------------------------------------------------------------------------
(* A loop stops with its process, in any step, and is started again.       *)
LoopStops ==
    /\ Turn
    /\ \/ /\ "poll" \in loopsUp /\ loopsUp' = loopsUp \ {"poll"}
          /\ tpoll' = IdlePoll /\ UNCHANGED builder
       \/ /\ "live" \in loopsUp /\ loopsUp' = loopsUp \ {"live"}
          /\ builder' = [pc |-> "idle", snap |-> NoSnap] /\ UNCHANGED tpoll
    /\ UNCHANGED <<feed, served, devSeen, snapNodes, snapMeta, hot, strm, screen, series>>
LoopRestarts ==
    /\ \E l \in {"poll", "live"} \ loopsUp : loopsUp' = loopsUp \cup {l}
    /\ UNCHANGED <<feed, pollPart, livePart, strm, screen, series, turns>>

\* A key expires when it is not written again in time: the key of a server that is
\* no longer polled, of a device that is not listed, and the keys of a loop that
\* has stopped.
ServerKeyExpires ==
    \E n \in TNodes : /\ served[n] # Absent /\ ("poll" \notin loopsUp \/ n \notin PollTargets)
                      /\ served' = [served EXCEPT ![n] = Absent]
                      /\ UNCHANGED <<feed, loopsUp, tpoll, devSeen, snapNodes, snapMeta, livePart, strm, screen, series, turns>>
DeviceKeyExpires ==
    \E n \in devSeen : /\ "poll" \notin loopsUp \/ n \notin PollTargets \/ ~Lists(n)
                       /\ devSeen' = devSeen \ {n}
                       /\ UNCHANGED <<feed, loopsUp, tpoll, served, snapNodes, snapMeta, livePart, strm, screen, series, turns>>
SnapshotExpires ==
    /\ "poll" \notin loopsUp
    /\ \/ snapNodes.there /\ snapNodes' = NoSnap /\ UNCHANGED snapMeta
       \/ ~snapNodes.there /\ snapMeta # "none" /\ snapMeta' = "none" /\ UNCHANGED snapNodes
    /\ UNCHANGED <<feed, loopsUp, tpoll, served, devSeen, livePart, strm, screen, series, turns>>
HotExpires ==
    /\ "live" \notin loopsUp /\ hot.there /\ hot' = NoHot
    /\ UNCHANGED <<feed, loopsUp, pollPart, builder, strm, screen, series, turns>>
SeriesAges ==
    /\ loopsUp = {} /\ series # "empty"
    /\ series' = CASE series = "fresh" -> "degraded" [] series = "degraded" -> "stale" [] OTHER -> "empty"
    /\ UNCHANGED <<feed, loopsUp, pollPart, livePart, strm, screen, turns>>

-----------------------------------------------------------------------------
(* The nodes, and the servers table.                                       *)
NodeReports ==
    /\ \E n \in TNodes : /\ feed[n].up /\ feed[n].reading < MaxReading
                         /\ feed' = [feed EXCEPT ![n].reading = @ + 1]
    /\ UNCHANGED <<loopsUp, pollPart, livePart, strm, screen, series, turns>>
NodeToggles ==
    /\ Turn
    /\ \E n \in TNodes : feed' \in {[feed EXCEPT ![n].up = ~@],
                                    [feed EXCEPT ![n].peer = IF @ = "none" THEN @ ELSE IF @ = "listed" THEN "missing" ELSE "listed"]}
    /\ UNCHANGED <<loopsUp, pollPart, livePart, strm, screen, series>>
ServerToggles ==
    /\ Turn
    /\ \E n \in TNodes : feed' = [feed EXCEPT ![n].active = ~@]
    /\ UNCHANGED <<loopsUp, pollPart, livePart, strm, screen, series>>

-----------------------------------------------------------------------------
(* What the read endpoints answer.                                         *)

\* GET /telemetry/snapshot: the nodes section and the freshness in the meta section.
MetaFreshness == IF snapMeta = "none" THEN "stale" ELSE snapMeta
SnapshotAnswer == [nodes |-> snapNodes.nodes, freshness |-> MetaFreshness]

\* GET /overview/health-snapshot.
HealthFreshness == IF series = "empty" THEN "missing" ELSE series

\* GET /servers/{id}/telemetry: the key, else the node itself.  node_reachable is
\* true in both cases, whatever list_peers met.
ServerTelemetry(n) == IF served[n] # Absent THEN served[n] ELSE LiveReading(n)

\* fetch_operator_dashboard lists the active servers, or all of them if none is.
Listed == LET act == {n \in TNodes : feed[n].active} IN IF act = {} THEN TNodes ELSE act

\* A row of the dashboard: the nodes snapshot if it lists anything, else the key of
\* the server; the key dates the row when the snapshot does not.
FromSnapshot == snapNodes.there /\ snapNodes.nodes # NoNodes
RowReading(n) ==
    CASE ~PromUp -> Absent
      [] PromUp /\ FromSnapshot -> IF n \in DOMAIN snapNodes.nodes THEN snapNodes.nodes[n] ELSE Absent
      [] OTHER -> served[n]
RowDated(n) ==
    /\ PromUp
    /\ IF FromSnapshot THEN n \in DOMAIN snapNodes.nodes /\ (snapNodes.nodes[n] # Absent \/ served[n] # Absent)
       ELSE served[n] # Absent

\* The strip is as fresh as the newest point of the series; an empty series is
\* replaced by points that end now.
StripFreshness == IF series = "empty" THEN "fresh" ELSE series

\* Missing data counts only when the strip is stale.
DataStatus ==
    IF StripFreshness = "stale" /\ (~PromUp \/ \E n \in Listed : RowReading(n) = Absent)
    THEN "degraded" ELSE "ok"

-----------------------------------------------------------------------------
TelStep ==
    \/ FetchServers \/ StoreServers \/ ReadForSnapshot \/ WriteSnapshotNodes \/ WriteSnapshotMeta
    \/ BuildReadsNodes \/ BuildWrites
    \/ OpenStream \/ CloseStream \/ StreamStep
    \/ LoopStops \/ LoopRestarts
    \/ ServerKeyExpires \/ DeviceKeyExpires \/ SnapshotExpires \/ HotExpires \/ SeriesAges
    \/ NodeReports \/ NodeToggles \/ ServerToggles

TelNext == TelStep /\ UNCHANGED room

TelSpec == TelInit /\ [][TelNext]_telVars

\* The loops and the stream iterate for ever, and time passes.
TelFairSpec ==
    /\ TelSpec
    /\ WF_telVars(FetchServers /\ UNCHANGED room) /\ WF_telVars(StoreServers /\ UNCHANGED room)
    /\ WF_telVars(ReadForSnapshot /\ UNCHANGED room)
    /\ WF_telVars(WriteSnapshotNodes /\ UNCHANGED room) /\ WF_telVars(WriteSnapshotMeta /\ UNCHANGED room)
    /\ WF_telVars(BuildReadsNodes /\ UNCHANGED room) /\ WF_telVars(BuildWrites /\ UNCHANGED room)
    /\ WF_telVars(StreamStep /\ UNCHANGED room)
    /\ WF_telVars(ServerKeyExpires /\ UNCHANGED room) /\ WF_telVars(DeviceKeyExpires /\ UNCHANGED room)
    /\ WF_telVars(SnapshotExpires /\ UNCHANGED room)
    /\ WF_telVars(HotExpires /\ UNCHANGED room) /\ WF_telVars(SeriesAges /\ UNCHANGED room)

-----------------------------------------------------------------------------
\* A console that stays connected shows the reading of an active node in the end,
\* through two loops, three layers of keys that may have expired before, and patches
\* that hold only what has changed since the last event; as long as no event is too
\* large, for one that is dropped counts as sent.
ScreenFollows ==
    \A n \in TNodes :
        <>[](loopsUp = {"poll", "live"} /\ strm.open /\ feed[n].active /\ room >= Cardinality(TNodes))
            => <>[](n \in DOMAIN screen.nodes /\ screen.nodes[n] = LiveReading(n))

\* The dashboard and the snapshot endpoint follow too, between the writes of the
\* poll loop as well, and call the data fresh exactly when the device of every
\* active server is listed by its node.
DevicesSeen == \A n \in PollTargets : feed[n].peer = "none" \/ Lists(n)
DashboardFollows ==
    \A b \in BOOLEAN :
        <>[]("poll" \in loopsUp /\ PollTargets = Listed /\ DevicesSeen = b) =>
            <>[](/\ \A n \in Listed : PromUp => RowReading(n) = LiveReading(n) /\ RowDated(n)
                 /\ SnapshotAnswer = [nodes |-> [n \in PollTargets |-> LiveReading(n)],
                                      freshness |-> IF b THEN "fresh" ELSE "degraded"]
                 /\ HealthFreshness = "fresh" /\ StripFreshness = "fresh" /\ DataStatus = "ok")

\* A node that has stopped answering loses its last reading in the end, active or
\* not, whatever a round that was under way has still written.
DownIsShown ==
    \A n \in TNodes : <>[](~feed[n].up) => <>[](ServerTelemetry(n) = Zeros)

=============================================================================
