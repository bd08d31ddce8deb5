------------------------------ MODULE LiveKeys ------------------------------
(***************************************************************************)
(* Agent mode: the public key of a server.  The node agents report it in   *)
(* their heartbeats, which expire; the row of the server keeps it; and     *)
(* every issue and reissue takes it from live_key_fetch.  Heartbeats are    *)
(* kept under the id the agent sends, a server's or a container's name.    *)
(***************************************************************************)
EXTENDS Naturals, FiniteSets

CONSTANTS Hosts,       \* servers
          NodeKeys     \* bound: keys each node has in turn

ASSUME LiveKeysAssumption == Hosts # {} /\ NodeKeys \in Nat \ {0}

VARIABLES
    agent,    \* of each server: whether its agent runs, the key of the node
    beat,     \* the heartbeat each agent has sent: pc, key
    hb,       \* redis agent:hb:*
    rowKey,   \* the servers row: the key, the server it is of, how old public_key_synced_at is
    alias     \* the heartbeat id that the container of api_endpoint is, when not the server's own

keyVars == <<agent, beat, hb, rowKey, alias>>

None == 0
NoAlias == "none"
NoRow == "none"
QuietBeat == [pc |-> "idle", key |-> None]

KeyInit ==
    /\ agent \in [Hosts -> [up : BOOLEAN, key : {1}]]
    /\ beat = [s \in Hosts |-> QuietBeat]
    /\ hb = [s \in Hosts |-> None]
    /\ rowKey = [s \in Hosts |-> [of |-> s, key |-> None, age |-> NoRow]]
    /\ alias \in {f \in [Hosts -> Hosts \cup {NoAlias}] : \A s \in Hosts : f[s] # s}

-----------------------------------------------------------------------------
(* POST /agent/heartbeat.                                                  *)
SendHeartbeat(s) ==
    /\ agent[s].up /\ beat[s].pc = "idle"
    /\ beat' = [beat EXCEPT ![s] = [pc |-> "store", key |-> agent[s].key]]
    /\ UNCHANGED <<agent, hb, rowKey, alias>>

StoreHeartbeat(s) ==
    /\ beat[s].pc = "store"
    /\ hb' = [hb EXCEPT ![s] = beat[s].key]
    /\ beat' = [beat EXCEPT ![s].pc = "ensure"]
    /\ UNCHANGED <<agent, rowKey, alias>>

\* _ensure_server_from_heartbeat: a server nobody has registered gets a row.
EnsureServer(s) ==
    /\ beat[s].pc = "ensure"
    /\ rowKey' = IF rowKey[s].age # NoRow THEN rowKey
                 ELSE [rowKey EXCEPT ![s] = [of |-> s, key |-> beat[s].key, age |-> "fresh"]]
    /\ beat' = [beat EXCEPT ![s].pc = "key"]
    /\ UNCHANGED <<agent, hb, alias>>

\* Mutant: only a row without a key gets one.
FillKeyOnce(s) ==
    /\ beat[s].pc = "key"
    /\ rowKey' = IF rowKey[s].key # None THEN rowKey
                 ELSE [rowKey EXCEPT ![s] = [of |-> s, key |-> beat[s].key, age |-> "fresh"]]
    /\ beat' = [beat EXCEPT ![s] = QuietBeat]
    /\ UNCHANGED <<agent, hb, alias>>

\* The row gets the key if it has another one.
PersistKey(s) ==
    /\ beat[s].pc = "key"
    /\ rowKey' = IF rowKey[s].key = beat[s].key /\ rowKey[s].of = s THEN rowKey
                 ELSE [rowKey EXCEPT ![s] = [of |-> s, key |-> beat[s].key, age |-> "fresh"]]
    /\ beat' = [beat EXCEPT ![s] = QuietBeat]
    /\ UNCHANGED <<agent, hb, alias>>

\* agent_heartbeat_ttl_seconds, FALLBACK_KEY_MAX_AGE_SECONDS.
HeartbeatExpires(s) ==
    /\ ~agent[s].up /\ hb[s] # None
    /\ hb' = [hb EXCEPT ![s] = None]
    /\ UNCHANGED <<agent, beat, rowKey, alias>>
HourPasses(s) ==
    /\ rowKey[s].age = "fresh" /\ rowKey' = [rowKey EXCEPT ![s].age = "old"]
    /\ UNCHANGED <<agent, beat, hb, alias>>

\* An admin registers the server before its agent has reported, without a key.
RegisterServer(s) ==
    /\ rowKey[s].age = NoRow /\ rowKey' = [rowKey EXCEPT ![s].age = "never"]
    /\ UNCHANGED <<agent, beat, hb, alias>>

-----------------------------------------------------------------------------
(* live_key_fetch, for an issue or reissue on a server.                    *)

Beating == {t \in Hosts : hb[t] # None}

\* The row's key counts unless it was synced more than an hour ago.
RowUsable(s) == rowKey[s].key # None /\ rowKey[s].age # "old"

\* Where the key comes from: the heartbeat of the container's name, the server's,
\* the row, the only heartbeat there is, or nowhere.
KeySource(s) ==
    IF alias[s] \in Beating THEN [of |-> alias[s], key |-> hb[alias[s]]]
    ELSE IF s \in Beating THEN [of |-> s, key |-> hb[s]]
    ELSE IF RowUsable(s) THEN [of |-> rowKey[s].of, key |-> rowKey[s].key]
    ELSE IF Cardinality(Beating) = 1
         THEN LET t == CHOOSE x \in Beating : TRUE IN [of |-> t, key |-> hb[t]]
    ELSE [of |-> s, key |-> None]

\* The key goes into the configuration and into the row, whose public_key_synced_at
\* stays; without a key the request is refused.
LiveKeyFetch(s) ==
    LET k == KeySource(s)
    IN  /\ rowKey[s].age # NoRow
        /\ rowKey' = IF k.key = None THEN rowKey ELSE [rowKey EXCEPT ![s].of = k.of, ![s].key = k.key]
        /\ UNCHANGED <<agent, beat, hb, alias>>

-----------------------------------------------------------------------------
AgentStops(s) ==
    /\ agent[s].up /\ agent' = [agent EXCEPT ![s].up = FALSE]
    /\ UNCHANGED <<beat, hb, rowKey, alias>>
AgentStarts(s) ==
    /\ ~agent[s].up
    /\ \E k \in {agent[s].key, agent[s].key + 1} \cap (1..NodeKeys) :
          agent' = [agent EXCEPT ![s] = [up |-> TRUE, key |-> k]]
    /\ UNCHANGED <<beat, hb, rowKey, alias>>

KeyNext ==
    \E s \in Hosts : \/ SendHeartbeat(s) \/ StoreHeartbeat(s) \/ EnsureServer(s) \/ PersistKey(s)
                     \/ HeartbeatExpires(s) \/ HourPasses(s) \/ RegisterServer(s) \/ LiveKeyFetch(s)
                     \/ AgentStops(s) \/ AgentStarts(s)

KeySpec == KeyInit /\ [][KeyNext]_keyVars

\* An agent that runs sends heartbeats, and they are handled.
KeyFairSpec ==
    /\ KeySpec
    /\ \A s \in Hosts : /\ WF_keyVars(SendHeartbeat(s)) /\ WF_keyVars(StoreHeartbeat(s))
                        /\ WF_keyVars(EnsureServer(s)) /\ WF_keyVars(PersistKey(s))

-----------------------------------------------------------------------------
\* Nobody reports under the name of the server's container.
Unnamed(s) == alias[s] \notin {t \in Hosts : agent[t].up} \cup Beating

\* Once the agent of a server stays up, configurations get its present key for
\* ever after a while, whatever other heartbeats, late heartbeats and earlier
\* fetches left in redis and in the row: the agent that reports under the name
\* of the server's container, and when there is none the server's own.
KeyIsCurrent ==
    \A s \in Hosts :
        /\ \A t \in Hosts : <>[](alias[s] = t /\ agent[t].up) =>
               <>[](KeySource(s) = [of |-> t, key |-> agent[t].key])
        /\ <>[](agent[s].up /\ Unnamed(s)) =>
               <>[](KeySource(s) = [of |-> s, key |-> agent[s].key] /\ rowKey[s].key = agent[s].key)
=============================================================================
