------------------------------ MODULE NodeAgent ------------------------------
(***************************************************************************)
(* Agent mode for one VPN node: the device table of the control plane, the *)
(* main loop of the node agent that pulls the desired state and reconciles *)
(* the WireGuard interface towards it, and the interface itself.           *)
(*                                                                         *)
(* The loop is single threaded, but the table changes between any two of   *)
(* its steps, the interface can restart, commands time out and the agent   *)
(* process can die.  Whether an interval (desired state, reconcile, action *)
(* poll) has elapsed when the loop looks at it is a free choice.           *)
(*                                                                         *)
(* The queue of agent actions is AgentActions; its variables are part of   *)
(* this module's state and its actions are taken at the loop's poll.       *)
(***************************************************************************)
EXTENDS AgentActions, FiniteSets

CONSTANTS NDevices,         \* devices ever issued, numbered by created_at
          NKeys,            \* key pairs ever generated
          NIps,             \* tunnel addresses of the subnet
          MaxMutations,     \* MAX_MUTATIONS_PER_CYCLE
          ReadOnly,         \* RECONCILE_READ_ONLY = 1
          AllowPruneEmpty,  \* ALLOW_PRUNE_EMPTY_DESIRED
          ActTypes,         \* types that an agent action may have
          WithPsk,          \* devices issued with a preshared key
          MaxEdits,         \* bound: changes of the device table
          MaxFaults         \* bound: restarts of the node (a fault, or new parameters
                            \*   written by the agent) and timed-out commands

Device == 1..NDevices
Key == 1..NKeys      \* public keys, numbered in the order they are generated
Ip == 1..NIps
NoIp == 0    \* "(none)": another peer took over the peer's allowed-ips

ASSUME NodeAgentAssumption ==
    /\ NDevices \in Nat /\ NKeys \in Nat /\ NIps \in Nat \ {0} /\ MaxMutations \in Nat
    /\ ReadOnly \in BOOLEAN /\ AllowPruneEmpty \in BOOLEAN
    /\ ActTypes \subseteq {"sync", "restart_service", "drain"}
    /\ WithPsk \subseteq Device
    /\ MaxEdits \in Nat /\ MaxFaults \in Nat

VARIABLES
    rows,       \* the devices table, as far as this node is concerned
    keys,       \* number of key pairs generated so far
    wg,         \* peers of the interface: public key -> allowed ip
    saved,      \* what awg-quick save last wrote
    pc,         \* where the agent's loop is
    fetched,    \* last_desired # 0: this process has fetched a desired state
    desired,    \* desired_peers, the cached desired state
    rtOk,       \* rt.ok
    rt,         \* rt.peers, read once per iteration
    plan,       \* the desired state the running reconcile works from
    todo,       \* to_add, to_update, to_remove, not yet attempted
    left,       \* mutations_left
    gone,       \* observer: keys that were not desired at some time since
                \*   this agent process started
    purged,     \* observer: keys the agent removed, not desired since
    edits, faults

tableVars == <<rows, keys>>
nodeVars == <<wg, saved>>
loopVars == <<fetched, desired, rtOk, rt>>
reconVars == <<plan, todo, left>>
boundVars == <<edits, faults>>
vars == <<actionVars, tableVars, nodeVars, pc, loopVars, reconVars,
          gone, purged, boundVars>>

-----------------------------------------------------------------------------
(* Device table.                                                           *)

NoKey == 0

\* st: "none" not issued yet, "deleted" row removed.
Row == [st : {"none", "active", "revoked", "deleted"}, suspended : BOOLEAN,
        key : Key \cup {NoKey}, ip : Ip, psk : BOOLEAN]

\* The fields of a row that does not exist yet mean nothing.
NotIssued == [st |-> "none", suspended |-> FALSE,
              key |-> NoKey, ip |-> 1, psk |-> FALSE]

\* One desired peer: device number (the order of the answer), address, psk.
PeerSpec == [dev : Device, ip : Ip, psk : BOOLEAN]

\* A partial function from keys to elements of S.
KeyMap(S) == UNION {[D -> S] : D \in SUBSET Key}

InDesired(r) == r.st = "active" /\ ~r.suspended

\* GET /agent/desired-state: non-revoked, non-suspended devices of the server.
DesiredKeys(table) == {table[d].key : d \in {e \in Device : InDesired(table[e])}}

DesiredState(table) ==
    [k \in DesiredKeys(table) |->
        LET d == CHOOSE e \in Device : InDesired(table[e]) /\ table[e].key = k
        IN  [dev |-> d, ip |-> table[d].ip, psk |-> table[d].psk]]

\* generate_wg_keypair: never a key that was generated before.
NewKey(k) == k = keys + 1 /\ keys' = k

\* allocate_address_for_device: the first host no non-revoked device uses.
UsedIps == {rows[d].ip : d \in {e \in Device : rows[e].st = "active"}}
FreeIps == Ip \ UsedIps
NextAddress(ip) == ip \in FreeIps /\ \A j \in FreeIps : ip <= j

\* Every committed change of the table, with the observers brought up to date.
Edit(table) ==
    /\ edits < MaxEdits
    /\ edits' = edits + 1
    /\ rows' = table
    /\ gone' = gone \cup (Key \ DesiredKeys(table))
    /\ purged' = purged \ DesiredKeys(table)
    /\ UNCHANGED <<actionVars, nodeVars, pc, loopVars, reconVars, faults>>

\* issue_device / admin_issue_peer in agent mode.
Issue(d, k) ==
    /\ rows[d].st = "none"
    /\ \A e \in 1..(d - 1) : rows[e].st # "none"
    /\ NewKey(k)
    /\ \E ip \in Ip :
          /\ NextAddress(ip)
          /\ Edit([rows EXCEPT ![d] = [st |-> "active", suspended |-> FALSE,
                                       key |-> k, ip |-> ip, psk |-> d \in WithPsk]])

\* revoke, bulk-revoke, reset and block in agent mode, and the expiry task.
Revoke(d) ==
    /\ rows[d].st = "active"
    /\ Edit([rows EXCEPT ![d].st = "revoked"])
    /\ UNCHANGED keys

\* PATCH /devices/{id} with revoked_at = null.
Unrevoke(d) ==
    /\ rows[d].st = "revoked"
    /\ Edit([rows EXCEPT ![d].st = "active"])
    /\ UNCHANGED keys

\* PATCH /devices/{id} with allowed_ips: no check against the other devices.
ChangeIp(d, ip) ==
    /\ rows[d].st \in {"active", "revoked"}
    /\ rows[d].ip # ip
    /\ Edit([rows EXCEPT ![d].ip = ip])
    /\ UNCHANGED keys

Delete(d) ==
    /\ rows[d].st \in {"active", "revoked"}
    /\ Edit([rows EXCEPT ![d].st = "deleted"])
    /\ UNCHANGED keys

Suspend(d) ==
    /\ rows[d].st = "active"
    /\ ~rows[d].suspended
    /\ Edit([rows EXCEPT ![d].suspended = TRUE])
    /\ UNCHANGED keys

\* resume_device does not ask whether the device is revoked.
Resume(d) ==
    /\ rows[d].st \in {"active", "revoked"}
    /\ rows[d].suspended
    /\ Edit([rows EXCEPT ![d].suspended = FALSE])
    /\ UNCHANGED keys

\* admin_rotate_peer in agent mode: a new key pair and always a preshared key.
Rotate(d, k) ==
    /\ rows[d].st = "active"
    /\ NewKey(k)
    /\ Edit([rows EXCEPT ![d].key = k, ![d].psk = TRUE])

TableEdit ==
    \E d \in Device :
        \/ \E k \in Key : Issue(d, k) \/ Rotate(d, k)
        \/ Revoke(d) \/ Unrevoke(d) \/ Delete(d) \/ Suspend(d) \/ Resume(d)
        \/ \E ip \in Ip : ChangeIp(d, ip)

-----------------------------------------------------------------------------
(* The WireGuard interface (external).                                     *)

Empty == [k \in {} |-> NoIp]

\* `awg set peer k allowed-ips ip`: the address moves here from any other peer.
WgSet(w, k, ip) ==
    [j \in DOMAIN w \cup {k} |->
        IF j = k THEN ip ELSE IF w[j] = ip THEN NoIp ELSE w[j]]

WgRemove(w, k) == [j \in DOMAIN w \ {k} |-> w[j]]

\* The interface comes up with the saved peers, or empty in a new container.
Restarted(w) == w = saved \/ w = Empty

NodeRestart ==
    /\ faults < MaxFaults
    /\ faults' = faults + 1
    /\ Restarted(wg')
    /\ UNCHANGED <<actionVars, tableVars, saved, pc, loopVars, reconVars,
                   gone, purged, edits>>

-----------------------------------------------------------------------------
(* The agent's loop: reading.                                              *)

Goto(from, to) == pc = from /\ pc' = to

\* Back to the top: rt is dead until it is read again.
ForgetRuntime == rtOk' = FALSE /\ rt' = Empty

\* rt = _runtime_state(...): the peers, or rt.ok = FALSE when docker exec fails.
ReadRuntime ==
    /\ Goto("top", "fetch")
    /\ \/ rtOk' = TRUE /\ rt' = wg
       \/ rtOk' = FALSE /\ rt' = Empty
    /\ UNCHANGED <<actionVars, tableVars, nodeVars, fetched, desired,
                   reconVars, gone, purged, boundVars>>

\* _apply_obfuscation_full_to_env: parameters that differ from the node's env
\* file are written and the container restarted, under the rt already read.
ApplyObfuscation ==
    \/ UNCHANGED <<wg, faults>>
    \/ rtOk /\ Restarted(wg') /\ faults < MaxFaults /\ faults' = faults + 1

FetchDesired ==
    /\ Goto("fetch", "reconcile")
    /\ fetched' = TRUE
    /\ desired' = DesiredState(rows)
    /\ ApplyObfuscation
    /\ UNCHANGED <<actionVars, tableVars, saved, rtOk, rt, reconVars,
                   gone, purged, edits>>

\* last_desired = 0 is always due.
FetchNotDue ==
    /\ Goto("fetch", "reconcile")
    /\ fetched
    /\ UNCHANGED <<actionVars, tableVars, nodeVars, loopVars, reconVars,
                   gone, purged, boundVars>>

\* Mutant: a failed fetch does not end the iteration.
FetchRaisedIgnored ==
    /\ Goto("fetch", "reconcile")
    /\ UNCHANGED <<actionVars, tableVars, nodeVars, loopVars, reconVars,
                   gone, purged, boundVars>>

\* _desired_state raised: the rest of the iteration is skipped.
FetchRaised ==
    /\ Goto("fetch", "top")
    /\ ForgetRuntime
    /\ UNCHANGED <<actionVars, tableVars, nodeVars, fetched, desired, reconVars,
                   gone, purged, boundVars>>

-----------------------------------------------------------------------------
(* The agent's loop: _reconcile.                                           *)

ToAdd(want, have) == DOMAIN want \ DOMAIN have
ToRemove(want, have) == DOMAIN have \ DOMAIN want
\* Mutant: a changed address is not an update.
ToUpdatePskOnly(want, have) ==
    {k \in DOMAIN want \cap DOMAIN have : want[k].psk}

\* A peer with a preshared key is rewritten in every cycle.
ToUpdate(want, have) ==
    {k \in DOMAIN want \cap DOMAIN have : want[k].ip # have[k] \/ want[k].psk}

\* Mutant: pruning is blocked whenever the interface has more peers.
PruneBlockedByCount(want, have) ==
    Cardinality(DOMAIN want) < Cardinality(DOMAIN have) /\ ~AllowPruneEmpty

PruneBlocked(want, have) ==
    DOMAIN want = {} /\ DOMAIN have # {} /\ ~AllowPruneEmpty

NoWork == [add |-> {}, upd |-> {}, rem |-> {}]

\* The head of _reconcile: the three lists from the desired state and the
\* runtime state read at the top of the iteration, or nothing when pruning is
\* blocked or the agent is read-only.
BeginReconcile(want) ==
    /\ plan' = want
    /\ left' = MaxMutations
    /\ todo' = IF PruneBlocked(want, rt) \/ ReadOnly
               THEN NoWork
               ELSE [add |-> ToAdd(want, rt), upd |-> ToUpdate(want, rt),
                     rem |-> ToRemove(want, rt)]

StartReconcile ==
    /\ Goto("reconcile", "mutate")
    /\ rtOk
    /\ BeginReconcile(desired)
    /\ UNCHANGED <<actionVars, tableVars, nodeVars, loopVars,
                   gone, purged, boundVars>>

SkipReconcile ==
    /\ Goto("reconcile", "poll")
    /\ UNCHANGED <<actionVars, tableVars, nodeVars, loopVars, reconVars,
                   gone, purged, boundVars>>

\* Mutant: mutations are counted up instead of down.
SucceedsCountsUp == left' = left + 1 /\ UNCHANGED faults

\* A command that succeeds takes effect and uses up one mutation; one that
\* fails or times out uses up none, and may have taken effect.
Succeeds == left' = left - 1 /\ UNCHANGED faults
Fails == faults < MaxFaults /\ faults' = faults + 1 /\ UNCHANGED left

\* Adds go before updates, both in the order of the desired state.
SetNow == IF todo.add # {} THEN todo.add ELSE todo.upd
IsNext(k) == k \in SetNow /\ \A j \in SetNow : plan[k].dev <= plan[j].dev

SetPeer(k) ==
    /\ pc = "mutate" /\ left > 0
    /\ IsNext(k)
    /\ todo' = [todo EXCEPT !.add = @ \ {k},
                            !.upd = IF todo.add # {} THEN @ ELSE @ \ {k}]
    /\ \/ Succeeds /\ wg' = WgSet(wg, k, plan[k].ip)
       \/ Fails /\ wg' \in {wg, WgSet(wg, k, plan[k].ip)}
    /\ UNCHANGED <<actionVars, tableVars, saved, pc, loopVars, plan,
                   gone, purged, edits>>

\* Removes come last, in the order of the interface's dump.
RemovePeer(k) ==
    /\ pc = "mutate" /\ left > 0
    /\ SetNow = {}
    /\ k \in todo.rem
    /\ todo' = [todo EXCEPT !.rem = @ \ {k}]
    /\ \/ Succeeds /\ wg' = WgRemove(wg, k)
       \/ Fails /\ wg' \in {wg, WgRemove(wg, k)}
    /\ purged' = IF k \in DOMAIN wg' \/ k \in DesiredKeys(rows)
                 THEN purged ELSE purged \cup {k}
    /\ UNCHANGED <<actionVars, tableVars, saved, pc, loopVars, plan, gone, edits>>

ReconcileOver ==
    /\ pc = "mutate"
    /\ left = 0 \/ (SetNow = {} /\ todo.rem = {})

\* The lists of a reconcile that is over are dead.
ForgetLists == plan' = Empty /\ todo' = NoWork /\ left' = MaxMutations

\* awg-quick save when something changed; its exit code is not looked at.
SaveConfig ==
    \/ saved' = (IF left < MaxMutations THEN wg ELSE saved) /\ UNCHANGED faults
    \/ /\ left < MaxMutations /\ UNCHANGED saved
       /\ faults < MaxFaults /\ faults' = faults + 1

FinishReconcile ==
    /\ ReconcileOver
    /\ held = NoAction
    /\ pc' = "poll"
    /\ SaveConfig
    /\ ForgetLists
    /\ UNCHANGED <<actionVars, tableVars, wg, loopVars, gone, purged, edits>>

-----------------------------------------------------------------------------
(* The agent's loop: agent actions.                                        *)

\* The poll is sent, and its handler has read the queue.
AskPoll(a) ==
    /\ pc = "poll"
    /\ rtOk
    /\ PollRead(a)
    /\ UNCHANGED <<tableVars, nodeVars, pc, loopVars, reconVars, gone, purged, boundVars>>

PollAction(a) ==
    /\ Goto("poll", "act")
    /\ PollAnswered(a)
    /\ UNCHANGED <<tableVars, nodeVars, loopVars, reconVars, gone, purged, boundVars>>

\* The interval has not elapsed, rt.ok is false, no action is pending, or the
\* poll raised, at any time of its handling.
NoPoll ==
    /\ Goto("poll", "top")
    /\ IF asked = NoAction THEN UNCHANGED actionVars ELSE PollTimedOut
    /\ ForgetRuntime
    /\ UNCHANGED <<tableVars, nodeVars, fetched, desired, reconVars, gone, purged, boundVars>>

\* The type is a column of the row; it matters only here, where the agent looks at it,
\* once for every action.
OfType(t) == t \in ActTypes

\* sync: a fresh desired state, but the runtime state of the iteration's top.
SyncFetch ==
    /\ Goto("act", "mutate")
    /\ OfType("sync")
    /\ BeginReconcile(DesiredState(rows))
    /\ UNCHANGED <<actionVars, tableVars, nodeVars, loopVars, gone, purged, boundVars>>

\* Mutant: a sync that got no desired state is reported as completed.
SyncFetchErrorIgnored ==
    /\ Goto("act", "report")
    /\ OfType("sync")
    /\ report' = "completed"
    /\ UNCHANGED <<status, asked, slow, held, late, effect, crashes>>
    /\ UNCHANGED <<tableVars, nodeVars, loopVars, reconVars, gone, purged, boundVars>>

SyncFetchRaised ==
    /\ Goto("act", "report")
    /\ OfType("sync")
    /\ effect' = effect /\ WorkFailed
    /\ UNCHANGED <<tableVars, nodeVars, loopVars, reconVars, gone, purged, boundVars>>

\* Mutant: the sync leaves the older cached desired state in place.
FinishSyncKeepsCache ==
    /\ ReconcileOver
    /\ held # NoAction
    /\ pc' = "report"
    /\ SaveConfig
    /\ ForgetLists
    /\ WorkDone
    /\ UNCHANGED <<tableVars, wg, desired, fetched, rtOk, rt, gone, purged, edits>>

\* The cached desired state is replaced once the reconcile is through.
FinishSync ==
    /\ ReconcileOver
    /\ held # NoAction
    /\ pc' = "report"
    /\ SaveConfig
    /\ desired' = plan
    /\ ForgetLists
    /\ WorkDone
    /\ UNCHANGED <<tableVars, wg, fetched, rtOk, rt, gone, purged, edits>>

\* docker restart: a timeout is reported as a failure, restarted or not.
RestartService ==
    /\ Goto("act", "report")
    /\ OfType("restart_service")
    /\ \/ WorkDone /\ Restarted(wg') /\ UNCHANGED faults
       \/ /\ faults < MaxFaults /\ faults' = faults + 1
          /\ WorkFailed
          /\ IF effect' = effect THEN UNCHANGED wg ELSE Restarted(wg')
    /\ UNCHANGED <<tableVars, saved, loopVars, reconVars, gone, purged, edits>>

\* drain, undrain and the other types the agent only acknowledges.
Acknowledge ==
    /\ Goto("act", "report")
    /\ OfType("drain")
    /\ WorkDone
    /\ UNCHANGED <<tableVars, nodeVars, loopVars, reconVars, gone, purged, boundVars>>

Report ==
    /\ pc = "report"
    /\ SendReport
    /\ IF held' = NoAction THEN pc' = "top" /\ ForgetRuntime
       ELSE UNCHANGED <<pc, rtOk, rt>>
    /\ UNCHANGED <<tableVars, nodeVars, fetched, desired, reconVars, gone, purged, boundVars>>

\* The process dies and starts again: nothing it knew survives.
Crash ==
    /\ AgentCrash
    /\ pc' = "top"
    /\ fetched' = FALSE /\ desired' = Empty
    /\ ForgetRuntime
    /\ ForgetLists
    /\ gone' = Key \ DesiredKeys(rows)
    /\ UNCHANGED <<tableVars, nodeVars, purged, boundVars>>

\* The control plane's side of the queue: requests of admins, and exchanges
\* that failed at the agent and are handled all the same.
Backend ==
    /\ Late \/ \E a \in Action : CreateAction(a)
    /\ UNCHANGED <<tableVars, nodeVars, pc, loopVars, reconVars, gone, purged, boundVars>>

-----------------------------------------------------------------------------
Init ==
    /\ ActionsInit
    /\ rows = [d \in Device |-> NotIssued]
    /\ keys = 0
    /\ wg = Empty /\ saved = Empty
    /\ pc = "top"
    /\ fetched = FALSE /\ desired = Empty
    /\ rtOk = FALSE /\ rt = Empty
    /\ plan = Empty /\ todo = NoWork /\ left = MaxMutations
    /\ gone = Key /\ purged = {}
    /\ edits = 0 /\ faults = 0

Fetch == FetchDesired \/ FetchNotDue \/ FetchRaised
Mutate == FinishReconcile \/ FinishSync \/ \E k \in Key : SetPeer(k) \/ RemovePeer(k)
Act == SyncFetch \/ SyncFetchRaised \/ RestartService \/ Acknowledge

Loop ==
    \/ ReadRuntime \/ Fetch
    \/ StartReconcile \/ SkipReconcile \/ Mutate
    \/ NoPoll \/ \E a \in Action : AskPoll(a) \/ PollAction(a)
    \/ Act \/ Report

Next ==
    \/ TableEdit
    \/ Loop
    \/ NodeRestart
    \/ Crash
    \/ Backend

Spec == Init /\ [][Next]_vars

\* The loop never stops; the control plane is reachable while the interface is
\* readable again and again; intervals elapse.  Nothing is assumed of admins.
Reads == ReadRuntime /\ rtOk'
Fetches == rtOk /\ FetchDesired
FairSpec ==
    /\ Spec
    /\ WF_vars(Loop)
    /\ SF_vars(Reads) /\ SF_vars(Fetches) /\ SF_vars(StartReconcile)

-----------------------------------------------------------------------------
(* Properties.                                                             *)

\* The types of the device table, the interface and the agent's loop; a cycle never has
\* more mutations to spend than MAX_MUTATIONS_PER_CYCLE.
TypeOK ==
    /\ ActionsTypeOK
    /\ rows \in [Device -> Row]
    /\ keys \in 0..NKeys
    /\ wg \in KeyMap(Ip \cup {NoIp}) /\ saved \in KeyMap(Ip \cup {NoIp})
    /\ pc \in {"top", "fetch", "reconcile", "mutate", "poll", "act", "report"}
    /\ fetched \in BOOLEAN
    /\ desired \in KeyMap(PeerSpec) /\ plan \in KeyMap(PeerSpec)
    /\ rtOk \in BOOLEAN
    /\ rt \in KeyMap(Ip \cup {NoIp})
    /\ todo \in [add : SUBSET Key, upd : SUBSET Key, rem : SUBSET Key]
    /\ left \in 0..MaxMutations
    /\ gone \in SUBSET Key /\ purged \in SUBSET Key
    /\ edits \in 0..MaxEdits /\ faults \in 0..MaxFaults

\* The agent removes a peer only if its device was out of the desired state at
\* some time since this agent process started: a client whose device stayed
\* active is never cut off by a restart of the agent, a failed or old desired
\* state, or a sync action between two reconciles.
RemovalJustified ==
    [][todo' # todo => (DOMAIN wg \ DOMAIN wg') \subseteq gone]_vars

\* A peer the agent has removed does not come back by the agent's hand while
\* its device stays out of the desired state: no older desired state is used
\* after a newer one, in the cached reconcile nor in the sync action.
PurgedStaysOut ==
    [][todo' # todo => (DOMAIN wg' \ DOMAIN wg) \cap purged = {}]_vars

\* The loop handles the action queue exactly as AgentActions says.
QueueRefined == ActionsSpec

\* A peer whose device stays out of the desired state is removed, provided
\* some other device stays in it (otherwise pruning is blocked) and a cycle has
\* mutations to spare.
OrphanIsRemoved ==
    \A k \in Key :
        <>[](k \notin DesiredKeys(rows) /\ DesiredKeys(rows) # {})
            => <>[](k \notin DOMAIN wg)

\* A peer that stays desired with an address no other desired peer has ends up
\* with exactly that address on the interface.
Owns(k, ip) ==
    \E d \in Device :
        /\ InDesired(rows[d]) /\ rows[d].key = k /\ rows[d].ip = ip
        /\ \A e \in Device \ {d} : InDesired(rows[e]) => rows[e].ip # ip
AddressSettles ==
    \A k \in Key, ip \in Ip :
        <>[]Owns(k, ip) => <>[](k \in DOMAIN wg /\ wg[k] = ip)

\* suspend_device: "Desired-state will exclude it so agent removes peer
\* traffic".  Not so when the cycle's mutations are used up by the updates.
SuspendedIsRemoved ==
    \A d \in Device :
        <>[](rows[d].st = "active" /\ rows[d].suspended) => <>[](rows[d].key \notin DOMAIN wg)
=============================================================================
