------------------------------ MODULE DeviceOps ------------------------------
(***************************************************************************)
(* What an admin or the bot does to one device in docker mode, beside the  *)
(* reconciliation loop: reissue (and rotate), reset, revoke of its peer,   *)
(* block, sync-peer, and the downloads of its configuration.  All of them  *)
(* call the node before or between the statements of their transaction.    *)
(*                                                                         *)
(* A key is a number, the configuration of a key is the key itself.  All   *)
(* keys of the device have the same tunnel address, so that at most one    *)
(* peer of the interface, the owner, receives its traffic.                 *)
(***************************************************************************)
EXTENDS Naturals, FiniteSets

CONSTANTS NOps,          \* bound: requests
          MaxKey,        \* bound: keys that are generated
          NLinks,        \* bound: one-time links
          PruneOrphans,  \* the loop removes peers that no device has
          MaxOpFaults    \* bound: failed calls to the node, crashes

Op == 1..NOps
Key == 0..MaxKey
Link == 1..NLinks
NoPeerKey == MaxKey + 1
NoOp == 0

ASSUME DeviceOpsAssumption ==
    /\ NOps \in Nat /\ MaxKey \in Nat /\ NLinks \in Nat /\ MaxOpFaults \in Nat
    /\ PruneOrphans \in BOOLEAN

VARIABLES
    device,       \* the devices row: its key, revoked_at
    keys,      \* number of keys generated
    cfgs,      \* issued_configs of the device: the key, consumed_at
    links,     \* one_time_download_tokens
    rowLock,   \* the request whose transaction has written the row
    answer,    \* the cached answer of the Idempotency-Key, or NoPeerKey
    peers,     \* keys of the device on the interface
    owner,     \* the one that has the address, or NoPeerKey
    op,        \* the requests
    devRound,  \* the loop: what it has read of the row
    given,     \* observer: the key of the configuration a download has answered with
    opFaults

devVars == <<device, keys, cfgs, links, rowLock, answer, peers, owner, op, devRound, given, opFaults>>
dbVars == <<device, keys, cfgs, links, answer>>
nodeVars == <<peers, owner>>

Kinds == {"reissue", "rotate", "reset", "revoke", "block", "resync", "link", "conf"}
NewOp == [pc |-> "idle", kind |-> "reset", old |-> 0, new |-> 0, link |-> 1]

DevInit ==
    /\ device = [key |-> 0, revoked |-> FALSE]
    /\ keys = 0
    /\ cfgs = {[key |-> 0, used |-> FALSE]}
    /\ links = [l \in Link |-> "none"]
    /\ rowLock = NoOp /\ answer = NoPeerKey
    /\ peers = {0} /\ owner = 0
    /\ op = [o \in Op |-> NewOp]
    /\ devRound = [pc |-> "idle", key |-> 0, revoked |-> FALSE]
    /\ given = [o \in Op |-> NoPeerKey]
    /\ opFaults = 0

-----------------------------------------------------------------------------
OpAt(o, pc) == op[o].pc = pc
OpGoes(o, pc) == op' = [op EXCEPT ![o].pc = pc]
Release(o) == rowLock' = IF rowLock = o THEN NoOp ELSE rowLock
OpFault == opFaults < MaxOpFaults /\ opFaults' = opFaults + 1
NoOpFault == UNCHANGED opFaults

\* wg set <key> remove, wg set <key> allowed-ips: the address moves to the last key.
WgRemove(k) == /\ peers' = peers \ {k}
               /\ owner' = IF owner = k THEN NoPeerKey ELSE owner
WgAdd(k) == peers' = peers \cup {k} /\ owner' = k
Taken(k) == owner \notin {k, NoPeerKey}

\* A request arrives.  One with the Idempotency-Key of an earlier one is answered
\* from the cache if there is an answer.
OpArrives(o) ==
    /\ OpAt(o, "idle")
    /\ \E k \in Kinds \ {"link", "conf"} :
          op' = [op EXCEPT ![o].kind = k,
                           ![o].pc = IF k = "reissue" /\ answer # NoPeerKey THEN "end" ELSE "read"]
    /\ UNCHANGED <<dbVars, nodeVars, given, rowLock, devRound>> /\ NoOpFault

\* The row is read; what is revoked is not touched again.
ReadDevice(o) ==
    /\ OpAt(o, "read")
    /\ op' = [op EXCEPT ![o].old = device.key,
                        ![o].pc = IF device.revoked /\ op[o].kind # "block" THEN "end" ELSE "remove"]
    /\ UNCHANGED <<dbVars, nodeVars, given, rowLock, devRound>> /\ NoOpFault

AfterRemove(o) ==
    CASE op[o].kind \in {"reissue", "rotate"} -> "flush"
      [] op[o].kind = "resync" -> "list"
      [] op[o].kind = "block" -> "end"
      [] OTHER -> "revoke"

\* The peer of the key that was read is removed.
RemoveOld(o) ==
    /\ OpAt(o, "remove")
    /\ WgRemove(op[o].old)
    /\ OpGoes(o, AfterRemove(o))
    /\ UNCHANGED <<dbVars, given, rowLock, devRound>> /\ NoOpFault

\* reset and block are refused when the node cannot be reached; the others go on.
RemoveOldFails(o) ==
    /\ OpAt(o, "remove") /\ OpFault
    /\ OpGoes(o, IF op[o].kind \in {"reset", "block"} THEN "end" ELSE AfterRemove(o))
    /\ UNCHANGED <<dbVars, nodeVars, given, rowLock, devRound>>

-----------------------------------------------------------------------------
(* admin_rotate_peer after the removal.                                    *)

\* The new key is flushed: the row is locked until the transaction ends.
FlushKey(o) ==
    /\ OpAt(o, "flush") /\ rowLock = NoOp /\ keys < MaxKey
    /\ rowLock' = o
    /\ keys' = keys + 1
    /\ op' = [op EXCEPT ![o].new = keys + 1, ![o].pc = "list"]
    /\ UNCHANGED <<device, cfgs, links, answer, nodeVars, given, devRound>> /\ NoOpFault

\* The peer that is set: a reissue has the new key, a peer sync that of the row.
PeerKey(o) == IF op[o].kind = "resync" THEN op[o].old ELSE op[o].new

\* add_peer lists the peers and refuses an address that another one has.
ListBeforeAdd(o) ==
    /\ OpAt(o, "list")
    /\ OpGoes(o, IF Taken(PeerKey(o)) THEN "rollback" ELSE "set")
    /\ UNCHANGED <<dbVars, nodeVars, given, rowLock, devRound>> /\ NoOpFault

AddNew(o) ==
    /\ OpAt(o, "set")
    /\ WgAdd(PeerKey(o))
    /\ OpGoes(o, IF op[o].kind = "resync" THEN "end" ELSE "commit")
    /\ UNCHANGED <<dbVars, given, rowLock, devRound>> /\ NoOpFault

AddNewFails(o) ==
    /\ OpAt(o, "set") /\ OpFault
    /\ OpGoes(o, "rollback")
    /\ UNCHANGED <<dbVars, nodeVars, given, rowLock, devRound>>

\* The old values are put back and the error ends the transaction.
RollbackOp(o) ==
    /\ OpAt(o, "rollback")
    /\ Release(o)
    /\ OpGoes(o, "end")
    /\ UNCHANGED <<dbVars, nodeVars, given, devRound>> /\ NoOpFault

\* Mutant: replace_existing is left at its default.
ReplaceConfigsKept(k) == cfgs \cup {[key |-> k, used |-> FALSE]}

\* persist_issued_configs_with_tokens(replace_existing=True).
ReplaceConfigs(k) == {[key |-> k, used |-> FALSE]}

CommitKey(o) ==
    /\ OpAt(o, "commit")
    /\ device' = [device EXCEPT !.key = op[o].new]
    /\ cfgs' = ReplaceConfigs(op[o].new)
    /\ Release(o)
    /\ OpGoes(o, IF op[o].kind = "reissue" THEN "store" ELSE "end")
    /\ UNCHANGED <<keys, links, answer, nodeVars, given, devRound>> /\ NoOpFault

\* store_idempotency_response; a failure of Redis is ignored.
StoreAnswer(o) ==
    /\ OpAt(o, "store")
    /\ answer' = op[o].new
    /\ OpGoes(o, "end")
    /\ UNCHANGED <<device, keys, cfgs, links, nodeVars, given, rowLock, devRound>> /\ NoOpFault

\* revoked_at is written and committed, whatever has happened to the key since.
CommitRevoke(o) ==
    /\ OpAt(o, "revoke") /\ rowLock = NoOp
    /\ device' = [device EXCEPT !.revoked = TRUE]
    /\ OpGoes(o, "end")
    /\ UNCHANGED <<keys, cfgs, links, answer, nodeVars, given, rowLock, devRound>> /\ NoOpFault

\* webapp_revoke_device: one transaction, which waits for the row and leaves the peer.
AppRevokes ==
    /\ ~device.revoked /\ rowLock = NoOp
    /\ device' = [device EXCEPT !.revoked = TRUE]
    /\ UNCHANGED <<keys, cfgs, links, answer, nodeVars, given, rowLock, op, devRound>> /\ NoOpFault

\* The API process dies: what was not committed is gone, the node keeps its peers.
OpCrash(o) ==
    /\ op[o].pc \notin {"idle", "end"} /\ OpFault
    /\ Release(o)
    /\ OpGoes(o, "end")
    /\ UNCHANGED <<dbVars, nodeVars, given, devRound>>

-----------------------------------------------------------------------------
(* Downloads.                                                              *)

\* A one-time link to whatever configuration is the latest when it is used.
CreateLink(l) ==
    /\ links[l] = "none" /\ ~device.revoked /\ cfgs # {}
    /\ links' = [links EXCEPT ![l] = "open"]
    /\ UNCHANGED <<device, keys, cfgs, answer, nodeVars, given, rowLock, op, devRound>> /\ NoOpFault

\* The token is found and neither consumed nor expired.
OpenLink(o) ==
    /\ OpAt(o, "idle")
    /\ \E l \in Link : /\ links[l] = "open"
                       /\ op' = [op EXCEPT ![o].kind = "link", ![o].link = l, ![o].pc = "consume"]
    /\ UNCHANGED <<dbVars, nodeVars, given, rowLock, devRound>> /\ NoOpFault

ConsumeLink(o) ==
    /\ OpAt(o, "consume") /\ op[o].kind = "link"
    /\ links' = [links EXCEPT ![op[o].link] = "used"]
    /\ OpGoes(o, "serve")
    /\ UNCHANGED <<device, keys, cfgs, answer, nodeVars, given, rowLock, devRound>> /\ NoOpFault

\* The latest configuration; a link that has been consumed for a revoked device gives
\* nothing.
ServeLink(o) ==
    /\ OpAt(o, "serve")
    /\ IF device.revoked \/ cfgs = {} THEN UNCHANGED given
       ELSE \E c \in cfgs : given' = [given EXCEPT ![o] = c.key]
    /\ OpGoes(o, "end")
    /\ UNCHANGED <<dbVars, nodeVars, rowLock, devRound>> /\ NoOpFault

\* GET /admin/configs/{token}/download: the token of one configuration.
OpenConfig(o) ==
    /\ OpAt(o, "idle")
    /\ \E c \in cfgs : /\ ~c.used
                       /\ op' = [op EXCEPT ![o].kind = "conf", ![o].old = c.key, ![o].pc = "consume"]
    /\ UNCHANGED <<dbVars, nodeVars, given, rowLock, devRound>> /\ NoOpFault

\* Mutant: the row that was read is served, whatever has happened to it.
ServeWhatWasRead(o) ==
    /\ OpAt(o, "consume") /\ op[o].kind = "conf"
    /\ given' = [given EXCEPT ![o] = op[o].old]
    /\ OpGoes(o, "end")
    /\ UNCHANGED <<dbVars, nodeVars, rowLock, devRound>> /\ NoOpFault

\* The row that was read is marked, and served once that is committed: the update of a
\* row that a reissue has deleted fails, and the request with it.
ConsumeConfig(o) ==
    /\ OpAt(o, "consume") /\ op[o].kind = "conf"
    /\ cfgs' = {IF c.key = op[o].old THEN [c EXCEPT !.used = TRUE] ELSE c : c \in cfgs}
    /\ given' = [given EXCEPT ![o] = IF \E c \in cfgs : c.key = op[o].old THEN op[o].old ELSE @]
    /\ OpGoes(o, "end")
    /\ UNCHANGED <<device, keys, links, answer, nodeVars, rowLock, devRound>> /\ NoOpFault

-----------------------------------------------------------------------------
(* The reconciliation loop for this device (DockerReconcile has its steps).*)

RoundReads ==
    /\ devRound.pc = "idle"
    /\ devRound' = [pc |-> "apply", key |-> device.key, revoked |-> device.revoked]
    /\ UNCHANGED <<dbVars, nodeVars, given, rowLock, op>> /\ NoOpFault

Wanted == IF devRound.revoked THEN {} ELSE {devRound.key}

\* Mutant: orphans are left.
RoundLeavesOrphans ==
    /\ devRound.pc = "apply"
    /\ LET add == {k \in Wanted : k \notin peers /\ owner = NoPeerKey}
       IN /\ peers' = peers \cup add
          /\ owner' = IF add # {} THEN devRound.key ELSE owner
    /\ devRound' = [devRound EXCEPT !.pc = "idle"]
    /\ UNCHANGED <<dbVars, given, rowLock, op>> /\ NoOpFault

\* Orphans are removed first, then a peer that is missing is added, unless another one
\* has its address.  A peer that has lost its address is listed as "(none)", which
\* compute_diff leaves alone.
RoundApplies ==
    /\ devRound.pc = "apply"
    /\ LET left == IF PruneOrphans THEN peers \cap Wanted ELSE peers
           own == IF owner \in left THEN owner ELSE NoPeerKey
           add == {k \in Wanted : k \notin left /\ own = NoPeerKey}
       IN /\ peers' = left \cup add
          /\ owner' = IF add # {} THEN devRound.key ELSE own
    /\ devRound' = [devRound EXCEPT !.pc = "idle"]
    /\ UNCHANGED <<dbVars, given, rowLock, op>> /\ NoOpFault

OpStep(o) ==
    \/ ReadDevice(o) \/ RemoveOld(o) \/ RemoveOldFails(o) \/ FlushKey(o) \/ ListBeforeAdd(o)
    \/ AddNew(o) \/ AddNewFails(o) \/ RollbackOp(o) \/ CommitKey(o) \/ StoreAnswer(o)
    \/ CommitRevoke(o) \/ ConsumeLink(o) \/ ServeLink(o) \/ ConsumeConfig(o)

DevNext ==
    \/ \E o \in Op : OpArrives(o) \/ OpenLink(o) \/ OpenConfig(o) \/ OpStep(o) \/ OpCrash(o)
    \/ \E l \in Link : CreateLink(l)
    \/ RoundReads \/ RoundApplies \/ AppRevokes

\* A request that was accepted runs to its end (asyncio) and the loop goes on.
DevFairness ==
    /\ \A o \in Op : WF_devVars(OpStep(o))
    /\ WF_devVars(RoundReads) /\ WF_devVars(RoundApplies)

DevSpec == DevInit /\ [][DevNext]_devVars
DevFairSpec == DevSpec /\ DevFairness

-----------------------------------------------------------------------------
(* Properties.                                                             *)

\* However reissues overlap, fail or are abandoned, every configuration that can
\* still be downloaded carries the key of the device's row.
ConfigHasKey == \A c \in cfgs : c.key = device.key

\* A download gives out the key that the row has at that moment, through a link and
\* through the token of a configuration, although a reissue may replace the
\* configuration between the read of the token and its commit.
ServedHasKey == [][\A o \in Op : given'[o] # given[o] => given'[o] = device.key]_devVars

\* When orphans are removed, the key of the row gets the address in the end, also after
\* a failed or abandoned reissue or a block, unless its peer stays listed as "(none)",
\* as a resync leaves it that was overtaken by a reissue; and a device that is reset or
\* revoked is cut off, although a round or a reissue may add a key of it between the
\* removal and the commit.
BareKey == device.key \in peers /\ owner = NoPeerKey
DeviceSettles ==
    /\ <>[](~device.revoked /\ ~BareKey) => <>[](owner = device.key)
    /\ <>[](device.revoked => peers = {})
=============================================================================
