--------------------------- MODULE DeviceOpsProofs ---------------------------
(***************************************************************************)
(* Proofs about the operations on one device, for any number of requests,  *)
(* keys, links and failed calls, with and without the removal of orphans.  *)
(***************************************************************************)
EXTENDS DeviceOps, TLAPS

Pc == {"idle", "read", "remove", "flush", "list", "set", "rollback", "commit", "store", "revoke",
       "consume", "serve", "end"}
OpRow == [pc : Pc, kind : Kinds, old : Nat, new : Nat, link : Nat]

DevTypeOK ==
    /\ device \in [key : Nat, revoked : BOOLEAN]
    /\ keys \in Nat
    /\ cfgs \subseteq [key : Nat, used : BOOLEAN]
    /\ links \in [Link -> {"none", "open", "used"}]
    /\ rowLock \in Op \cup {NoOp}
    /\ op \in [Op -> OpRow]
    /\ DOMAIN given = Op

\* What a request is doing says what kind of request it is.
OpFits(r) ==
    /\ r.pc = "serve" => r.kind = "link"
    /\ r.pc = "consume" => r.kind \in {"link", "conf"}
    /\ r.pc \in {"flush", "commit"} => r.kind \in {"reissue", "rotate"}
    /\ r.pc \in {"list", "set"} => r.kind \in {"reissue", "rotate", "resync"}
    /\ r.kind = "link" => r.link \in Link

\* A request that has written a new key and not committed it.
Locked == {"list", "set", "rollback", "commit"}
Holds(r) == r.kind \in {"reissue", "rotate"} /\ r.pc \in Locked

\* The row is locked by the one request that holds a new key, and no key is newer
\* than that one.
DevIInv ==
    /\ DevTypeOK
    /\ \A o \in Op : OpFits(op[o])
    /\ \A o \in Op : Holds(op[o]) <=> rowLock = o
    /\ \A o \in Op : rowLock = o => op[o].new = keys
    /\ device.key <= keys
    /\ ConfigHasKey

\* The key of the row never goes back to an earlier one, however reissues overlap.
KeyMovesForward == [][device.key <= device'.key]_devVars

-----------------------------------------------------------------------------
LEMMA DevInvInit == DevInit => DevIInv
  BY DeviceOpsAssumption DEF DevInit, DevIInv, DevTypeOK, OpRow, Pc, NewOp, Kinds, Holds, Locked, OpFits, Op,
     NoOp, ConfigHasKey, Link

\* One request moves: what is left to show of the invariant.
LEMMA OneMoves ==
    ASSUME DevIInv, NEW o \in Op, NEW r \in OpRow, op' = [op EXCEPT ![o] = r], OpFits(r),
           UNCHANGED keys, DOMAIN given' = Op,
           device' \in [key : Nat, revoked : BOOLEAN], cfgs' \subseteq [key : Nat, used : BOOLEAN],
           links' \in [Link -> {"none", "open", "used"}],
           device'.key <= keys, ConfigHasKey',
           \/ rowLock' = rowLock /\ (Holds(r) <=> Holds(op[o])) /\ r.new = op[o].new
           \/ Release(o) /\ ~Holds(r)
    PROVE  DevIInv'
  <1>1. /\ op' \in [Op -> OpRow] /\ op'[o] = r
        /\ \A q \in Op \ {o} : op'[q] = op[q]
    BY DEF DevIInv, DevTypeOK
  <1>2. rowLock' \in Op \cup {NoOp} /\ \A q \in Op \ {o} : rowLock' = q <=> rowLock = q
    BY DEF DevIInv, DevTypeOK, Release, Op, NoOp
  <1>3. Holds(r) <=> rowLock' = o
    BY DEF DevIInv, DevTypeOK, Release, Op, NoOp
  <1>4. DevTypeOK'
    BY <1>1, <1>2 DEF DevIInv, DevTypeOK
  <1>5. rowLock' = o => rowLock = o /\ r.new = op[o].new
    BY <1>3 DEF DevIInv, Release, NoOp, Op
  <1>6. \A q \in Op : OpFits(op'[q]) /\ (Holds(op'[q]) <=> rowLock' = q)
    BY <1>1, <1>2, <1>3 DEF DevIInv
  <1>7. \A q \in Op : rowLock' = q => op'[q].new = keys'
    BY <1>1, <1>2, <1>5 DEF DevIInv
  <1> QED
    BY <1>4, <1>6, <1>7 DEF DevIInv

LEMMA RowMoves ==
    ASSUME DevTypeOK, NEW o \in Op, NEW p \in Pc
    PROVE  /\ [op[o] EXCEPT !.pc = p] \in OpRow
           /\ [op[o] EXCEPT !.pc = p].pc = p
           /\ [op[o] EXCEPT !.pc = p].kind = op[o].kind
           /\ [op[o] EXCEPT !.pc = p].new = op[o].new
           /\ [op[o] EXCEPT !.pc = p].link = op[o].link
  <1>1. op[o] \in OpRow
    BY DEF DevTypeOK
  <1> QED
    BY <1>1 DEF OpRow

\* The same for a request of which only the place changes.
LEMMA PlaceMoves ==
    ASSUME DevIInv, NEW o \in Op, NEW p \in Pc, OpGoes(o, p), p # "consume",
           p = "serve" => op[o].kind = "link",
           p \in {"flush", "commit"} => op[o].kind \in {"reissue", "rotate"},
           p \in {"list", "set"} => op[o].kind \in {"reissue", "rotate", "resync"},
           \/ /\ rowLock' = rowLock
              /\ op[o].kind \in {"reissue", "rotate"} => (p \in Locked <=> op[o].pc \in Locked)
           \/ Release(o) /\ p \notin Locked,
           UNCHANGED keys, DOMAIN given' = Op,
           device' \in [key : Nat, revoked : BOOLEAN], cfgs' \subseteq [key : Nat, used : BOOLEAN],
           links' \in [Link -> {"none", "open", "used"}],
           device'.key <= keys, ConfigHasKey'
    PROVE  DevIInv'
  <1> DEFINE r == [op[o] EXCEPT !.pc = p]
  <1>1. /\ r \in OpRow /\ r.pc = p /\ r.kind = op[o].kind
        /\ r.new = op[o].new /\ r.link = op[o].link
    BY RowMoves DEF DevIInv
  <1>2. op' = [op EXCEPT ![o] = r]
    BY DEF OpGoes
  <1> HIDE DEF r
  <1>3. OpFits(r)
    BY <1>1 DEF DevIInv, OpFits
  <1>4. \/ rowLock' = rowLock /\ (Holds(r) <=> Holds(op[o])) /\ r.new = op[o].new
        \/ Release(o) /\ ~Holds(r)
    BY <1>1 DEF Holds
  <1> QED
    BY <1>1, <1>2, <1>3, <1>4, OneMoves

LEMMA RequestStep ==
    ASSUME DevIInv, NEW o \in Op,
           OpArrives(o) \/ OpenLink(o) \/ OpenConfig(o) \/ OpStep(o) \/ OpCrash(o)
    PROVE  DevIInv'
  <1>1. /\ device \in [key : Nat, revoked : BOOLEAN] /\ cfgs \subseteq [key : Nat, used : BOOLEAN]
        /\ links \in [Link -> {"none", "open", "used"}]
        /\ device.key \in Nat /\ device.key <= keys /\ ConfigHasKey
        /\ DOMAIN given = Op /\ op[o] \in OpRow /\ OpFits(op[o])
    BY DEF DevIInv, DevTypeOK
  <1>2. UNCHANGED dbVars => UNCHANGED <<device, keys, cfgs, links>> /\ (ConfigHasKey <=> ConfigHasKey')
    BY DEF dbVars, ConfigHasKey
  <1>3. CASE ReadDevice(o)
    <2> DEFINE q == IF device.revoked /\ op[o].kind # "block" THEN "end" ELSE "remove"
               r == [op[o] EXCEPT !.old = device.key, !.pc = q]
    <2>1. op' = [op EXCEPT ![o] = r]
      BY <1>3 DEF ReadDevice
    <2>2. /\ r \in OpRow /\ r.pc \notin Locked \cup {"serve", "consume", "flush"}
          /\ r.kind = op[o].kind /\ r.new = op[o].new /\ r.link = op[o].link
      BY <1>1 DEF OpRow, Pc, Locked
    <2>3. op[o].pc = "read" /\ UNCHANGED <<dbVars, given, rowLock>>
      BY <1>3 DEF ReadDevice, OpAt
    <2> HIDE DEF r
    <2>4. OpFits(r) /\ ~Holds(r) /\ ~Holds(op[o])
      BY <1>1, <2>2, <2>3 DEF OpFits, Holds, Locked
    <2> QED
      BY <1>1, <1>2, <2>1, <2>2, <2>3, <2>4, OneMoves
  <1>4. CASE RemoveOld(o) \/ RemoveOldFails(o)
    <2> DEFINE p == IF RemoveOld(o) THEN AfterRemove(o)
                    ELSE IF op[o].kind \in {"reset", "block"} THEN "end" ELSE AfterRemove(o)
    <2>1. /\ p \in Pc \ {"consume", "serve", "commit"}
          /\ p = "flush" => op[o].kind \in {"reissue", "rotate"}
          /\ p \in {"list", "set"} => op[o].kind = "resync"
          /\ op[o].kind \in {"reissue", "rotate"} => p \notin Locked
      BY DEF AfterRemove, Pc, Locked
    <2>2. OpGoes(o, p) /\ op[o].pc \notin Locked /\ UNCHANGED <<dbVars, given, rowLock>>
      BY <1>4 DEF RemoveOld, RemoveOldFails, OpAt, Locked
    <2> HIDE DEF p
    <2> QED
      BY <1>1, <1>2, <2>1, <2>2, PlaceMoves
  <1>5. CASE FlushKey(o)
    <2> DEFINE r == [op[o] EXCEPT !.new = keys + 1, !.pc = "list"]
    <2>1. /\ op' = [op EXCEPT ![o] = r] /\ rowLock = NoOp /\ rowLock' = o /\ keys' = keys + 1
          /\ UNCHANGED <<device, cfgs, links, given>> /\ op[o].pc = "flush"
      BY <1>5 DEF FlushKey, OpAt
    <2>2. keys \in Nat /\ keys + 1 \in Nat
      BY DEF DevIInv, DevTypeOK
    <2>3. \A n \in Nat : /\ [op[o] EXCEPT !.new = n, !.pc = "list"] \in OpRow
                         /\ [op[o] EXCEPT !.new = n, !.pc = "list"].new = n
      BY <1>1 DEF OpRow, Pc
    <2>4. /\ keys \in Nat /\ r \in OpRow /\ r.pc = "list" /\ r.kind = op[o].kind
          /\ r.new = keys + 1 /\ r.link = op[o].link
      BY <1>1, <2>2, <2>3 DEF OpRow
    <2> HIDE DEF r
    <2>5. /\ op' \in [Op -> OpRow] /\ op'[o] = r
          /\ \A q \in Op \ {o} : op'[q] = op[q]
      BY <2>1, <2>4 DEF DevIInv, DevTypeOK
    <2>6. OpFits(r) /\ Holds(r) /\ \A q \in Op : ~Holds(op[q])
      BY <1>1, <2>1, <2>4 DEF OpFits, Holds, Locked, DevIInv, NoOp, Op
    <2>7. DevTypeOK'
      BY <2>1, <2>4, <2>5 DEF DevIInv, DevTypeOK
    <2>8. \A q \in Op : OpFits(op'[q]) /\ (Holds(op'[q]) <=> rowLock' = q)
      BY <2>1, <2>5, <2>6 DEF DevIInv
    <2>9. \A q \in Op : rowLock' = q => op'[q].new = keys'
      BY <2>1, <2>4, <2>5
    <2>10. device'.key <= keys' /\ ConfigHasKey'
      BY <1>1, <2>1, <2>4 DEF ConfigHasKey
    <2> QED
      BY <2>7, <2>8, <2>9, <2>10 DEF DevIInv
  <1>6. CASE ListBeforeAdd(o)
    <2> DEFINE p == IF Taken(PeerKey(o)) THEN "rollback" ELSE "set"
    <2>1. p \in {"rollback", "set"}
      OBVIOUS
    <2>2. OpGoes(o, p) /\ op[o].pc = "list" /\ UNCHANGED <<dbVars, given, rowLock>>
      BY <1>6 DEF ListBeforeAdd, OpAt
    <2>3. op[o].kind \in {"reissue", "rotate", "resync"}
      BY <1>1, <2>2 DEF OpFits
    <2> HIDE DEF p
    <2> QED
      BY <1>1, <1>2, <2>1, <2>2, <2>3, PlaceMoves DEF Pc, Locked
  <1>7. CASE AddNew(o)
    <2> DEFINE p == IF op[o].kind = "resync" THEN "end" ELSE "commit"
    <2>1. OpGoes(o, p) /\ op[o].pc = "set" /\ UNCHANGED <<dbVars, given, rowLock>>
      BY <1>7 DEF AddNew, OpAt
    <2>2. /\ p \in {"end", "commit"}
          /\ p = "end" => op[o].kind = "resync"
          /\ p = "commit" => op[o].kind \in {"reissue", "rotate"}
      BY <1>1, <2>1 DEF OpFits
    <2> HIDE DEF p
    <2> QED
      BY <1>1, <1>2, <2>1, <2>2, PlaceMoves DEF Pc, Locked
  <1>8. CASE AddNewFails(o)
    <2>1. OpGoes(o, "rollback") /\ op[o].pc = "set" /\ UNCHANGED <<dbVars, given, rowLock>>
      BY <1>8 DEF AddNewFails, OpAt
    <2> QED
      BY <1>1, <1>2, <2>1, PlaceMoves DEF Pc, Locked
  <1>9. CASE RollbackOp(o) \/ OpCrash(o)
    <2>1. OpGoes(o, "end") /\ Release(o) /\ UNCHANGED <<dbVars, given>>
      BY <1>9 DEF RollbackOp, OpCrash
    <2> QED
      BY <1>1, <1>2, <2>1, PlaceMoves DEF Pc, Locked
  <1>10. CASE CommitKey(o)
    <2> DEFINE p == IF op[o].kind = "reissue" THEN "store" ELSE "end"
    <2>1. /\ OpGoes(o, p) /\ Release(o) /\ op[o].pc = "commit" /\ UNCHANGED <<keys, links, given>>
          /\ device' = [device EXCEPT !.key = op[o].new] /\ cfgs' = ReplaceConfigs(op[o].new)
      BY <1>10 DEF CommitKey, OpAt
    <2>2. p \in {"store", "end"}
      OBVIOUS
    <2> HIDE DEF p
    <2>3. op[o].new \in Nat /\ op[o].new = keys
      BY <1>1, <2>1 DEF DevIInv, Holds, Locked, OpRow, OpFits
    <2>4. /\ device' \in [key : Nat, revoked : BOOLEAN] /\ device'.key = keys
          /\ cfgs' \subseteq [key : Nat, used : BOOLEAN] /\ ConfigHasKey'
      BY <1>1, <2>1, <2>3 DEF ReplaceConfigs, ConfigHasKey
    <2>5. device'.key <= keys
      BY <2>3, <2>4
    <2> QED
      BY <1>1, <2>1, <2>2, <2>4, <2>5, PlaceMoves DEF Pc, Locked
  <1>11. CASE StoreAnswer(o)
    <2>1. OpGoes(o, "end") /\ op[o].pc = "store" /\ UNCHANGED <<device, keys, cfgs, links, given, rowLock>>
      BY <1>11 DEF StoreAnswer, OpAt
    <2>2. ConfigHasKey'
      BY <1>1, <2>1 DEF ConfigHasKey
    <2> QED
      BY <1>1, <2>1, <2>2, PlaceMoves DEF Pc, Locked
  <1>12. CASE CommitRevoke(o)
    <2>1. /\ OpGoes(o, "end") /\ op[o].pc = "revoke" /\ UNCHANGED <<keys, cfgs, links, given, rowLock>>
          /\ device' = [device EXCEPT !.revoked = TRUE]
      BY <1>12 DEF CommitRevoke, OpAt
    <2>2. device' \in [key : Nat, revoked : BOOLEAN] /\ device'.key = device.key
      BY <1>1, <2>1
    <2>3. ConfigHasKey'
      BY <1>1, <2>1, <2>2 DEF ConfigHasKey
    <2> QED
      BY <1>1, <2>1, <2>2, <2>3, PlaceMoves DEF Pc, Locked
  <1>13. CASE ConsumeLink(o)
    <2>1. /\ OpGoes(o, "serve") /\ op[o].pc = "consume" /\ op[o].kind = "link"
          /\ UNCHANGED <<device, keys, cfgs, given, rowLock>>
          /\ links' = [links EXCEPT ![op[o].link] = "used"]
      BY <1>13 DEF ConsumeLink, OpAt
    <2>2. links' \in [Link -> {"none", "open", "used"}]
      BY <1>1, <2>1
    <2>3. ConfigHasKey'
      BY <1>1, <2>1 DEF ConfigHasKey
    <2> QED
      BY <1>1, <2>1, <2>2, <2>3, PlaceMoves DEF Pc, Locked
  <1>14. CASE ConsumeConfig(o)
    <2>1. /\ OpGoes(o, "end") /\ op[o].pc = "consume" /\ op[o].kind = "conf"
          /\ UNCHANGED <<device, keys, links, rowLock>>
          /\ DOMAIN given' = DOMAIN given
          /\ cfgs' = {IF c.key = op[o].old THEN [c EXCEPT !.used = TRUE] ELSE c : c \in cfgs}
      BY <1>14 DEF ConsumeConfig, OpAt
    <2>2. cfgs' \subseteq [key : Nat, used : BOOLEAN]
      BY <1>1, <2>1
    <2>3. ConfigHasKey'
      BY <1>1, <2>1 DEF ConfigHasKey
    <2> QED
      BY <1>1, <2>1, <2>2, <2>3, PlaceMoves DEF Pc, Locked
  <1>15. CASE ServeLink(o)
    <2>1. /\ OpGoes(o, "end") /\ op[o].pc = "serve" /\ op[o].kind = "link"
          /\ UNCHANGED <<dbVars, rowLock>>
          /\ DOMAIN given' = DOMAIN given
      BY <1>1, <1>15 DEF ServeLink, OpAt, OpFits
    <2> QED
      BY <1>1, <1>2, <2>1, PlaceMoves DEF Pc, Locked
  <1>16. CASE OpArrives(o)
    <2>1. PICK k \in Kinds \ {"link", "conf"} :
             op' = [op EXCEPT ![o].kind = k,
                              ![o].pc = IF k = "reissue" /\ answer # NoPeerKey THEN "end" ELSE "read"]
      BY <1>16 DEF OpArrives
    <2> DEFINE q == IF k = "reissue" /\ answer # NoPeerKey THEN "end" ELSE "read"
               r == [op[o] EXCEPT !.kind = k, !.pc = q]
    <2>2. op' = [op EXCEPT ![o] = r]
      BY <2>1
    <2>3. /\ r \in OpRow /\ r.kind = k /\ r.pc \in {"end", "read"} /\ r.new = op[o].new
      BY <1>1 DEF OpRow, Pc
    <2>4. op[o].pc = "idle" /\ UNCHANGED <<dbVars, given, rowLock>>
      BY <1>16 DEF OpArrives, OpAt
    <2> HIDE DEF r
    <2>5. OpFits(r) /\ ~Holds(r) /\ ~Holds(op[o])
      BY <2>3, <2>4 DEF OpFits, Holds, Locked
    <2> QED
      BY <1>1, <1>2, <2>2, <2>3, <2>4, <2>5, OneMoves
  <1>17. CASE OpenLink(o)
    <2>1. PICK l \in Link :
             op' = [op EXCEPT ![o].kind = "link", ![o].link = l, ![o].pc = "consume"]
      BY <1>17 DEF OpenLink
    <2> DEFINE r == [op[o] EXCEPT !.kind = "link", !.link = l, !.pc = "consume"]
    <2>2. op' = [op EXCEPT ![o] = r]
      BY <2>1
    <2>3. l \in Nat
      BY DeviceOpsAssumption DEF Link
    <2>4. r \in OpRow /\ r.kind = "link" /\ r.pc = "consume" /\ r.link = l /\ r.new = op[o].new
      BY <1>1, <2>3 DEF OpRow, Pc, Kinds
    <2>5. op[o].pc = "idle" /\ UNCHANGED <<dbVars, given, rowLock>>
      BY <1>17 DEF OpenLink, OpAt
    <2> HIDE DEF r
    <2>6. OpFits(r) /\ ~Holds(r) /\ ~Holds(op[o])
      BY <2>4, <2>5 DEF OpFits, Holds, Locked
    <2> QED
      BY <1>1, <1>2, <2>2, <2>4, <2>5, <2>6, OneMoves
  <1>18. CASE OpenConfig(o)
    <2>1. PICK c \in cfgs :
             op' = [op EXCEPT ![o].kind = "conf", ![o].old = c.key, ![o].pc = "consume"]
      BY <1>18 DEF OpenConfig
    <2> DEFINE r == [op[o] EXCEPT !.kind = "conf", !.old = c.key, !.pc = "consume"]
    <2>2. c.key \in Nat
      BY <1>1
    <2>3. op' = [op EXCEPT ![o] = r]
      BY <2>1
    <2>4. r \in OpRow /\ r.kind = "conf" /\ r.pc = "consume" /\ r.new = op[o].new
      BY <1>1, <2>2 DEF OpRow, Pc, Kinds
    <2>5. op[o].pc = "idle" /\ UNCHANGED <<dbVars, given, rowLock>>
      BY <1>18 DEF OpenConfig, OpAt
    <2> HIDE DEF r
    <2>6. OpFits(r) /\ ~Holds(r) /\ ~Holds(op[o])
      BY <2>4, <2>5 DEF OpFits, Holds, Locked
    <2> QED
      BY <1>1, <1>2, <2>3, <2>4, <2>5, <2>6, OneMoves
  <1> QED
    BY <1>3, <1>4, <1>5, <1>6, <1>7, <1>8, <1>9, <1>10, <1>11, <1>12, <1>13, <1>14, <1>15, <1>16,
       <1>17, <1>18 DEF OpStep

LEMMA DevInvStep == DevIInv /\ [DevNext]_devVars => DevIInv'
  <1> SUFFICES ASSUME DevIInv, [DevNext]_devVars PROVE DevIInv'
    OBVIOUS
  <1>1. ASSUME NEW l \in Link, CreateLink(l) PROVE DevIInv'
    BY <1>1 DEF CreateLink, DevIInv, DevTypeOK, ConfigHasKey
  <1>2. CASE RoundReads \/ RoundApplies \/ UNCHANGED devVars
    BY <1>2 DEF RoundReads, RoundApplies, devVars, dbVars, DevIInv, DevTypeOK, ConfigHasKey
  <1>3. CASE AppRevokes
    BY <1>3 DEF AppRevokes, DevIInv, DevTypeOK, ConfigHasKey
  <1> QED
    BY <1>1, <1>2, <1>3, RequestStep DEF DevNext

LEMMA DevInvariant == DevSpec => []DevIInv
  BY DevInvInit, DevInvStep, PTL DEF DevSpec

\* Every configuration of the device that can still be downloaded carries the key of
\* its row, for any number of overlapping, failing and abandoned reissues, resets and
\* revokes: the new configuration replaces all others in the transaction that sets
\* the key.
THEOREM ConfigurationsHaveKey == DevSpec => []ConfigHasKey
  BY DevInvariant, PTL DEF DevIInv

\* Reissues commit in the order of their keys: the row lock is held from the flush of
\* a new key to the end of the transaction, so that no commit brings back an old key.
THEOREM KeysMoveForward == DevSpec => KeyMovesForward
  <1>1. DevIInv /\ [DevNext]_devVars => [device.key <= device'.key]_devVars
    <2> SUFFICES ASSUME DevIInv, DevNext PROVE device.key <= device'.key
      BY DEF devVars
    <2>1. device \in [key : Nat, revoked : BOOLEAN] /\ device.key <= keys
      BY DEF DevIInv, DevTypeOK
    <2>2. ASSUME NEW o \in Op, CommitKey(o) PROVE device.key <= device'.key
      <3>1. op[o].new = keys
        BY <2>2 DEF CommitKey, OpAt, DevIInv, OpFits, Holds, Locked
      <3> QED
        BY <2>1, <2>2, <3>1 DEF CommitKey
    <2>3. ASSUME device' = device \/ device' = [device EXCEPT !.revoked = TRUE]
          PROVE  device.key <= device'.key
      BY <2>1, <2>3
    <2> QED
      BY <2>2, <2>3 DEF DevNext, OpStep, OpArrives, OpenLink, OpenConfig, OpCrash, ReadDevice, RemoveOld,
         RemoveOldFails, FlushKey, ListBeforeAdd, AddNew, AddNewFails, RollbackOp, StoreAnswer,
         CommitRevoke, ConsumeLink, ServeLink, ConsumeConfig, CreateLink, RoundReads, RoundApplies,
         AppRevokes, dbVars
  <1> QED
    BY <1>1, DevInvariant, PTL DEF DevSpec, KeyMovesForward

-----------------------------------------------------------------------------
\* A download, through a one-time link or through the token of a configuration, gives
\* out the key of the row, for any number of overlapping downloads and reissues: the
\* configuration that was read may have been replaced since, and then the download of
\* it fails and the link serves the new one.
THEOREM DownloadsHaveKey == DevSpec => ServedHasKey
  <1>1. DevIInv /\ [DevNext]_devVars
          => [\A o \in Op : given'[o] # given[o] => given'[o] = device.key]_devVars
    <2> SUFFICES ASSUME DevIInv, DevNext, NEW o \in Op, given'[o] # given[o]
                 PROVE  given'[o] = device.key
      BY DEF devVars
    <2>1. \A c \in cfgs : c.key = device.key
      BY DEF DevIInv, ConfigHasKey
    <2>2. ASSUME NEW q \in Op, ServeLink(q) PROVE given'[o] = device.key
      <3>1. PICK c \in cfgs : given' = [given EXCEPT ![q] = c.key]
        BY <2>2 DEF ServeLink
      <3>2. o \in DOMAIN given
        BY DEF DevIInv, DevTypeOK
      <3> QED
        BY <2>1, <3>1, <3>2
    <2>3. ASSUME NEW q \in Op, ConsumeConfig(q) PROVE given'[o] = device.key
      <3>1. given' = [given EXCEPT ![q] = IF \E c \in cfgs : c.key = op[q].old THEN op[q].old ELSE @]
        BY <2>3 DEF ConsumeConfig
      <3>2. o \in DOMAIN given
        BY DEF DevIInv, DevTypeOK
      <3>3. q = o /\ \E c \in cfgs : c.key = op[q].old
        BY <3>1, <3>2
      <3> QED
        BY <2>1, <3>1, <3>2, <3>3
    <2>4. given' # given
      OBVIOUS
    <2> QED
      BY <2>2, <2>3, <2>4 DEF DevNext, OpStep, OpArrives, OpenLink, OpenConfig, OpCrash, ReadDevice, RemoveOld,
         RemoveOldFails, FlushKey, ListBeforeAdd, AddNew, AddNewFails, RollbackOp, CommitKey, StoreAnswer,
         CommitRevoke, ConsumeLink, CreateLink, RoundReads, RoundApplies, AppRevokes
  <1> QED
    BY <1>1, DevInvariant, PTL DEF DevSpec, ServedHasKey
=============================================================================
