------------------------------ MODULE MCDevices ------------------------------
(***************************************************************************)
(* How devices come to work and stay so, in one run: requests that issue   *)
(* them, the operations on one device, and the key and the obfuscation     *)
(* values of a node.  The parts share no variable, so `part` picks the one *)
(* that moves: each goes through all of its states, and the state spaces   *)
(* add up instead of multiplying.                                          *)
(***************************************************************************)
EXTENDS MCIssuance, DeviceOps, LiveKeys, Obfuscation

VARIABLE part

\* The parts that do not move start in one state only, in which nothing is wanted.
MCInit ==
    /\ part \in {"issuing", "device", "keys", "headers"}
    /\ Init /\ DevInit /\ KeyInit /\ ObfInit
    /\ part # "issuing" => limit = [s \in Sub |-> MaxLimit]
    /\ part # "keys" => \A s \in Hosts : ~agent[s].up /\ alias[s] = NoAlias
    /\ alias[CHOOSE s \in Hosts : TRUE] = NoAlias  \* the hosts are alike
    /\ part # "headers" => hRow = NoH

MCNext ==
    \/ part = "issuing" /\ Next /\ UNCHANGED <<part, devVars, keyVars, obfVars>>
    \/ part = "device" /\ DevNext /\ UNCHANGED <<part, vars, keyVars, obfVars>>
    \/ part = "keys" /\ KeyNext /\ UNCHANGED <<part, vars, devVars, obfVars>>
    \/ part = "headers" /\ ObfNext /\ UNCHANGED <<part, vars, devVars, keyVars>>

\* The fairness of the part that moves, as its module states it.
MCFairness ==
    /\ \A c \in Call : WF_vars(part = "issuing" /\ Step(c))
    /\ \A o \in Op : WF_devVars(part = "device" /\ OpStep(o))
    /\ WF_devVars(part = "device" /\ RoundReads) /\ WF_devVars(part = "device" /\ RoundApplies)
    /\ \A s \in Hosts : /\ WF_keyVars(part = "keys" /\ SendHeartbeat(s))
                        /\ WF_keyVars(part = "keys" /\ StoreHeartbeat(s))
                        /\ WF_keyVars(part = "keys" /\ EnsureServer(s))
                        /\ WF_keyVars(part = "keys" /\ PersistKey(s))
    /\ WF_obfVars(part = "headers" /\ AgentLoop)
    /\ SF_obfVars(part = "headers" /\ FetchParameters) /\ SF_obfVars(part = "headers" /\ ApplyAction)
    /\ \A i \in Issue : WF_obfVars(part = "headers" /\ (ReadNode(i) \/ CommitIssue(i) \/ AbortIssue(i)))

MCSpec == MCInit /\ [][MCNext]_<<part, vars, devVars, keyVars, obfVars>> /\ MCFairness
=============================================================================
