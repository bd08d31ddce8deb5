------------------------------ MODULE IssueGate ------------------------------
(***************************************************************************)
(* What a request to issue a device passes before and after the issuing    *)
(* itself (Issuance): the counter of the rate limit, the daily cap and the *)
(* Idempotency-Key.  All three are keys in Redis, read and written by      *)
(* separate commands, and all three fail open.  The rate limits of         *)
(* core/rate_limit.py are the same INCR and EXPIRE with other keys.  The   *)
(* Mini App counts on the same key as the API, has neither cap nor         *)
(* Idempotency-Key, and sends the configuration by Telegram afterwards.    *)
(* Admins issue peers under a rate limit and a client_request_id of their  *)
(* own, and without a cap.                                                 *)
(***************************************************************************)
EXTENDS Naturals

CONSTANTS NGate,        \* bound: requests, of one user and of one admin
          RateLimit,    \* issue_rate_limit_per_minute
          DailyCap,     \* config_regen_daily_cap
          MaxGateFaults \* bound: failures of Redis, crashes

Gate == 1..NGate
\* The endpoint of a request, and whose counter it is counted on.
GateKind == {"api", "app", "admin"}
Who(kind) == IF kind = "admin" THEN "admin" ELSE "user"
\* Every request but the last has the same Idempotency-Key or client_request_id.
HasKey(g) == g # NGate

ASSUME IssueGateAssumption ==
    /\ NGate \in Nat /\ MaxGateFaults \in Nat
    /\ RateLimit \in Nat \ {0} /\ DailyCap \in Nat \ {0}

VARIABLES
    rate,       \* ratelimit keys of the user and the admin: value, and whether it has a time to live
    daily,      \* issue:daily:<user>
    stored,     \* whose key is in the idempotency cache
    gate,       \* the requests
    made,       \* observer: devices issued since the daily key expired
    madeByKey,  \* observer: devices issued for the Idempotency-Key while it is valid
    crowded,    \* observer: two requests were past the cap and not yet counted, or Redis failed
    gateFaults

NoCount == [n |-> 0, ttl |-> FALSE]

rateVars == <<rate, daily, stored, gate, made, madeByKey, crowded, gateFaults>>

GateInit ==
    /\ rate = [w \in {"user", "admin"} |-> NoCount] /\ daily = 0 /\ stored = {}
    /\ gate = [g \in Gate |-> [pc |-> "idle", n |-> 0, kind |-> "api"]]
    /\ made = 0 /\ madeByKey = [w \in {"user", "admin"} |-> 0] /\ crowded = FALSE /\ gateFaults = 0

-----------------------------------------------------------------------------
GateAt(g, pc) == gate[g].pc = pc
W(g) == Who(gate[g].kind)
GateGoes(g, pc) == gate' = [gate EXCEPT ![g].pc = pc]
Issuing == {"lookup", "issue", "store", "count"}
GateFault == gateFaults < MaxGateFaults /\ gateFaults' = gateFaults + 1
Racing(g, h) == h # g /\ gate[h].kind = gate[g].kind /\ gate[h].pc \in Issuing
OnlyGate == UNCHANGED <<rate, daily, stored, made, madeByKey, crowded>>

\* INCR, for a request of the API, of the Mini App or of an admin.
CountRequest(g, kind) ==
    LET n == rate[Who(kind)].n + 1
    IN /\ GateAt(g, "idle")
       /\ rate' = [rate EXCEPT ![Who(kind)].n = n]
       /\ gate' = [gate EXCEPT ![g] = [pc |-> IF n = 1 THEN "expire" ELSE "limit",
                                       n |-> n, kind |-> kind]]
       /\ UNCHANGED <<daily, stored, made, madeByKey, crowded, gateFaults>>

\* EXPIRE, by the request that found the key missing.
StartWindow(g) ==
    /\ GateAt(g, "expire")
    /\ rate' = [rate EXCEPT ![W(g)].ttl = rate[W(g)].n > 0]
    /\ GateGoes(g, "limit")
    /\ UNCHANGED <<daily, stored, made, madeByKey, crowded, gateFaults>>

\* What follows the rate limit.
Admitted(g) == CASE gate[g].kind = "app" -> "issue" [] gate[g].kind = "api" -> "cap" [] OTHER -> "lookup"

\* 429, or on.
CheckLimit(g) ==
    /\ GateAt(g, "limit")
    /\ GateGoes(g, IF gate[g].n > RateLimit THEN "end" ELSE Admitted(g))
    /\ OnlyGate /\ UNCHANGED gateFaults

\* A command of the rate limit or the cap raises: the check is skipped.
GateFailsOpen(g) ==
    /\ gate[g].pc \in {"idle", "expire", "cap"} /\ GateFault
    /\ GateGoes(g, IF GateAt(g, "cap") THEN "lookup" ELSE Admitted(g))
    /\ crowded' = (crowded \/ GateAt(g, "cap"))
    /\ UNCHANGED <<rate, daily, stored, made, madeByKey>>

CheckCap(g) ==
    /\ GateAt(g, "cap")
    /\ GateGoes(g, IF daily >= DailyCap THEN "end" ELSE "lookup")
    /\ crowded' = (crowded \/ (daily < DailyCap /\ \E h \in Gate : Racing(g, h)))
    /\ UNCHANGED <<rate, daily, stored, made, madeByKey, gateFaults>>

\* A request whose key is in the cache is answered with the device it has issued; an
\* admin's, if that device is still there.
LookupKey(g) ==
    /\ GateAt(g, "lookup")
    /\ GateGoes(g, IF HasKey(g) /\ W(g) \in stored THEN "end" ELSE "issue")
    /\ crowded' = (crowded \/ \E h \in Gate : Racing(g, h))
    /\ UNCHANGED <<rate, daily, stored, made, madeByKey, gateFaults>>

\* issue_device, the configurations and the commit; or an error.
IssueDevice(g) ==
    /\ GateAt(g, "issue") /\ gate[g].kind # "app"
    /\ \/ /\ GateGoes(g, "store")
          /\ made' = IF gate[g].kind = "api" THEN made + 1 ELSE made
          /\ madeByKey' = IF HasKey(g) THEN [madeByKey EXCEPT ![W(g)] = @ + 1] ELSE madeByKey
       \/ GateGoes(g, "end") /\ UNCHANGED <<made, madeByKey>>
    /\ UNCHANGED <<rate, daily, stored, crowded, gateFaults>>

\* webapp_issue_device: the subscription, the node and the issuing, each of which may
\* fail, then the commit.
IssueForApp(g) ==
    /\ GateAt(g, "issue") /\ gate[g].kind = "app"
    /\ GateGoes(g, "deliver") \/ GateGoes(g, "end")
    /\ OnlyGate /\ UNCHANGED gateFaults

\* The background task sends the configuration once; a failure is only logged.
DeliverConfig(g) ==
    /\ GateAt(g, "deliver")
    /\ GateGoes(g, "end")
    /\ OnlyGate /\ UNCHANGED gateFaults

Stored(g) == IF gate[g].kind = "api" THEN "count" ELSE "end"

StoreKey(g) ==
    /\ GateAt(g, "store")
    /\ stored' = IF HasKey(g) THEN stored \cup {W(g)} ELSE stored
    /\ GateGoes(g, Stored(g))
    /\ UNCHANGED <<rate, daily, made, madeByKey, crowded, gateFaults>>

\* Mutant: the daily key is counted when the request has a key.
CountDeviceWithKey(g) ==
    /\ GateAt(g, "count")
    /\ daily' = IF HasKey(g) THEN daily + 1 ELSE daily
    /\ GateGoes(g, "end")
    /\ UNCHANGED <<rate, stored, made, madeByKey, crowded, gateFaults>>

\* INCR and EXPIRE of the daily key.
CountDevice(g) ==
    /\ GateAt(g, "count")
    /\ daily' = daily + 1
    /\ GateGoes(g, "end")
    /\ UNCHANGED <<rate, stored, made, madeByKey, crowded, gateFaults>>

\* Redis fails for one of the two, or the process dies.
GateLost(g) ==
    /\ gate[g].pc \notin {"idle", "end"} /\ GateFault
    /\ \/ GateAt(g, "store") /\ GateGoes(g, Stored(g))
       \/ GateGoes(g, "end")
    /\ crowded' = TRUE
    /\ UNCHANGED <<rate, daily, stored, made, madeByKey>>

\* Redis drops the keys whose time has come; a key without a time to live stays.
WindowEnds(w) ==
    /\ rate[w].n > 0 /\ rate[w].ttl
    /\ rate' = [rate EXCEPT ![w] = NoCount]
    /\ UNCHANGED <<daily, stored, gate, made, madeByKey, crowded, gateFaults>>
\* The daily key and the idempotency key live for a day after they were set.
DayEnds ==
    /\ \A g \in Gate : gate[g].pc \in {"idle", "end"}
    /\ daily' = 0 /\ stored' = {} /\ made' = 0 /\ madeByKey' = [w \in {"user", "admin"} |-> 0]
    /\ UNCHANGED <<rate, gate, crowded, gateFaults>>

GateStep(g) ==
    \/ StartWindow(g) \/ CheckLimit(g) \/ CheckCap(g) \/ LookupKey(g)
    \/ IssueDevice(g) \/ IssueForApp(g) \/ DeliverConfig(g) \/ StoreKey(g) \/ CountDevice(g)

GateNext ==
    \/ \E g \in Gate : GateStep(g) \/ GateFailsOpen(g) \/ GateLost(g)
                       \/ \E kind \in GateKind : CountRequest(g, kind)
    \/ WindowEnds("user") \/ WindowEnds("admin") \/ DayEnds

GateSpec == GateInit /\ [][GateNext]_rateVars

-----------------------------------------------------------------------------
(* Properties.                                                             *)

\* A request that is repeated after the first one was answered issues no second
\* device, and the cap holds over several windows of the rate limit, as long as no
\* two requests to one endpoint were on their way at once and Redis answered.
RepeatIssuesOnce == ~crowded => \A w \in {"user", "admin"} : madeByKey[w] <= 1
CapHolds == ~crowded => made <= DailyCap

\* "Too many ... requests. Try again later.": the counter of a window that was begun has
\* a time to live, or a request is on its way to give it one, so that nobody is locked
\* out for good, as long as Redis answers and no process dies between the commands.
WindowIsBounded ==
    gateFaults = 0 => \A w \in {"user", "admin"} :
        rate[w].n > 0 => rate[w].ttl \/ \E g \in Gate : GateAt(g, "expire") /\ W(g) = w

\* What the three keys in Redis promise together: a repetition issues nothing, the cap
\* of the day holds and no window lasts for ever.
GateHolds == RepeatIssuesOnce /\ CapHolds /\ WindowIsBounded
=============================================================================
