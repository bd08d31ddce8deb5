----------------------------- MODULE MCAccounts -----------------------------
(***************************************************************************)
(* Payments, accounts, profiles, reminders, the gate before issuing and    *)
(* client configurations in one run.  They share no variable, so `part`    *)
(* picks the one that moves: each goes through all of its states, and the  *)
(* state spaces add up instead of multiplying.                             *)
(***************************************************************************)
EXTENDS MCPayments, Accounts, Profile, Reminders, IssueGate, ClientConfig

VARIABLE part

mcVars == <<part, vars, accVars, profVars, remVars, rateVars, confVars>>

\* The parts that do not move start in one state only.
MCInit ==
    /\ part \in {"payments", "accounts", "profile", "reminders", "gate", "config"}
    /\ Init /\ AccInit /\ ProfInit /\ RemInit /\ GateInit /\ ConfInit
    /\ part # "payments" => sub = [s \in Sub |-> NotActive]
    /\ part # "accounts" => user = "ok"
    /\ part # "reminders" => check = 0 /\ \A u \in Untils : until <= u

MCNext ==
    \/ part = "payments" /\ Next /\ UNCHANGED <<part, accVars, profVars, remVars, rateVars, confVars>>
    \/ part = "accounts" /\ AccNext
       \* The requests are interchangeable: they arrive in the order of their numbers.
       /\ (\A r \in 2..NReq : At(r, "idle") /\ ~At(r, "idle")' => ~At(r - 1, "idle"))
       /\ (user' = "banned" => now' = 0)  \* one thing at a time
       /\ UNCHANGED <<part, vars, profVars, remVars, rateVars, confVars>>
    \/ part = "profile" /\ ProfNext /\ UNCHANGED <<part, vars, accVars, remVars, rateVars, confVars>>
    \/ part = "reminders" /\ RemNext /\ UNCHANGED <<part, vars, accVars, profVars, rateVars, confVars>>
    \/ part = "gate" /\ GateNext /\ UNCHANGED <<part, vars, accVars, profVars, remVars, confVars>>
    \/ part = "config" /\ AskConfig /\ UNCHANGED <<part, vars, accVars, profVars, remVars, rateVars>>

MCSpec == MCInit /\ [][MCNext]_mcVars

-----------------------------------------------------------------------------
(* Instances.                                                              *)

Starts == 74..77

Same(f) == [k \in Header |-> <<f[k], f[k]>>]

\* Values left out, zero, legal, and too close to each other (S1 + 56 = S2).
ConfigProfiles == {NoParams} \cup
    [num : {<<>>, [S1 |-> 0, S2 |-> 56], [S1 |-> 15, S2 |-> 71],
            [S1 |-> 0, S2 |-> 0, Jmin |-> 64, Jmax |-> 100], [S1 |-> 0, S2 |-> 80, S3 |-> 4]},
     hd : {<<>>, Same(<<0, 0, 0, 0>>), Same(<<1, 2, 3, 4>>), Same(<<5, 0, 7, 7>>)},
     i1 : {"absent", "blank", "text"}]
NodeReports == {NoParams} \cup
    [num : {<<>>, [S2 |-> 80], [S1 |-> 0, S2 |-> 0], [S1 |-> 15, S2 |-> 80, Jc |-> 4, Jmin |-> 40, Jmax |-> 70],
            [S1 |-> 213, S2 |-> 237]},
     hd : {Same(<<0, 0, 0, 0>>), Same(<<1, 2, 3, 4>>), Same(<<900, 20, 77, 5>>)}, i1 : {"absent"}]
=============================================================================
