----------------------------- MODULE Throttling -----------------------------
(***************************************************************************)
(* Bandwidth policies: the administrator sets a rate per plan; the         *)
(* automation loop and the apply endpoint read the policies and the peers  *)
(* bound to a plan, and run tc commands on the node, one after the other:  *)
(* the root qdisc and its default class, a class per enabled policy,       *)
(* numbered in the order of the plans, the removal of the old filters, and *)
(* the filters of the peers.                                               *)
(*                                                                         *)
(* Each read and each command is a step, so that an edit, a command that   *)
(* fails and another run may come between them.  One node and one address  *)
(* per peer; class numbers start at 1 for the 1:10 of the code, and rate 0 *)
(* stands for the default class without a limit.  In agent mode the runtime *)
(* is not reachable and the endpoint refuses.                              *)
(*                                                                         *)
(* What `tc qdisc replace ... root handle 1: htb` does to a qdisc 1: that  *)
(* stands is the kernel's: where htb can be rebuilt, classes and filters   *)
(* go with the old one; where it cannot be changed in place the command    *)
(* fails, and no run gets further until the interface is made anew.        *)
(***************************************************************************)
EXTENDS Integers, Sequences, FiniteSets, SequencesExt

CONSTANTS
    PlanOrder,    \* the plans in the order of their ids
    TPeers,       \* peers of the node
    PlanOfPeer,   \* the plan of each of them
    Rates,        \* rates a policy may have
    MaxEdits,     \* edits of policies and of subscriptions, restarts of the node
    MaxApplies,   \* calls of the apply endpoint
    MaxTcFails    \* tc commands and listings that fail

ASSUME ThrottlingAssumption ==
    /\ Rates \subseteq Nat \ {0} /\ MaxEdits \in Nat /\ MaxApplies \in Nat
    /\ MaxTcFails \in Nat /\ PlanOfPeer \in [TPeers -> Range(PlanOrder)]

VARIABLES
    policy,   \* plan -> its rate, 0 when disabled or missing
    bound,    \* peers with an active subscription that the node carries
    rebuilds, \* the kernel replaces a root qdisc that stands
    root,     \* the root qdisc of a run stands
    class,    \* number -> rate of the tc class, 0 when there is none
    filters,  \* the filters at pref 100 in their order, [peer, class]
    run,      \* applier -> [at, rates, todo]
    edits, applies, tcFails,
    disturbed \* something changed or failed since the interface was made

thrVars == <<policy, bound, rebuilds, root, class, filters, run, edits, applies, tcFails, disturbed>>

TPlans == Range(PlanOrder)
Appliers == {"loop", "admin"}
NoRun == [at |-> "idle", rates |-> [q \in TPlans |-> 0], todo |-> <<>>]

ThrInit ==
    /\ policy = [q \in TPlans |-> 0] /\ bound = TPeers
    /\ rebuilds \in BOOLEAN /\ root = FALSE /\ disturbed = FALSE
    /\ class = [n \in 1..Len(PlanOrder) |-> 0] /\ filters = <<>>
    /\ run = [a \in Appliers |-> NoRun]
    /\ edits = 0 /\ applies = 0 /\ tcFails = 0

-----------------------------------------------------------------------------
(* The administrator, the subscriptions and the node. *)

Edit == /\ edits < MaxEdits /\ edits' = edits + 1
        /\ UNCHANGED <<rebuilds, run, applies, tcFails>>

(* A run has begun: what changes now it may have read before. *)
Begun == root \/ \E a \in Appliers : run[a].at # "idle"

(* upsert_throttling_policy: a rate, or a disabled policy. *)
UpsertPolicy ==
    /\ Edit /\ disturbed' = (disturbed \/ Begun)
    /\ \E q \in TPlans, r \in Rates \cup {0} :
          /\ policy[q] # r
          /\ policy' = [policy EXCEPT ![q] = r]
    /\ UNCHANGED <<bound, root, class, filters>>

(* A subscription starts or ends, a peer comes or goes. *)
PeerChanges ==
    /\ Edit /\ disturbed' = (disturbed \/ Begun)
    /\ \E k \in TPeers : bound' = IF k \in bound THEN bound \ {k} ELSE bound \cup {k}
    /\ UNCHANGED <<policy, root, class, filters>>

(* The container starts again: its interface is new and has no qdisc. *)
NodeRestarts ==
    /\ root /\ Edit
    /\ root' = FALSE /\ class' = [n \in DOMAIN class |-> 0] /\ filters' = <<>>
    /\ disturbed' = \E a \in Appliers : run[a].at # "idle"
    /\ UNCHANGED <<policy, bound>>

-----------------------------------------------------------------------------
(* apply_plan_bandwidth_policies. *)

(* The enabled policies, in the order of the plans. *)
Enabled(rates) == SelectSeq(PlanOrder, LAMBDA q : rates[q] # 0)

ClassCommands(rates) ==
    [n \in 1..Len(Enabled(rates)) |->
        [op |-> "class", n |-> n, rate |-> rates[Enabled(rates)[n]]]]

(* Mutant: the number of a class is the plan's place among all plans. *)
FilterCommandsOfAll(rates, peers) ==
    SetToSeq({[op |-> "filter", peer |-> k, n |-> CHOOSE i \in DOMAIN PlanOrder : PlanOrder[i] = PlanOfPeer[k]] :
              k \in {k \in peers : rates[PlanOfPeer[k]] # 0}})

(* A peer is bound to the class of its plan; one whose plan has no class in *)
(* this run is skipped.                                                     *)
FilterCommands(rates, peers) ==
    LET of == {[op |-> "filter", peer |-> k,
                n |-> CHOOSE i \in 1..Len(Enabled(rates)) :
                         Enabled(rates)[i] = PlanOfPeer[k]] :
               k \in {k \in peers : rates[PlanOfPeer[k]] # 0}}
    IN  SetToSeq(of)

(* The default class has no limit: it leaves no trace but its failure. *)
Commands(rates, peers) ==
    <<[op |-> "root"], [op |-> "default"]>> \o ClassCommands(rates) \o <<[op |-> "reset"]>> \o FilterCommands(rates, peers)

Start(a) ==
    /\ run[a].at = "idle"
    /\ a = "admin" => applies < MaxApplies
    /\ applies' = IF a = "admin" THEN applies + 1 ELSE applies
    /\ run' = [run EXCEPT ![a] = [NoRun EXCEPT !.at = "bind", !.rates = policy]]
    /\ UNCHANGED <<policy, bound, rebuilds, root, class, filters, edits, tcFails, disturbed>>

(* The bindings join the policies as they are now; the classes are those of *)
(* the policies read before.  A listing that fails is empty.                *)
Bind(a) ==
    /\ run[a].at = "bind"
    /\ \E listed \in {bound, {}} :
          /\ \/ listed = bound /\ UNCHANGED <<tcFails, disturbed>>
             \/ /\ listed # bound /\ tcFails < MaxTcFails
                /\ tcFails' = tcFails + 1 /\ disturbed' = TRUE
          /\ run' = [run EXCEPT ![a].at = "exec",
                                ![a].todo = Commands(run[a].rates,
                                               {k \in listed : policy[PlanOfPeer[k]] # 0})]
    /\ UNCHANGED <<policy, bound, rebuilds, root, class, filters, edits, applies>>

(* What a command does to <<root, class, filters>>. *)
Effect(c) ==
    CASE c.op = "root"    -> <<TRUE, [n \in DOMAIN class |-> 0], <<>>>>
      [] c.op = "default" -> <<root, class, filters>>
      [] c.op = "class"   -> <<root, [class EXCEPT ![c.n] = c.rate], filters>>
      [] c.op = "reset"   -> <<root, class, <<>>>>
      [] c.op = "filter"  -> <<root, class, Append(filters, [peer |-> c.peer, n |-> c.n])>>

(* Without a qdisc nothing can be hung below it; one that stands may be     *)
(* refused (see above).                                                     *)
Refused(c) == IF c.op = "root" THEN root /\ ~rebuilds ELSE ~root

(* A failure of the removal is ignored, also when there was something to    *)
(* remove; any other failure ends the run where it is.                      *)
CommandFailed(a) == run' = IF Head(run[a].todo).op = "reset" THEN [run EXCEPT ![a].todo = Tail(@)]
                    ELSE [run EXCEPT ![a] = NoRun]

Exec(a) ==
    /\ run[a].at = "exec" /\ run[a].todo # <<>>
    /\ IF Refused(Head(run[a].todo))
       THEN CommandFailed(a) /\ UNCHANGED <<root, class, filters>>
       ELSE /\ LET e == Effect(Head(run[a].todo))
               IN  root' = e[1] /\ class' = e[2] /\ filters' = e[3]
            /\ run' = [run EXCEPT ![a].todo = Tail(@)]
    /\ UNCHANGED <<policy, bound, rebuilds, edits, applies, tcFails, disturbed>>

TcFails(a) ==
    /\ run[a].at = "exec" /\ run[a].todo # <<>> /\ tcFails < MaxTcFails
    /\ tcFails' = tcFails + 1 /\ disturbed' = TRUE
    /\ CommandFailed(a)
    /\ UNCHANGED <<policy, bound, rebuilds, root, class, filters, edits, applies>>

Finish(a) ==
    /\ run[a].at = "exec" /\ run[a].todo = <<>>
    /\ run' = [run EXCEPT ![a] = NoRun]
    /\ UNCHANGED <<policy, bound, rebuilds, root, class, filters, edits, applies, tcFails, disturbed>>

ThrNext ==
    \/ UpsertPolicy \/ PeerChanges \/ NodeRestarts
    \/ \E a \in Appliers : Start(a) \/ Bind(a) \/ Exec(a) \/ TcFails(a) \/ Finish(a)

ThrSpec == ThrInit /\ [][ThrNext]_thrVars

(* A run goes on.  Whether the automation loop starts one is a setting, off by *)
(* default.                                                                    *)
ThrFairSpec ==
    /\ ThrSpec
    /\ WF_thrVars(Bind("loop")) /\ WF_thrVars(Exec("loop")) /\ WF_thrVars(Finish("loop"))
    /\ WF_thrVars(Bind("admin")) /\ WF_thrVars(Exec("admin")) /\ WF_thrVars(Finish("admin"))

-----------------------------------------------------------------------------
(* Properties. *)

(* What the node does with a peer: the first filter that matches. *)
RateOf(k) ==
    LET own == SelectSeq(filters, LAMBDA f : f.peer = k)
    IN  IF own = <<>> THEN 0 ELSE class[own[1].n]

WantedRate(k) == IF k \in bound THEN policy[PlanOfPeer[k]] ELSE 0

(* Where the loop is switched on, every peer ends up with the rate of its   *)
(* plan between two runs, although policies were renumbered under old       *)
(* filters, commands failed half way and the endpoint ran into the loop.    *)
(* Where the kernel refuses a second root qdisc this is only so as long as  *)
(* nothing changed or failed since the interface was made: an edit waits    *)
(* for the next restart of the node (enforce_bandwidth_policies).           *)
RateFollows ==
    []<>(run["loop"].at = "bind") =>
        <>[]((\A a \in Appliers : run[a].at = "idle") /\ (rebuilds \/ ~disturbed) =>
                \A k \in TPeers : RateOf(k) = WantedRate(k))
=============================================================================
