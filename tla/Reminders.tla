------------------------------ MODULE Reminders ------------------------------
(***************************************************************************)
(* Reminders before a subscription ends: the worker's check, which sends   *)
(* them, and the retention rules, which share its reminder_*_sent_at       *)
(* columns.  Time is in hours, with the code's own intervals and windows.  *)
(***************************************************************************)
EXTENDS Naturals

CONSTANTS Interval,    \* INTERVAL_SECONDS of the check, in hours
          Untils,      \* valid_until of the subscription at the start
          Period,      \* hours a renewal adds
          Rules,       \* reminder rules an admin has enabled: a subset of Which
          MaxHour,     \* bound: the last hour
          MaxRestarts  \* bound: restarts of the worker

Which == {"3d", "1d"}
\* Hours before valid_until in which the check sends a reminder.
Window(w) == IF w = "3d" THEN 71..73 ELSE 23..25

ASSUME RemindersAssumption ==
    /\ Interval \in Nat \ {0} /\ Untils \subseteq Nat /\ Period \in Nat
    /\ Rules \subseteq Which /\ MaxHour \in Nat /\ MaxRestarts \in Nat

VARIABLES
    hour,
    until,     \* valid_until
    flag,      \* reminder_*_sent_at is set
    check,     \* the hour of the worker's next check
    mine,      \* flags the running check has set and not committed
    phase,     \* the check: "idle", or the reminder it is at, or "commit"
    sent,      \* observer: reminders sent in this period of the subscription
    excused,   \* observer: a send failed, or the worker died after one
    restarts

remVars == <<hour, until, flag, check, mine, phase, sent, excused, restarts>>

RemInit ==
    /\ hour = 0
    /\ until \in Untils
    /\ flag = {} /\ mine = {} /\ phase = "idle"
    /\ check \in 0..Interval
    /\ sent = [w \in Which |-> 0]
    /\ excused = {} /\ restarts = 0

-----------------------------------------------------------------------------
StartCheck ==
    /\ phase = "idle" /\ hour = check
    /\ phase' = "3d"
    /\ UNCHANGED <<hour, until, flag, check, mine, sent, excused, restarts>>

Due(w) == until >= hour /\ until - hour \in Window(w) /\ w \notin flag
After(w) == IF w = "3d" THEN "1d" ELSE "commit"

\* Mutant: the column is not set.
SendForgotten(w) ==
    /\ phase = w
    /\ sent' = [sent EXCEPT ![w] = IF Due(w) THEN @ + 1 ELSE @]
    /\ phase' = After(w)
    /\ UNCHANGED <<hour, until, flag, check, mine, excused, restarts>>

\* A reminder that is due is sent, or the send fails and it stays due.
Send(w) ==
    /\ phase = w
    /\ \/ /\ Due(w)
          /\ sent' = [sent EXCEPT ![w] = @ + 1]
          /\ mine' = mine \cup {w}
          /\ UNCHANGED excused
       \/ /\ Due(w)
          /\ excused' = excused \cup {w}
          /\ UNCHANGED <<sent, mine>>
       \/ ~Due(w) /\ UNCHANGED <<sent, mine, excused>>
    /\ phase' = After(w)
    /\ UNCHANGED <<hour, until, flag, check, restarts>>

\* What was sent is recorded when the whole check has ended; the loop sleeps.
CommitCheck ==
    /\ phase = "commit"
    /\ flag' = flag \cup mine
    /\ mine' = {} /\ phase' = "idle"
    /\ check' = hour + Interval
    /\ UNCHANGED <<hour, until, sent, excused, restarts>>

\* The worker is restarted: its first check is at once.
Restart ==
    /\ restarts < MaxRestarts
    /\ restarts' = restarts + 1
    /\ excused' = excused \cup mine
    /\ mine' = {} /\ phase' = "idle" /\ check' = hour
    /\ UNCHANGED <<hour, until, flag, sent>>

\* run_retention_rules marks a reminder as sent when three days or less, or one day
\* or less, are left (whole days); it does not send it.
RetentionRule(w) ==
    /\ w \in Rules /\ w \notin flag
    /\ until > hour
    /\ LET days == (until - hour) \div 24 IN 0 < days /\ days <= (IF w = "3d" THEN 3 ELSE 1)
    /\ flag' = flag \cup {w}
    /\ UNCHANGED <<hour, until, check, mine, phase, sent, excused, restarts>>

\* A payment extends the subscription; the columns stay as they are.
Renew ==
    /\ phase = "idle" /\ until > hour /\ until + Period <= MaxHour
    /\ until' = until + Period
    /\ sent' = [w \in Which |-> 0]
    /\ excused' = {}
    /\ UNCHANGED <<hour, flag, check, mine, phase, restarts>>

\* An hour passes; a check that is due does not wait.
Hour ==
    /\ phase = "idle" /\ hour < check /\ hour < MaxHour
    /\ hour' = hour + 1
    /\ UNCHANGED <<until, flag, check, mine, phase, sent, excused, restarts>>

RemNext ==
    \/ StartCheck \/ CommitCheck \/ Restart \/ Renew \/ Hour
    \/ \E w \in Which : Send(w) \/ RetentionRule(w)

RemSpec == RemInit /\ [][RemNext]_remVars

-----------------------------------------------------------------------------
(* Properties.                                                             *)

\* A user gets a reminder once in a period, also when the worker is restarted
\* within the window; only a worker that dies between sending and committing
\* repeats it.
RemindedOnce == \A w \in Which : w \notin excused => sent[w] <= 1
=============================================================================
