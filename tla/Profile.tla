------------------------------- MODULE Profile -------------------------------
(***************************************************************************)
(* The columns of a user's row that the Mini App keeps: meta (Telegram     *)
(* data, chosen server), onboarding progress, and the referral the bot     *)
(* attaches.  Every request reads the row into its session and writes back *)
(* the columns that the session sees as changed, later and without a lock. *)
(***************************************************************************)
EXTENDS Naturals

CONSTANTS NVisits,    \* requests, repeated ones counted
          Servers,    \* servers a user may ask for
          LastStep    \* _WEBAPP_ONBOARDING_MAX_STEP

Visit == 1..NVisits
AutoServer == "auto"
Choice == Servers \cup {AutoServer}

ASSUME ProfileAssumption == NVisits \in Nat /\ LastStep \in Nat /\ AutoServer \notin Servers

VARIABLES
    up,        \* servers.is_active
    meta,      \* users.meta is not empty
    pref,      \* preferred_server_id in it, or AutoServer
    onb,       \* onboarding_step, onboarding_completed_at
    referrer,  \* a referrals row has the user as its referee
    visit      \* the requests

profVars == <<up, meta, pref, onb, referrer, visit>>

NewVisit == [pc |-> "idle", kind |-> "auth", choice |-> AutoServer, step |-> 0, done |-> FALSE,
             wasMeta |-> FALSE, wasPref |-> AutoServer, wasStep |-> 0, wasDone |-> FALSE]

ProfInit ==
    /\ up = Servers
    /\ meta = FALSE /\ pref = AutoServer
    /\ onb = [step |-> 0, done |-> FALSE]
    /\ referrer = FALSE
    /\ visit = [v \in Visit |-> NewVisit]

-----------------------------------------------------------------------------
\* A request arrives with its body and reads the row.
Read(v, rec) ==
    /\ visit[v].pc = "idle"
    /\ visit' = [visit EXCEPT ![v] = [rec EXCEPT
          !.pc = "read", !.wasMeta = meta, !.wasPref = pref,
          !.wasStep = onb.step, !.wasDone = onb.done]]
    /\ UNCHANGED <<up, meta, pref, onb, referrer>>

Auth(v) == Read(v, [NewVisit EXCEPT !.kind = "auth"])
OnboardingState(v) ==
    \E n \in 0..LastStep, d \in BOOLEAN :
       Read(v, [NewVisit EXCEPT !.kind = "onboarding", !.step = n, !.done = d])

\* A server that is not active is not found.
SelectServer(v) ==
    \E c \in up \cup {AutoServer} : Read(v, [NewVisit EXCEPT !.kind = "select", !.choice = c])

\* The answer of a request that has written its columns.
Answer(v) == visit' = [visit EXCEPT ![v].pc = "end"]

\* /auth puts the Telegram data into a copy of meta: the whole column is written.
WriteAuth(v) ==
    /\ visit[v].pc = "read" /\ visit[v].kind = "auth"
    /\ meta' = TRUE /\ pref' = visit[v].wasPref
    /\ Answer(v)
    /\ UNCHANGED <<up, onb, referrer>>

\* select and the bot's create-or-get change the dict they read in place and
\* assign it to the attribute it came from.  JSONB without change tracking: the
\* session sees a change only if the request had to start from a new dict.
WriteSelect(v) ==
    /\ visit[v].pc = "read" /\ visit[v].kind = "select"
    /\ IF visit[v].wasMeta THEN UNCHANGED <<meta, pref>>
       ELSE meta' = TRUE /\ pref' = visit[v].choice
    /\ Answer(v)
    /\ UNCHANGED <<up, onb, referrer>>

\* Mutant: all columns of the session are written, changed or not.
WriteWholeRow(v) ==
    /\ visit[v].pc = "read" /\ visit[v].kind = "onboarding"
    /\ LET complete == visit[v].done \/ visit[v].wasDone IN
       onb' = [step |-> IF complete THEN LastStep ELSE visit[v].step, done |-> complete]
    /\ Answer(v)
    /\ UNCHANGED <<up, meta, pref, referrer>>

\* The step never goes back from what was read, and is the last one when the
\* onboarding is or has been completed.
WriteOnboarding(v) ==
    /\ visit[v].pc = "read" /\ visit[v].kind = "onboarding"
    /\ LET complete == visit[v].done \/ visit[v].wasDone
           most == IF visit[v].wasStep > visit[v].step THEN visit[v].wasStep ELSE visit[v].step
           step == IF complete THEN LastStep ELSE most
       IN onb' = [step |-> IF step # visit[v].wasStep THEN step ELSE onb.step,
                  done |-> onb.done \/ complete]
    /\ Answer(v)
    /\ UNCHANGED <<up, meta, pref, referrer>>

\* A request that fails leaves the row as it is.
Fail(v) ==
    /\ visit[v].pc = "read"
    /\ Answer(v)
    /\ UNCHANGED <<up, meta, pref, onb, referrer>>

\* referral/attach: a second one is answered with attached = false, or refused by
\* the unique constraint.
AttachReferral ==
    /\ ~referrer /\ referrer' = TRUE
    /\ UNCHANGED <<up, meta, pref, onb, visit>>

\* A server is switched off or on by an admin.
ToggleServer(s) ==
    /\ up' = IF s \in up THEN up \ {s} ELSE up \cup {s}
    /\ UNCHANGED <<meta, pref, onb, referrer, visit>>

ProfNext ==
    \/ \E v \in Visit : \/ Auth(v) \/ SelectServer(v) \/ OnboardingState(v)
                        \/ WriteAuth(v) \/ WriteSelect(v) \/ WriteOnboarding(v) \/ Fail(v)
    \/ AttachReferral
    \/ \E s \in Servers : ToggleServer(s)

ProfSpec == ProfInit /\ [][ProfNext]_profVars

-----------------------------------------------------------------------------
(* Properties.                                                             *)

\* Once completed, onboarding stays completed, also when a request that read the
\* row before writes its progress afterwards.
CompletionStays == [][onb.done => onb'.done]_profVars
=============================================================================
