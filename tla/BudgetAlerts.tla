---------------------------- MODULE BudgetAlerts ----------------------------
(***************************************************************************)
(* The alerts of the daily token budget (pm/budget-alerts.ts): each tick   *)
(* posts the thresholds that a scope has reached and that nobody has       *)
(* claimed.  The claim is a row of budget_alerts, unique for a day, a      *)
(* scope and a threshold; it is taken before the message is posted, and    *)
(* given back when the post fails.  Ticks of two servers may overlap.      *)
(***************************************************************************)
EXTENDS Naturals, FiniteSets

CONSTANTS
    Ticks,       \* ticks that may run at the same time
    Scopes       \* global, the teams, the repositories

VARIABLES
    tier,        \* how many thresholds a scope has reached today
    claimed,     \* today's rows of budget_alerts
    posted,      \* the alerts Slack has shown today
    due,         \* the alerts a tick still has to look at
    posting,     \* the alert a tick has claimed and is posting
    marred       \* alerts whose claim a crash or a failed delete left behind

vars == <<tier, claimed, posted, due, posting, marred>>

Thresholds == {50, 80, 100}
Alerts == Scopes \X Thresholds

TypeOK ==
    /\ tier \in [Scopes -> 0..3]
    /\ {claimed, posted, marred} \subseteq SUBSET Alerts
    /\ due \in [Ticks -> SUBSET Alerts] /\ posting \in [Ticks -> SUBSET Alerts]

Init ==
    /\ tier = [s \in Scopes |-> 0]
    /\ claimed = {} /\ posted = {} /\ marred = {}
    /\ due = [t \in Ticks |-> {}] /\ posting = [t \in Ticks |-> {}]

\* thresholdsForTier: all that the tier includes.
Reached(n) == {(<<50, 80, 100>>)[k] : k \in 1..n}

----------------------------------------------------------------------------
\* makeScope: the percentage only grows until midnight.
Spend(s) ==
    /\ tier[s] < 3 /\ tier' = [tier EXCEPT ![s] = @ + 1]
    /\ UNCHANGED <<claimed, posted, due, posting, marred>>

\* maybeFireAlerts, with the scopes as they were evaluated.
Fire(t) ==
    /\ due[t] = {} /\ posting[t] = {}
    /\ due' = [due EXCEPT ![t] = {a \in Alerts : a[2] \in Reached(tier[a[1]])}]
    /\ UNCHANGED <<tier, claimed, posted, posting, marred>>

\* Mutant of Claim: the row is looked up and not inserted at once.
ClaimUnchecked(t, a) ==
    /\ a \in due[t] /\ posting[t] = {} /\ due' = [due EXCEPT ![t] = @ \ {a}]
    /\ claimed' = claimed \cup {a} /\ posting' = [posting EXCEPT ![t] = {a}]
    /\ UNCHANGED <<tier, posted, marred>>

\* tryInsertAlert: the insert takes the row, or finds it taken.
Claim(t, a) ==
    /\ a \in due[t] /\ posting[t] = {} /\ due' = [due EXCEPT ![t] = @ \ {a}]
    /\ IF a \in claimed THEN UNCHANGED <<claimed, posting>>
       ELSE claimed' = claimed \cup {a} /\ posting' = [posting EXCEPT ![t] = {a}]
    /\ UNCHANGED <<tier, posted, marred>>

\* The insert throws.
ClaimFails(t, a) ==
    /\ a \in due[t] /\ posting[t] = {} /\ due' = [due EXCEPT ![t] = @ \ {a}]
    /\ UNCHANGED <<tier, claimed, posted, posting, marred>>

Post(t) ==
    /\ posting[t] # {} /\ posted' = posted \cup posting[t]
    /\ posting' = [posting EXCEPT ![t] = {}]
    /\ UNCHANGED <<tier, claimed, due, marred>>

\* Mutant of PostFails: the claim is kept.
PostForgotten(t, shown, rolledBack) ==
    /\ posting[t] # {} /\ posting' = [posting EXCEPT ![t] = {}]
    /\ posted' = IF shown THEN posted \cup posting[t] ELSE posted
    /\ UNCHANGED <<tier, claimed, due, marred>>

\* Slack refuses the message, or its answer is lost (shown); the claim is given back.
PostFails(t, shown, rolledBack) ==
    /\ posting[t] # {} /\ posting' = [posting EXCEPT ![t] = {}]
    /\ posted' = IF shown THEN posted \cup posting[t] ELSE posted
    /\ IF rolledBack THEN claimed' = claimed \ posting[t] /\ UNCHANGED marred
       ELSE marred' = marred \cup posting[t] /\ UNCHANGED claimed
    /\ UNCHANGED <<tier, due>>

Crash(t) ==
    /\ due' = [due EXCEPT ![t] = {}] /\ posting' = [posting EXCEPT ![t] = {}]
    /\ marred' = marred \cup posting[t]
    /\ UNCHANGED <<tier, claimed, posted>>

\* Rows of another day are not found any more.
Midnight ==
    /\ \A t \in Ticks : due[t] = {} /\ posting[t] = {}
    /\ tier' = [s \in Scopes |-> 0] /\ claimed' = {} /\ posted' = {} /\ marred' = {}
    /\ UNCHANGED <<due, posting>>

TickStep(t) ==
    \/ Fire(t) \/ Post(t)
    \/ \E a \in Alerts : Claim(t, a) \/ ClaimFails(t, a)
    \/ \E shown, rolledBack \in BOOLEAN : PostFails(t, shown, rolledBack)

Next ==
    \/ \E t \in Ticks : TickStep(t) \/ Crash(t)
    \/ \E s \in Scopes : Spend(s)
    \/ Midnight

Spec == Init /\ [][Next]_vars

----------------------------------------------------------------------------
\* An alert is being posted by one tick at most, and a claim nobody is posting was
\* posted: the rest of the day is silent about a threshold only after a crash, or a
\* delete that failed, between the row and the message.
ClaimsAnnounced ==
    /\ \A t, u \in Ticks : t # u => posting[t] \cap posting[u] = {}
    /\ \A a \in claimed : a \in posted \cup marred \/ \E t \in Ticks : a \in posting[t]

\* What it rests on: what is being posted is claimed.
IndInv == TypeOK /\ ClaimsAnnounced /\ \A t \in Ticks : posting[t] \subseteq claimed
=============================================================================
