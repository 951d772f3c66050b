------------------------------- MODULE Server -------------------------------
(***************************************************************************)
(* One run of a pipeline, and one instance of each of the machines that    *)
(* share no state in the model: a behaviour is one of the machine named by *)
(* `part`, so that the state spaces add up.  The machines that are hosted  *)
(* use the same variables, each as many as it has.                         *)
(***************************************************************************)
EXTENDS Execution

CONSTANTS
    Issues, MaxRow, StateNames, EnvPaused, Licensed,                    \* Approvals
    Ticks, Scopes,                                                      \* BudgetAlerts
    Tasks, Buckets, BucketOf, DaysAsked, MaxDay, Backfill,              \* CostRollup
    MaxAttempt,                                                         \* Bootstrap
    Migrations, Statements, Renamed,                                    \* Migrator
    MaxRestarts,                                                        \* Tunnel
    Urls, Teams, NoTeam, TestCommands,                                  \* ConfigReload
    SentryIds, AlarmNames, Deliveries, MaxTicket,                       \* AlertIntake
    Items, Pulls, Labels, Page, Bidirectional, StateRead,               \* GhLinearSync
    MaxIssue,                                                           \* QaGap
    Runs, Paths, NoRow                                                  \* FileOverlap

ASSUME ApprovalAssumption == MaxRow \in Nat
ASSUME RollupAssumption ==
    /\ IsFiniteSet(Tasks) /\ BucketOf \in [Tasks -> Buckets] /\ MaxDay \in Nat \ {0}
    /\ Backfill \in Nat /\ DaysAsked \subseteq Nat
ASSUME AttemptAssumption == MaxAttempt \in Nat
ASSUME SchemaAssumption ==
    Migrations \in Nat /\ Statements \in Nat /\ Renamed \subseteq 1..Migrations
ASSUME ConfigAssumption == IsFiniteSet(Urls) /\ NoTeam \notin Urls \cup Teams
\* Characters are numbers; Sentry's ids are digits.
ASSUME AlertAssumption ==
    SentryIds \subseteq Seq(Nat \ {0}) /\ AlarmNames \subseteq Seq(Nat)
ASSUME GapAssumption == MaxIssue \in Nat
ASSUME RowAssumption == \A S \in SUBSET Paths : NoRow # S

VARIABLES part, v1, v2, v3, v4, v5, v6, v7, v8, v9, v10, v11, v12

serverVars == <<part, v1, v2, v3, v4, v5, v6, v7, v8, v9, v10, v11, v12, vars>>

Ask == INSTANCE Approvals WITH board <- v1, row <- v2, at <- v3, told <- v4, acting <- v5,
    repeating <- v8, asker <- v6, paused <- v7
Budget == INSTANCE BudgetAlerts WITH tier <- v1, claimed <- v2, posted <- v3, due <- v4,
    posting <- v5, marred <- v6
Rollup == INSTANCE CostRollup WITH today <- v1, ended <- v2, rows <- v3, rolling <- v4,
    ends <- v5, rolled <- v6, excused <- v7
Onboarding == INSTANCE Bootstrap WITH attempt <- v1, step <- v2, opts <- v3, opened <- v4,
    secretOf <- v5, redirects <- v6, creds <- v7, hooks <- v8, env <- v9, compose <- v10,
    spoiled <- v11
Db == INSTANCE Migrator WITH release <- v1, phase <- v2, at <- v3, statement <- v4,
    effects <- v5, recorded <- v6
Public == INSTANCE Tunnel WITH daemon <- v1, mode <- v2, child <- v3, timer <- v4,
    restartCount <- v5, shuttingDown <- v6, awaited <- v7, held <- v8, listened <- v9
Config == INSTANCE ConfigReload WITH file <- v1, readable <- v2, watching <- v3,
    pending <- v4, current <- v5, live <- v6, missed <- v7, passed <- v8
Intake == INSTANCE AlertIntake WITH tickets <- v1, delivery <- v2, answers <- v3,
    doubled <- v4
Sync == INSTANCE GhLinearSync WITH open <- v1, labelled <- v2, ticket <- v3, job <- v4,
    asked <- v5, listed <- v6, looked <- v7, blind <- v8, since <- v9, failed <- v10
Gap == INSTANCE QaGap WITH present <- v1, known <- v2, tracked <- v3, openGaps <- v4,
    gapTries <- v5, tries <- v6, tick <- v7, seen <- v8, verdict <- v9, issues <- v10,
    excuses <- v11, fails <- v12
Work == INSTANCE FileOverlap WITH dirty <- v1, committed <- v2, pushed <- v3, listed <- v4,
    row <- v5, step <- v6, heard <- v7, unsure <- v8, pm <- v9, toRead <- v10, known <- v11,
    early <- v12

\* The variables from the n-th on, which the machine in work does not use.
Unused12 == v12 = 0
Unused11 == v11 = 0 /\ Unused12
Unused10 == v10 = 0 /\ Unused11
Unused9 == v9 = 0 /\ Unused10
Unused8 == v8 = 0 /\ Unused9
Unused7 == v7 = 0 /\ Unused8
Unused5 == v5 = 0 /\ v6 = 0 /\ Unused7
Unused1 == v1 = 0 /\ v2 = 0 /\ v3 = 0 /\ v4 = 0 /\ Unused5
Kept12 == UNCHANGED <<v12>>
Kept11 == UNCHANGED <<v11, v12>>
Kept10 == UNCHANGED <<v10, v11, v12>>
Kept9 == UNCHANGED <<v9, v10, v11, v12>>
Kept8 == UNCHANGED <<v8, v9, v10, v11, v12>>
Kept7 == UNCHANGED <<v7, v8, v9, v10, v11, v12>>
Kept5 == UNCHANGED <<v5, v6, v7, v8, v9, v10, v11, v12>>
Kept1 == UNCHANGED <<v1, v2, v3, v4, v5, v6, v7, v8, v9, v10, v11, v12>>

ServerInit ==
    /\ Init
    /\ \/ part = "execution" /\ Unused1
       \/ part = "approvals" /\ Ask!Init /\ Unused9
       \/ part = "budget" /\ Budget!Init /\ Unused7
       \/ part = "rollup" /\ Rollup!Init /\ Unused8
       \/ part = "setup" /\ Onboarding!Init /\ Unused12
       \/ part = "db" /\ Db!Init /\ Unused7
       \/ part = "tunnel" /\ Public!Init /\ Unused10
       \/ part = "config" /\ Config!Init /\ Unused9
       \/ part = "intake" /\ Intake!Init /\ Unused5
       \/ part = "sync" /\ Sync!Init /\ Unused11
       \/ part = "gap" /\ Gap!Init
       \/ part = "work" /\ Work!Init

ServerNext ==
    \/ part = "execution" /\ Next /\ Kept1 /\ UNCHANGED part
    \/ part = "approvals" /\ Ask!Next /\ Kept9 /\ UNCHANGED <<part, vars>>
    \/ part = "budget" /\ Budget!Next /\ Kept7 /\ UNCHANGED <<part, vars>>
    \/ part = "rollup" /\ Rollup!Next /\ Kept8 /\ UNCHANGED <<part, vars>>
    \/ part = "setup" /\ Onboarding!Next /\ Kept12 /\ UNCHANGED <<part, vars>>
    \/ part = "db" /\ Db!Next /\ Kept7 /\ UNCHANGED <<part, vars>>
    \/ part = "tunnel" /\ Public!Next /\ Kept10 /\ UNCHANGED <<part, vars>>
    \/ part = "config" /\ Config!Next /\ Kept9 /\ UNCHANGED <<part, vars>>
    \/ part = "intake" /\ Intake!Next /\ Kept5 /\ UNCHANGED <<part, vars>>
    \/ part = "sync" /\ Sync!Next /\ Kept11 /\ UNCHANGED <<part, vars>>
    \/ part = "gap" /\ Gap!Next /\ UNCHANGED <<part, vars>>
    \/ part = "work" /\ Work!Next /\ UNCHANGED <<part, vars>>
    \/ part # "execution" /\ UNCHANGED serverVars

\* A machine that is hosted may rest; none of them is fair.
ServerSpec ==
    /\ ServerInit
    /\ [][ServerNext]_serverVars
    /\ WF_vars(part = "execution" /\ Running)
    /\ WF_vars(part = "execution" /\ RivalLeaves)

\* The liveness property of Execution.
ExecutionEnds == part = "execution" => RunEnds

\* What is said or filed goes out once: approval requests, the actions they approve, budget
\* alerts, the tickets of alerts, of GitHub's issues and of a missing QA workflow.
SaidOnce ==
    /\ part = "approvals" => Ask!AskedOnce /\ Ask!ActedOnce
    /\ part = "budget" => Budget!ClaimsAnnounced
    /\ part = "intake" => Intake!OwnTicket
    /\ part = "sync" => Sync!OneTicket
    /\ part = "gap" => Gap!OneIssue

\* The server that runs is the one that was set up: its files, its schema, its tunnel, its
\* repositories and the rollup of its costs; its runs and its PM agent know of each other's
\* files, and a QA workflow is given up after failures in a row only.
ServerSound ==
    /\ part = "setup" => Onboarding!SetupWorks
    /\ part = "db" => Db!ServingMigrated
    /\ part = "tunnel" => Public!StopIsFinal
    /\ part = "config" => Config!LiveFollowsFile
    /\ part = "rollup" => Rollup!RollupExact
    /\ part = "work" => Work!OneHasHeard /\ Work!AskedIfChanged
    /\ part = "gap" => Gap!GivenUpFairly

\* One run of the sync is enough for an issue that stays on its page.
IssueTicketed == [][part = "sync" => Sync!RunTickets]_<<part, v1, v2, v3, v4, v5, v6, v7, v8, v9, v10>>
=============================================================================
