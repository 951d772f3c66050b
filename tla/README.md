# Formal model of urateam

TLA+ modules, TLC configurations and TLAPS proofs for urateam: the server that
takes Linear issues, runs a pipeline of agent stages on each in a git worktree
and opens a pull request. Paths below are relative to `packages/core/src/`
unless they start with `packages/` or `deploy/`.

- [1 The system](#1-the-system)
- [2 Modules](#2-modules)
- [3 Runs](#3-runs)
- [4 Proofs](#4-proofs)
- [5 What is abstracted, and what is not modelled](#5-what-is-abstracted-and-what-is-not-modelled)
- [6 Plan](#6-plan)

## 1 The system

### 1.1 Parts and the state they keep

| part | code | state | operations | modules |
|---|---|---|---|---|
| work queue | `pipeline/queue.ts` | counters `running`, `pending`; array `waiting` of resolvers | `enqueue` (`acquire`, `fn`, `release`) | `TaskPool`, `WorkQueue` |
| pipeline runner | `pipeline/runner.ts` | memory: `activeRuns` (issue to run), `activeFeedbackRuns`, the run object of each execution; database: `pipeline_runs`, `stage_runs`, `active_work`; disk: one worktree per run; remote: one branch per issue | `start`, `resume`, `pause`, `abort`, `requestStop`, `haltAll`, `executePipeline`, `failPipeline`, `recoverStuckRuns` | `PipelineRunner` |
| stop signals | `pipeline/control-signals.ts` | a map from run to `graceful` or `cancel`; listeners | `requestStop`, `getStopSignal`, `clearStopSignal`, `onStop` | `PipelineRunner` |
| stage executor | `executor/` | agent session and its transcript, one `stage_runs` row per pass | `executeStage`, session resolution, stream watchdogs, handoff extraction | `StageExecutor` |
| loops and gates | `runner.ts` 1096-2570, `policy/`, `pipeline/*-gate.ts` | local variables of an execution, `resume_payload` | RALPH, retry, validation, review-fix, deep review, token budget, drafts | `StageLoop`, `Gates` |
| push section | `runner.ts` 2571-3133, `pipeline/distributed-lock.ts` | branch lock (Postgres advisory lock), pull request | auto-commit, rebase, push, PR, merge | `Execution` |
| branches and worktrees | `repo/git.ts`, `repo/agent-branch-sweep*.ts`, `pipeline/branch-classifier.ts` | one clone per issue, its refs, worktrees, the remote branch | clone, checkout, rebase, push with lease, deletion, sweeps | `Branches` |
| feedback pipeline | `pipeline/feedback-pipeline.ts` | `activeFeedbackRuns` (PR to run), a child row of `pipeline_runs` | `startFeedbackPipeline`, `executeFeedbackPipeline` | `FeedbackPipeline` |
| pull requests after the run | `webhook/*-handler.ts`, `pipeline/automerge.ts` | `auto_merged`, the pull request at its host | comment, check and merge events | `FeedbackPipeline`, `PullRequests` |
| PM tick | `pm/scheduler.ts`, `pm/actions/*` | advisory lock, slots, probe overrides, Linear issue states | recover, sweep, probe, start, triage, promote | `PmTick`, `Board` |
| circuit breaker | `pm/actions/*circuit*`, `db-queries.ts` | `circuit_breaker_state`, `needs-design` label | escalate, probe, recover, sweep, reset | `CircuitBreaker` |
| approvals and Slack commands | `pm/actions/{resolve-approvals,cancel,deprioritize}.ts`, `pm/slack-*.ts` | `pm_approvals`, reactions, the pause flag | ask, read reactions, expire, act; pause, resume, halt, assign, prioritize | `Approvals` |
| coordination | `pm/coordination.ts`, `pm/conflict.ts` | `active_work` and its file lists | announce, look, predict conflicts | `FileOverlap` |
| release manager | `release-manager/*` | `release_decisions`, `release_approvals`; tags, releases and workflow runs at GitHub | tick, QA, approval, tag, release, retry sweep | `ReleaseManager` |
| QA gap | `qa/*`, `release-manager/release-helpers.ts` | `qa_gap_issues`, attempt counters | look, dispatch, file, resolve | `QaGap` |
| budget and costs | `pm/budget-alerts.ts`, `cost/rollup.ts` | `budget_alerts`, `cost_rollups_daily` | claim and post, roll, backfill | `BudgetAlerts`, `CostRollup` |
| intake from elsewhere | `integrations/*`, `sync/gh-linear-sync.ts` | tickets at Linear | alert to ticket; issue to ticket and back | `AlertIntake`, `GhLinearSync` |
| database | `db/migrator.ts`, `db/client.ts` | `schema_migrations` | migrate at boot | `Migrator` |
| command line | `packages/cli` | `.env`, `config.json`, the map of repositories, cloudflared | bootstrap, live reload, tunnel, start | `Bootstrap`, `ConfigReload`, `Tunnel` |
| audit, rbac, auth, dashboard, observers, scaffolder | directories of those names | tables of their own | logging, pure decisions, views | none |

### 1.2 How they interact

One server process runs everything on one JavaScript thread. The interactions
are shared state: `pipeline_runs.status` is written by the runner, by the PM
tick (`recover.ts`, `recover-stuck.ts`), by the operators (`pause`, `abort`,
dashboard, Slack) and by the command line in another process
(`terminate.ts`), mostly by an unconditional `UPDATE ... WHERE id = ?`. What
keeps two executions of an issue apart is one in-memory map, `activeRuns`; what
survives a restart is the row, the worktree and the transcript, which
`recoverStuckRuns` (called once, `packages/cli/src/commands/start.ts:286`)
and the PM tick put together again.

Linear closes a circle: the runner's notifier and the PM tick move an issue,
Linear reports the move as a webhook, and the webhook starts, resumes or pauses
a run, also when the move was the server's own. GitHub closes another one: a
push changes the checks, the check event may merge, the merge is reported.

### 1.3 What is hard

- *Interleavings at awaits.* `start()` checks `activeRuns`, awaits three times,
  then sets it; `resume()` likewise; the job's guard and its `finally` go by
  issue and not by run. The PM tick handles lists it was told several awaits ago.
- *Microtasks.* `release()` frees a slot synchronously and its waiter takes it
  a microtask later.
- *Crashes.* A server restart loses `activeRuns`, the signals and the queue; a
  new container loses the worktrees too. Tag, release and row, message and row,
  issue and row are written apart.
- *Retries.* Transient failures are retried by the tick from a count kept in
  the row and copied into the execution that resumes it; a session identifier
  that collided is drawn anew; releases and dispatches are counted in rows.
- *Overwrites.* Completion, failure, abort, pause, zombie recovery and
  termination all write `status` without looking at it.
- *Late requests.* An approval, a stop, an abort or a webhook may arrive while
  what it is meant for is ending.
- *Locks through a pool.* An advisory lock belongs to a connection, and taking
  and releasing it may go to different ones.
- *Loops in loops.* Stage retries, RALPH, validation, review-fix and deep-review
  feed each other, under one token budget.

`PROJECT.json` lists these hazards at their lines with the properties that
cover them.

### 1.4 What makes each part correct

- queue: counters are exact, no wakeup is lost, nothing submitted is dropped;
  at most `concurrency` jobs run (broken, see `queue_limit`).
- runner: one execution per issue; a claim is always given back; a worktree
  stays while it is used; a row follows the life cycle and a finished run stays
  finished; retries are bounded; interrupted runs come to rest; no stage row is
  left running; a stop prevents the push and an approval is acted on (both
  broken, see `runner_stop`, `runner_approval`).
- execution: every combination of loops ends; no pass begins over the budget;
  runner and database mean the same session; a ready pull request is clean; one
  server at a time is in the push section; only an earned merge is made.
- branches: a push carries all it owes; a branch nobody needs goes.
- feedback pipeline: one run per pull request (not for comments handled at the
  same moment, nor after a cancelled run, see `feedback_cancel`); a pull request
  never stays blocked; no accepted comment is swallowed; nothing removes the
  worktree of a run at work; a stopped run has pushed nothing.
- pull requests: the record of a merge is never false; a merge is told to Linear.
- PM tick and circuit breaker: an issue past its failures is driven once per
  cooldown and is probed again and again; a stuck issue is moved on; an issue in
  Todo is started although its webhook was lost.
- release manager: what is tagged has passed its own QA run; a row that says
  `fire` is true; a commit is tagged once; an unfinished release comes to its end.
- the rest: what is asked, alerted or filed goes out once; a rolled day is right;
  the map of repositories, the schema, the tunnel and the files of the wizard are
  what a careful operator would expect after any sequence of saves, boots,
  shutdowns and attempts.

## 2 Modules

| module | models |
|---|---|
| `TaskPool` | what a user of a queue relies on: each task begins once, ends once, is never dropped |
| `WorkQueue`, `WorkQueueProofs` | `createQueue`, with the microtask between wake-up and continuation; refines `TaskPool` |
| `PipelineRunner`, `PipelineRunnerProofs` | the runner and every other writer of its rows, crash and boot |
| `Gates` | the draft gates and the conditions of auto-merge, as operators |
| `StageExecutor` | one call of `executeStage` with its agent session; extended by |
| `StageLoop` | the loops around it; extended by |
| `Execution`, `ExecutionProofs` | one run to its pull request, with lock, rival server, resume and crash |
| `FeedbackPipeline` | the comment handlers, `startFeedbackPipeline` and `executeFeedbackPipeline`, with stops, termination and restarts |
| `PullRequests`, `PullRequestsProofs` | extends it: check and merge events, auto-merge; the theorems are about both |
| `Board` | issues at Linear, the runs behind them reduced to a row, webhooks |
| `CircuitBreaker` | the breaker's rows and their order |
| `PmTick`, `PmTickProofs` | one tick on the board, with the breaker |
| `Approvals`, `BudgetAlerts`, `CostRollup`, `FileOverlap` | the other steps of the tick |
| `ReleaseManager`, `ReleaseManagerProofs`, `QaGap` | the release manager and its reports of a missing QA workflow |
| `Branches`, `BranchesProofs` | one issue's branch with its commits, clone, worktrees and sweeps |
| `AlertIntake`, `GhLinearSync` | tickets from alerts and from GitHub issues |
| `Migrator`, `Tunnel`, `ConfigReload`, `Bootstrap` | boot, tunnel, live configuration, installation |
| `MCPipelineRunner`, `MCFeedbackPipeline`, `MCPullRequests`, `MCPmTick`, `MCReleaseManager` | values and symmetry for TLC |
| `Server`, `ServerProofs` | `Execution`, and beside it eleven machines that share no state with it |
| `MCQueue` | the queue and the branches, side by side |
| `MCServer` | values for `Server` |

Operators named `...Unchecked`, `...Forever`, `Release...` and so on, each under
a comment "Mutant of X", are deliberately wrong variants of the definition that
follows them; no specification uses them. `PROJECT.json` pairs each property
with the variant that breaks it.

In `MCQueue` and `Server` a variable `part` says which of the machines moves in
a behaviour and the others stay as they began; their state spaces add up and do
not multiply, and each property says for which part it is meant. The machines hosted in
`Server` use the variables `v1` to `v12` in turn, which keeps the states small; each
`INSTANCE` says which is which. Their constants, and what is assumed of them, are
declared in `Server`. Each machine's module ends with its properties and `IndInv`, the
inductive invariant they rest on.

### 2.1 WorkQueue

`running`, `pending` and `waiting` are the variables of the closure. `job[j]`
says where the call `enqueue(fn_j)` is: `waiting` (its resolver is in the
array), `woken` (its promise is resolved, its continuation has not run),
`running` (inside `fn`). `AcquireFree` and `AcquireWait` are `acquire()` up to
its first suspension, `TakeSlot` the microtask that continues it, `Release` is
`release()`. Fairness: microtasks always run, and `fn` settles, because stages
have wall-clock limits and the branch lock a deadline. Nobody has to call
`enqueue`.

### 2.2 PipelineRunner

A *call* is one activation of `start`, `resume`, `abort` or of the tick's
recovery of one row; the job that `start` or `resume` enqueues stays with the
call. An action is the code from one await to the next. `pc[c]` is where the
call is, `ctx[c]` its local variables: `issue`, `run`, `next` (index of the next
stage), `last` (`lastStageIndex`), `retry` (`run.retryCount`), `fresh` (no
resume options), `mem` (`run.status` in memory, which the `finally` looks at).

| variable | code |
|---|---|
| `status`, `issueOf`, `index`, `retries` | `pipeline_runs.status`, `.issue_id`, `.current_stage_index` (and whether there is a `resume_payload`), `.retry_count` |
| `age` | 0: younger than 5 minutes (boot recovery skips the row), 1: older, 2: older than 60 minutes (zombie recovery) |
| `stageOpen` | which calls have a `stage_runs` row of the run in status running; `Orphan` for a dead process |
| `activeWork` | `active_work` |
| `activeRuns`, `stop` | the maps of those names |
| `worktree`, `remote`, `openPR` | worktrees on disk, agent branches on the remote, open pull requests |
| `phase`, `crashes` | up or booting; how many restarts so far |

| action | code |
|---|---|
| `Start`, `StartClassify`, `StartInsert`, `StartClaim` | `start()` from await to await |
| `ResumeActive`, `Resume`, `ResumeSelect`, `ResumeAccess` | `resume()`: issue in memory, lookup, claim and payload checks, worktree check |
| `TickResume` | the `resume()` that `recoverRetriableRuns` awaits |
| `JobBegin`, `Clone`, `Setup` | the queued job's guard, then `executePipeline` up to the stage loop |
| `StageStop`, `Cancelled` | stop check at the head of the loop, `markRunCancelledImpl` |
| `StageAwait`, `StageStart`, `StageDone`, `StageAgain`, `StageFail`, `LoopDone` | one iteration of the loop; `StageAgain` is another RALPH, retry or validation pass |
| `FixStart`, `FixDone` | a pass of the review-fix or deep-review loop |
| `Push`, `Complete`, `CloseRows`, `Cleanup`, `Release` | push section, completion, `cancelRunningStageRuns`, the two `finally` blocks |
| `FailPipeline` | `failPipeline`, part of each action whose code calls it |
| `Pause`, `Abort`, `AbortRow`, `AbortUnclaim`, `RequestStop`, `HaltAll`, `TerminateRun` | the operators |
| `RecoverSelect`, `RecoverMark`, `RecoverZombie`, `SweepOrphans` | the PM tick |
| `Crash`, `BootRecover`, `BootDone` | restart and `recoverStuckRuns` |
| `FeedbackCancelled` | a feedback run of the issue is stopped: `markRunCancelledImpl` drops `activeRuns[issue]` as well |
| `Age`, `ClosePR` | the clock and the reviewer |

Writes that follow one another with nothing in between that any property tells
apart are one action: `status` and `active_work` in `JobBegin`, `StageStop`,
`TerminateRun` and `BootRecover`; `active_work` and the stage row in
`StageStart`. `abort()` is three actions, because its claim goes last.

The constant `Enabled` says which parts of the environment take part in a run
and `OverlappingCalls` whether two calls for one issue may both be between their
check and their claim. The code does not prevent that; the properties that need
it are stated and checked for serial calls and say so.

Two details of `repo/git.ts` take part. `Clone` may remove the worktrees of other
rows of the issue (`Siblings`), because `worktreeAddWithRetry` takes any worktree
that has the branch checked out for stale. `Cleanup` may leave the worktree,
because `deleteWorktree` is best effort.

### 2.3 FeedbackPipeline

A run `r` is one accepted comment on its way through `startFeedbackPipeline`, the
queued job and `executeFeedbackPipeline`. `activeFeedbackRuns` and `stop` are the
maps of those names (the values of `stop` make no difference here), `dedup` is
`CommentDedupSet` (GitHub) or `WebhookDedupSet` (GitLab, Bitbucket); `pc[r]`,
`comment[r]`, `next[r]` and `mem[r]` are the local variables of the run, `mem` its
`run.status` in memory, which may differ from the row.

| action | code |
|---|---|
| `Deliver` | the handlers from the deduplication to the first await of `startFeedbackPipeline` |
| `Expire` | the 24 hours of an entry of the deduplication set are over |
| `Insert`, `Claim` | insert of the row; `activeFeedbackRuns.set` and `enqueue` |
| `JobBegin`, `Clone`, `Setup` | the job's guard, the row and `active_work`, the worktree from the remote branch, devcontainer and setup commands |
| `StageStop`, `Cancelled` | stop check, `markRunCancelledImpl` with the early removal of the entry |
| `StageStart`, `StageDone`, `LoopDone` | the stage loop; `failPipeline` has no context here, so every failure is final |
| `Push`, `Complete` | push queue and branch lock as one step; the final row |
| `Ending`, `Cleanup`, `Release` | the `finally` of the pipeline and that of the job |
| `RequestStop`, `HaltAll`, `TerminateRun` | dashboard, halt, `ura admin terminate` |
| `Crash`, `BootRecover`, `BootDone` | restart; `recoverStuckRuns` fails the rows older than five minutes, a set chosen at the crash, for feedback rows hold no agent session |

`Racing` is the set of pull requests on which two comments may be between their
acceptance and their claim at the same time. There, and on a pull request of
which a run was cancelled, the code lets two runs work on one branch; `OnePerPR`,
`WorktreeInUse` and `CommentAnswered` are about the others (`Undisturbed`). The
run uses no racing pull request; `EntryHeld`, `WorkRowsOwned` and
`CancelledNotPushed` are proved for any.

The main pipeline clones into a directory named after the issue's slug and the
feedback pipeline into one named after the branch's, so their worktrees do not
meet; that is why the two modules are not composed. What they share is
`FeedbackCancelled`, and the queue and the push section, which both see as
`TaskPool` and as one step.

### 2.4 Execution, StageLoop, StageExecutor, Gates

One run, its session and its pull request, where `PipelineRunner` has only "a
pass" and "push". The four modules are one specification, cut by concern:
`Execution` EXTENDS `StageLoop` EXTENDS `StageExecutor` and `Gates`.

- `StageExecutor`: `pass` is the call of `executeStage` in flight or its result.
  `Begin`, `PreflightFails`, `OpenStream`, `StreamStalls`, `StreamFails`,
  `StreamEnds` and `Collide` follow it from the row it inserts to the handoff.
  The session is known in four places (`session`, `rowSession`, `registered`,
  `transcripts`), and `Accepted` says what the SDK takes.
- `StageLoop`: `at` is where `executePipeline` is; the actions are one iteration
  of each loop (`RalphChecks`, `StageRetried`, `Validated`, `FixBegins`,
  `DeepReviewed`, ...) with the check of the token budget where the code has it
  (`OverBudget` stops at the limit, `OverBudgetStrictly` is a wrong variant).
  `Fail` is `failPipeline` with its transient branch; `saved` is the resume payload.
- `Gates`: a diff is a set of kinds of files; the gates are operators over the
  diff, the tokens and the reviews.
- `Execution`: `CommitRest`, `Rebase`, `Resolved`, `Push`, `OpenPullRequest`,
  `Merge` are the section under the lock. `holder` is the connection that has the
  advisory lock, `depth` how often it took it. `TryAcquire` may be granted with
  the answer lost; `Unlock` may go to another connection of the pool and then
  leaks the lock; `ConnectionCloses` frees it. One own connection is enough
  because `UnlockHalf` and `Unlock` already cover the release that goes elsewhere.
  The deadline of the lock may pass on a lock nobody
  holds, when the query that asks for it keeps failing. `RivalEnters` is the second server.

`MCServer` gives it an implement and a review stage, both continuing the session, two
session identifiers, two RALPH iterations, one attempt at a retry, one fix iteration,
two deep-review passes and a budget of five counted passes.

### 2.5 Board, CircuitBreaker, PmTick

`Board` keeps for each issue its state and label at Linear, of its run only the
newest row, whether it executes and how many leading failures there are, and the
webhooks under way. `Deliver` is what `webhook/handler.ts` does with a state
change, echoes of the server's own moves included; nothing makes a webhook arrive, so
any may be lost. `Routed` are the issues with a pipeline and a repository; the others
never get a run, but take part in everything else. `Standing` is how such issues may
lie on a board: waiting in Todo, moved back after their merge, given up with their
breaker open. `Triggers` are the states whose webhooks the handler acts on.
`CircuitBreaker` keeps the rows in two sequences, those never probed and those by
last probe: that is the order of the query. `PmTick` is the tick as a program
counter `at`; `list` is what a step was told and handles afterwards, one issue
per step, while the environment goes on. The parameters `old` and `fresh` of
`Begin` and `FindTodo` are what the queries say of the age of rows; `moved` and
`answered` say whether Linear takes what `Recover` and `StartTodo` ask of it.

An issue that `startTodoIssues` or `recoverStuckInProgressIssues` has taken into its
slice uses a place of it whatever becomes of it: its breaker is open, it has no
repository, `start` throws, its work is merged, its team lacks the target state, or
Linear refuses. `Recover` without a target state leaves the row alone; otherwise a
running row is marked failed before Linear is asked.

Left out: `abort` and the state Canceled, a crash in the middle of a tick, more
than one webhook of a kind for an issue, ticks that overlap, the difference between
retriable and paused rows. People leave the issues that are not `Routed` alone.

### 2.6 Approvals, BudgetAlerts, CostRollup, FileOverlap

The steps of the tick that do not touch the board. In `Approvals` a request is a
message and then a row; `told` are the rows a tick read, `acting` those it marked
approved and has not carried out, `repeating` those whose update Linear took but whose
comment it refused, which are tried again with the next team. People react, move and comment between any two
steps. `BudgetAlerts` has the claim row between insert and compensating delete.
`CostRollup` rolls a day bucket by bucket while runs end, also twice. `FileOverlap`
has a run's worktree, commits and branch, its row of `active_work`, the look at the
others' rows, and the PM agent that reads the runs one by one.

### 2.7 ReleaseManager, QaGap

`ReleaseManager` has GitHub (`head`, `tags`, `releases`, `runs`) and the database
(`rows`, `approvals`, `qaRun`) as separate state, one call per action, and people
who push, tag by hand, clean tags up, approve and pause in between. `Throw` and
`Restart` end a tick anywhere. `own` remembers which tags the manager made.
`QaGap` is the branch of the tick that finds no QA workflow, or one that GitHub
does not dispatch: the open row, the issue, the two attempt counters, and the tick
whose head is outdated by a push (`seen.old`).

### 2.8 PullRequests, Branches

`PullRequests` EXTENDS `FeedbackPipeline` with who merged a pull request, which
required checks passed for which push, the handler of a check event between its
awaits (`Fetch`, `Check`, `MergeByServer`, `Record`) and the way of the event that
tells of the merge, whose handler writes the row it has read (`originalRun`).
`Unchecked` are the pull requests of repositories without `requiredStatusChecks`, which
are eligible as they are; the run has none, the theorems hold for any. `MCPullRequests` runs it in two seasons: comments with all
disturbances and no merge, and one comment with merges; each holds back steps of
the environment only.

`Branches` follows commits. A tip is a set of commits and the version of the
default branch below them. `clone` is the repository all worktrees of the issue
share, with one ref per branch, `session` where each run and feedback run is,
`tree` what its worktree has checked out. `owes` remembers what a push has to
carry.

### 2.9 Machines of their own

| module | state and steps |
|---|---|
| `AlertIntake` | a delivery between reading labels, looking up by title prefix and creating; titles are sequences of characters, because prefixes matter |
| `GhLinearSync` | a run that lists a page per label, looks up, creates and closes, with people changing both sides |
| `Migrator` | boots of two releases over one database, statement by statement, either dialect |
| `Tunnel` | cloudflared, its restart timer and the shutdown |
| `ConfigReload` | `config.json`, the debounce, and the map the handler of "applied" edits |
| `Bootstrap` | attempts of the wizard, each able to end anywhere, and the files, app and webhooks they leave |

## 3 Runs

| run | bounds | shows |
|---|---|---|
| `queue` | 5 jobs, concurrency 2; one run and one feedback run of an issue, 2 commits, 1 move of the default branch; fairness | exact counters, no lost wakeup, refinement of `TaskPool` with its fairness; `PublishedWhole`, `UnusedBranchGoes` |
| `queue_limit` (violated) | 3 jobs, concurrency 1 | two jobs run at once on the push queue |
| `runner_operators` | 1 issue, 1 row, 2 calls, 1 retry, 1 crash; all operators; overlapping calls | `ClaimHeld`, `RetriesBounded`, `StageRowsOwned` |
| `runner_unattended` | 1 issue, 2 rows, 2 calls, 2 retries, 1 crash; disk loss, PR closed; fairness | types, `ClaimExclusive`, `WorktreeKept`, `LifeCycle`, `IssueReleased`, `InterruptedResolved`, `OrphansSwept` |
| `runner_approval` (violated) | 1 row, resume enabled | an approval during the end of the paused execution is lost |
| `runner_stop` (violated) | 1 row, 1 stage, stop enabled | a stop during the last stage does not prevent the push |
| `runner_stranded` (violated) | 1 row, 1 crash | a retriable run is left paused for ever |
| `feedback` | 1 pull request, 3 comments (one by a bot), 2 runs, 1 stage, 1 crash, 2 check events; fairness | `EntryHeld`, `OnePerPR`, `WorktreeInUse`, `CancelledNotPushed`, `EntryReleased`, `CommentAnswered`, `MarkedMeansMerged`, `MergedIsTold` |
| `feedback_cancel` (violated) | 2 comments, 2 runs, no crash | a cancelled run's `finally` removes the next run's entry |
| `execution` | see 2.4; 1 crash, 1 visit of a rival server, 1 closed connection; fairness; and the machines `Server` hosts | `SessionInSync`, `WithinBudget`, `ReadyIsClean`, `SectionExclusive`, `MergeIsEarned`, `ExecutionEnds` (`RunEnds` of `Execution`); `SaidOnce`, `ServerSound`, `IssueTicketed` |
| `pm` | 2 issues: `a` with a repository, `b` without, listed first; threshold 1, caps of 1, webhooks of Todo; fairness | `OncePerCooldown`, `ProbedAgain`, `StuckLeaves`, `TodoServed` |
| `release` | 1 approver, 2 commits, versions, QA runs and rows; fairness | `QaPassed`, `FireMeansReleased`, `TaggedOnce`, `PendingResolved` |

`SaidOnce` and `ServerSound` are conjunctions with one conjunct per machine of
`Server`:

| conjunct | says | bounds |
|---|---|---|
| `Approvals`: `AskedOnce`, `ActedOnce` | no second request while one is pending, but for an issue moved between the two lists; a request is carried out by one tick at most | 1 issue, 2 rows |
| `BudgetAlerts`: `ClaimsAnnounced` | a claimed threshold was announced or is being announced, unless a crash left it behind | 2 ticks, 1 scope |
| `AlertIntake`: `OwnTicket` | an alert is answered with a ticket of its own, and has a second one only if two deliveries looked at once | Sentry ids of which one begins the other, 1 alarm, 2 deliveries, 2 tickets |
| `GhLinearSync`: `OneTicket` | one ticket per issue unless a lookup failed | 1 issue and 1 pull request on a page of one item, 2 labels |
| `QaGap`: `OneIssue`, `GivenUpFairly` | one issue per missing workflow unless an answer was lost or the look failed; three dispatch failures in a row before giving up | 2 issues |
| `CostRollup`: `RollupExact` | a rolled day is right, no day is passed over | 3 days, 2 runs, 2 buckets, backfill of 2 |
| `Bootstrap`: `SetupWorks` | a `.env` verifies what GitHub and Linear send | 3 attempts |
| `Migrator`: `ServingMigrated` | a server that serves has the whole schema under its own names | 3 migrations of 2 statements, 2 renamed |
| `Tunnel`: `StopIsFinal` | no tunnel is left after a shutdown | 2 restarts |
| `ConfigReload`: `LiveFollowsFile` | the live map is what a restart would build | 2 repositories, 1 team, 2 commands |
| `FileOverlap`: `OneHasHeard`, `AskedIfChanged` | of two runs that changed a file at least one has heard of the other; the PM agent asks before it starts an issue beside a run with changed files | 2 runs, 1 file |

Why these bounds are enough to be of use: every conflict in the runner is between
two activations for the same issue, so two calls and one issue show it; two rows
are needed for a run that is restarted afresh; one stage before and one after
a boundary exercise `next`, `last` and the index in the payload; a limit of two
retries has a first, a last and a refused one; one crash may fall anywhere.
For feedback, two comments and two runs show every
conflict, a comment delivered again after its entry expired included, and the
theorems cover the rest. In `execution` each loop can be left early, run out and
feed the next one. In `pm`, `a` goes through every step, and `b` stands in its way at
each: it waits in Todo and takes the only place of `startTodoIssues`, lies In Progress
merged and takes the quota of `recoverStuckInProgressIssues`, or is broken for ever
and takes turns at the only probe. Two issues that both run, the webhook of Blocked and a
threshold of two are not in the instance; of these, `OncePerCooldown` is proved. In
`release` the second version can be tagged at the first commit or the second.
Larger instances checked once by hand, without an error: `ReleaseManager`
(invariants) with three versions, `GhLinearSync` with two issues, `CostRollup`
with four days and another number of days asked, `AlertIntake` with two alarms and
three tickets, `QaGap` with three issues.

`SYMMETRY` over the calls is used only where no liveness is checked. Deadlock is not
checked where the bounded system ends when its rows or commits are used up; it is
in `execution`, `pm` and `release`.

### 3.1 Fairness

`WorkQueue`: microtasks run, `fn` settles. `LiveSpec` of `PipelineRunner`: a call in
flight goes on (weak fairness of `Step`): every await of the runner ends, by the
stage's wall-clock limit or the lock's deadline. `SF(Push)`: the review-fix and
deep-review loops have iteration counts (which `execution` shows to suffice).
`BootRecover`, `BootDone`: the boot sequence runs. `SweepOrphans` (weak) and
`RecoverSelect` (strong): the PM tick is a timer and looks at every retriable row;
strong, because an overlapping call may make the row unavailable between two ticks.

`FeedbackPipeline` and `PullRequests`: the same; the handler of an event goes on, and
the event of a merge is delivered or lost, as the host decides.

`Execution`: what runs goes on, since streams have watchdogs, the lock a deadline and
commands time limits; the tick resumes a retriable row; the rival leaves its
section. Nothing says that the agent succeeds, or that a lost lock is returned.

`PmTick`: the steps of each issue's run are weakly fair. Again and
again a tick begins with the budget unspent, all slots free and no row too old or too
fresh, it selects probes, and it looks for Todo issues with all slots free. These are
stated as `[]<><<A>>_vars`: every tick comes through these steps and nothing a run, a
webhook or a person does disables them for ever, so the form says what strong fairness
would, and that no step of the tick waits for ever. For each issue a recovery that is moved
and a start that is answered are strongly fair: a network that fails for ever would starve
anything. Nothing is assumed of the cooldown, nor that a place of the tick goes to a given
issue. `ReleaseManager`:
the scheduler begins a tick again and again, an operator's pause ends, the retry of
a pending row is attempted again and again. `Branches`: short steps of sessions go
on, time passes (`Age`), the sweep lists, asks and deletes again and again.

No operator, webhook, crash, reviewer or rival is assumed to act anywhere.

### 3.2 Where code and text disagree

The first five are shown by the runs of those names.

- **`queue_limit`**. `runner.ts:219` calls the push queue a queue of concurrency
  1 that serialises push and PR creation. `release()` decrements `running` and
  resolves the waiter; the waiter increments it in a microtask without looking
  again. An `enqueue()` that runs in between takes the slot too.
- **`runner_approval`**. `runner.ts:435`: "just update the DB status and let the
  existing execution continue". After `StageAwait` the existing execution does
  not continue, it is on its way to `activeRuns.delete`. An approval in this
  window sets the row running and no job is left. The row is brought back only
  by a restart, or by the zombie sweep after an hour.
- **`runner_stop`**. `deploy/STOP_AND_HALT.md:12` promises "No PR" after a graceful
  stop. The signal is read at the head of the loop only, and `onStop` has no
  subscriber: a stop during the last stage, or later, is followed by the push.
- **`runner_stranded`**. `recover.ts:90` and `runner.ts:477` make a retriable row
  paused before its job is queued. After a restart in between,
  `recoverStuckRuns` looks at `running` and `queued` rows and the tick at
  `retriable` ones.
- **`feedback_cancel`**. `runner.ts:745` calls the second removal of the entry, in
  the `finally` of a cancelled feedback run, idempotent, "Map.delete on a missing
  key is a no-op". After the first removal a new comment may be accepted; the
  second then removes the entry of that run, whose queued job returns at the
  guard `feedback-pipeline.ts:697` ("was cancelled"). Its row stays `queued` and
  the comment counts as handled.

The models also contain the following, which the properties are stated around.
None of them is refuted by a run of its own.

*Runner and executor.*
- `ralphSatisfied` starts true (`runner.ts:1119`); an implement stage that
  succeeds on a retry, a resumed run and the passes of deep review are never
  checked. `ReadyIsClean` is about the last answer RALPH gave.
- `types.ts:97` calls `maxTokens` a limit "per pipeline run"; the count starts at 0
  on resume, retry and validation passes are not counted, and the pass that
  resolves a conflict is not checked. `WithinBudget` is about counted tokens. The
  tokens of an implement pass are added at line 1259 and first compared at 1363, after
  RALPH's first re-implement, which may therefore begin over the limit: the
  invariant the other passes obey has this one exception (`NotYetCompared`).
- `distributed-lock.ts:1-3` promises one push at a time per branch; postgres.js
  recycles connections (`db/client.ts:357`), also that of a lock in use.
  `SectionExclusive` is stated for `lost = 0`. The unlock may go to another
  connection and leak the lock, and the conflict-resolving pass runs inside the
  lock, so that another server fails with its deadline of two minutes.
- A second execution after the pull request was created completes with `pr_url`
  null. Transient errors are recognised by patterns over a text that contains a
  duration, so `/401/` may match milliseconds. A shutdown does not wait for runs.
- Fetching before every push refreshes the lease of `--force-with-lease`, and the
  retry after "stale info" fetches again: commits people pushed during a run are
  overwritten, against the comment at `runner.ts:2654`.
- `classifyExistingBranch` takes a failed `gh` query for "stale", and `start()` then
  deletes the branch of an open pull request; the sweep takes it for "has one".
- `rebaseBranch` does not know the conflict codes DU, UD, AU and UA and leaves the
  rebase in progress; `deleteWorktree` runs without a directory and fails outside a
  repository; a feedback push after the merge creates the deleted branch again.

*Pull requests.*
- Auto-merge by the API sets `auto_merged` before the event of the merge comes;
  the event is then taken for known and `onPRMerged` never called: the issue is not
  moved to Done. `MergedIsTold` is about merges by people.
- A handler's late record writes null over true. GitLab's
  merge-when-pipeline-succeeds is recorded as merged before it is. A comment on a
  merged pull request starts a feedback run, which moves the issue back when it ends.
  A later COMMENTED review of a user hides their APPROVED one.

*PM agent.*
- The server's own move to Blocked comes back as the webhook that pauses the run:
  the failed row becomes paused, the failure is not counted and the breaker row is
  swept. `OncePerCooldown` counts with it.
- `select-probe-candidates.ts:27-28` says that with the oldest probe first no issue
  starves. That is so among the rows that were probed; rows never probed go before them,
  so with a cap of one, issues that are reset and fail again for ever keep the others
  waiting. `ProbedAgain` says so: it leaves out behaviours in which some other issue
  is again and again without a probe (`[]<>(Others(i) \cap ToSet(unprobed) # {})`).
- `start-todo.ts` and `recover-stuck.ts` take the first issues of a list that is not
  rotated: issues with an open breaker, an open pull request, no repository or a refused
  move, and merged ones, are at its head again in every tick. `StuckLeaves` and
  `TodoServed` leave out behaviours in which issues listed before fill all the places
  again and again (`CrowdedOut`), and no others.
- Ticks can overlap after all: the SQLite lock always succeeds, the Postgres lock is
  taken through a pool, and a failed lock query proceeds.
- An approved action is marked before it is carried out; a crash or failure in
  between loses it. A message whose row could not be inserted is ignored for ever.
  Requests expire before their reactions are read. A team without a state "Icebox"
  is asked again each tick.
- A budget alert whose claim a crash left behind is silent for the day.
- A broken-off roll of a day older than yesterday is never repaired; a run that
  fails and is resumed the next day counts on both days; `ura cost backfill --days n`
  on an empty table keeps earlier days from ever being rolled.
- Feedback runs announce their files but never look at those of others
  (`feedback-pipeline.ts:360`); files changed locally after a push are not seen by
  the PM agent (`conflict.ts:51`); two issues promoted in one tick are not compared.

*Release manager.*
- A manual tag, or a tag whose row was lost in a crash, freezes the manager: it is
  sighted again each tick and nothing re-baselines, against decision D8 of
  `docs/superpowers/specs/2026-05-01-bec-135-release-manager-design.md:29`.
- An approval stays valid after a failed release or a crash, against "one-shot"
  (`CHANGELOG.md:883`); an expired one blocks its user's next by the unique key of
  migration 010. When `listTags` fails, the first version is tagged again.
- The sweep creates a tag again that an operator removed, at its old commit. If it is
  the highest version, the next tick takes its commit for the latest one tagged, and
  tags the commits after it a second time. `TaggedOnce` leaves those out (`Overtaken`).
- `dispatch_422` is logged as a permanent skip and dispatched again each tick.
- A workflow GitHub does not know yet (404 on dispatch) is reported by a new issue
  every tick: the look at the file closes the row, the dispatch opens one. The
  counter of filing failures is the greatest of all rows, so the "consecutive
  failures" of `release-helpers.ts:252` may be years apart.

*Intake, boot and command line.*
- `gh-linear-sync.ts:263` says idempotent; a failed lookup counts as not found and
  makes a second ticket. Only the first page of each label is read, and pull requests
  fill it. Closing reads a lazy `state` as if it were a value.
- Two deliveries of one alert at the same time make two tickets; names of alarms that
  differ only in brackets share one.
- After a return to the former release, the rename of a record meets the unique name
  and no later boot succeeds.
- A tunnel whose URL does not appear in time is forgotten: it outlives the server, and
  when its restarts run out its "error" has no listener and ends the process, against
  the comment at `start.ts:337`.
- A key that passes from one repository to another within one save ends in the wrong
  entry, or in none; additions are applied first. `fs.watch` loses a file replaced by
  rename. "Removals ... deferred to the next reload" (`start.ts:403`) is not what
  lines 480-490 do.
- `--skip-linear` writes a fresh webhook secret over that of the registered webhook; a
  headless attempt that pastes a secret and fails leaves the old one in `.env`.

## 4 Proofs

All theorems hold for every value of the constants that satisfies the named
assumptions of the modules (`JobsAssumption`, `ConcurrencyAssumption`,
`RunnerAssumption`, `IssueAssumption`, `FeedbackAssumption` and so on). They say that
sets are finite where the code has arrays of them, that numbers are natural numbers,
and which settings the schemas admit; `AlertAssumption` has names as sequences of
characters, and Sentry's ids made of digits. `Board` and `PmTick` ask for a finite set of
issues, each listed once by Linear.

`PROJECT.json` lists the theorems and the properties of the runs they state. Every
invariant that a passing run checks is one of them, and every action property, but for
`ClaimExclusive`, `WorktreeKept` and `LifeCycle`: these hold only under assumptions the code
does not enforce, and what is proved of them is a conditional result (section 4.2). TLC
checked each strengthening before it was proved.

### 4.1 WorkQueueProofs

The inductive invariant is the conjunction of the four invariants of the run: the
counters need the waiters to be distinct (waking one job must not change two), and work
conservation needs exact counters. With it, `ImplementsPoolSafety` shows that each step
of the queue is a step of `TaskPool` or a stutter. Its fairness is left to the run
`queue`.

### 4.2 PipelineRunnerProofs

`TypeCorrect` needs two more facts (`TypeInv`): a call at `agent` has a stage left, so
that `next + 1` stays in range, and a call past its insert knows its run and its issue.
The lemma `Shape` then says of every step what each call can do: go on within its
claim, end, claim, begin, stay, or be reset by a crash. The other theorems follow from
the shapes instead of from forty actions each:

| theorem | strengthening |
|---|---|
| `RetriesAlwaysBounded` | the count an execution carries is at most the limit |
| `ClaimAlwaysHeld` | none: each shape keeps the claimant or drops the entry |
| `StageRowsAlwaysOwned` | a pass opens its row as it enters `agent` or `fix` and closes it as it leaves |
| `RestingRowsKept` | none beyond `ClaimHeld`: whoever overwrites a row is a call for it, or found it in `activeRuns`, where `ClaimHeld` says such a call is in flight |
| `IssuesKeptApart` | none beyond `ClaimHeld`: an issue without a call has no claim, so nothing is left that acts for it |

None of these assumes anything of the environment: calls may overlap, operators act and
the zombie recovery overwrite rows at any moment. `RestingRowsKept` says what is left of
the life cycle then: of a row no call works for, completed and aborted stay what they are,
failed stays failed, cancelled is changed only by `ura admin terminate`. `IssuesKeptApart`
says how far a race can reach: the claim stays free, the branch changes only as its pull
request is closed and the worktrees go only with the disk, of every issue no call works
for, whatever calls for other issues do to each other.

The module also holds three conditional results, which are not among the listed
theorems:

| theorem | assumption | strengthening |
|---|---|---|
| `ClaimsAlwaysExclusive` | `Serial`: no overlapping calls, no abort, no stop | at most one call of an issue is claimed, at most one is before its claim, an issue with a call before its claim that has checked the map is still free |
| `WorktreeAlwaysKept` | `Serial` | a call past its claim either still has to clone or has its worktree on disk |
| `RowsFollowLifeCycle` | `Unattended`: `Serial`, and nobody pauses or terminates, and no zombie recovery | `StatusInv`: a call at a place finds its row in the status the place relies on (`StatusFits`), a row has no payload before its job begins, and no call is in flight while the server boots |

The code does not enforce these assumptions: that two starts pass the check before either
sets the entry is a behaviour of the code. The results say that nothing else breaks the
three properties, with a crash, the loss of the disk, resumes, retries and closed pull
requests taken in. A worktree is removed only by a claimed call of its own issue, which is
why `WorktreeAlwaysKept` can rest on `ClaimsAlwaysExclusive`; `RowsFollowLifeCycle` rests on
`RelyingApart`, that two calls which rely on their rows have different ones.

### 4.3 PullRequestsProofs

First the feedback pipeline by itself. `TypeInv` adds to the types what a run knows of
itself at each place (`RunInv`);
`WorkRowsAlwaysOwned` and `CancelledNeverPushed` are consequences of it: a row of
`active_work` is gone after `Ending`, a run has pushed only after `Push` and is
cancelled only before it. `StepShape` sorts the steps by what they do to the entries.
`EntryAlwaysHeld` is inductive over the shapes. `AlwaysOnePerPR` needs `StartsAlone`,
that a run between acceptance and claim finds no entry and no rival, and
`StaysDisturbed`, that the exempted pull requests stay exempted; `WorktreeAlwaysInUse`
follows, as a run that clones holds the entry.

`ComposesFeedback` is a refinement: a step of `PullRequests` is one of
`FeedbackPipeline` or leaves its variables alone, so that `FeedbackKept` carries the
invariants over to the composition, which is what the run `feedback` checks.
`AlwaysMarkedMeansMerged` needs `MarkInv`: a handler that was answered "merged", and an
event that tells of the merge, come after it; a merged pull request is not opened
again.

### 4.4 ExecutionProofs

`PlaceInv` makes the types inductive: it says of each place of the program what the
runner knows of the pass, for instance that a handoff is taken only from a completed
pass and that the deep-review loop runs only with both of its stages configured. On it
rest five invariants, one for each theorem or two:

| theorem | invariant | what it adds |
|---|---|---|
| `SessionAlwaysInSync` | `SessionInv` | which session the row means while a pass collides, is drawn anew, or is being saved |
| `SectionAlwaysExclusive` | `LockInv` | in the section this server holds the lock through a connection of its own, the rival in its own; a lock may leak but is never granted twice |
| `MergeAlwaysEarned` | `ResolveInv` | a pass that resolves a conflict runs only with the conflict flag set, which only its success clears |
| `ReadyIsAlwaysClean` | `DraftInv` | from the last gate to the pull request nothing changes RALPH's answer or the handoff, or the draft flag is set |
| `AlwaysWithinBudget` | `BudgetInv` | at which places the count has been compared since tokens were last added |

`SectionAlwaysExclusive` is for any number of connections, `WithinBudget` for any limit
and number of iterations. TLC had found `WithinBudget` without its exception true, because
the limit of the run is above the first pass; the attempt to prove it was what showed the pass
that comes before the comparison.

### 4.5 ReleaseManagerProofs

The types are inductive with `SweepInv`. `FireAlwaysReleased` and `QaAlwaysPassed` need
what the tick knows between two calls to GitHub (`FireInv`: the release exists before
the row says so; `QaInv`: the planned commit has its passed run, though `head` moves
on). `TaggedAlwaysOnce` needs `OrderInv`: above a version of the manager no tag is at an
older commit, and a planned version fits in. That a next version exists and is the
greatest of a finite set is the lemma `LargestExists`. Checking `OrderInv` with three
commits and three versions is what showed the way a commit is tagged twice that
section 3.2 describes.

### 4.6 PmTickProofs

`OnceAlways` rests on three steps of one tick being apart: a probe is charged when it is
chosen, from rows out of cooldown (`ProbeInv`); `startTodoIssues` takes issues in Todo
and `promoteReadyIssues`, later, issues in Backlog; and nothing moves an issue that had
its run back to Backlog before the tick is over, but a human, which forgives it
(`DrivenInv`). That `startTodoIssues` looks at no issue twice is the lemma
`OnlyInjective`; the module begins with lemmas on `Only` and `First`, the filters of
the tick.

### 4.7 BranchesProofs

`PushesAlwaysWhole` says of every push that it carries the commits of its run and what
was under review when its worktree was made. The worktrees of an issue share one local
ref, and a push publishes that ref, so the invariant (`WholeInv`) is about the ref and not
about the run: `Carried`, that the ref has what the run owes whose worktree has the
branch checked out, or the default branch has it. It is inductive with `OneBranch`, that
one worktree at most has the branch checked out, `Reviewed`, that between the fetch of a feedback
run and its worktree the commits under review stay at the tip the worktree will be made
of, and four facts on the order of things: commits are numbered as they are made, the
clone's default branch is never ahead, a run owes nothing before its first commit, and
the first clone comes before the first worktree. The run `queue` checks the property
on the `Branches` that `MCQueue` hosts.

### 4.8 ServerProofs

For each machine of `Server` three lemmas: its `IndInv` holds at the start (`...Begins`),
every step keeps it (`...Steps`), and it gives the conjunct of `SaidOnce` or
`ServerSound` (`...Shows`). `ServerInvAlways` puts them together, as one machine works in
a behaviour and `part` never changes; three theorems follow, `IssueTicketedAlways` from
the step of the sync. `ExecutionKept` carries the five properties of section 4.4 over to the
execution among the machines, which is the one the run `execution` checks: every step of
`Server` is one of `Execution` or leaves it alone, and no theorem of `ExecutionProofs` rests
on fairness (`Steps`).

| machine | what `IndInv` adds to the property |
|---|---|
| `Approvals` | the rows a tick read are pending until it comes to them, a row being carried out, or repeated, is marked, and one to be carried out was not before, an issue still to be asked about has no request but one for its second place in the lists |
| `BudgetAlerts` | what is being posted is claimed |
| `AlertIntake` | two deliveries of one alert that overlap, and a delivery about to create a ticket that exists by now, are among the excused |
| `GhLinearSync` | a lookup that did not fail is still true; an issue that stays on its page is to be listed, or listed, or done with |
| `QaGap` | a tick that is about to file has found neither an open row nor the file, or has its excuse; what is counted are failures in a row |
| `CostRollup` | only days that are over are rolled; what was read of a day lies between the runs that end there now and those that ever did; a roll goes through its days in order, so that a row has no gap behind it |
| `Bootstrap` | which files, secrets and webhooks an attempt has at each step |
| `Migrator` | what a boot has passed is recorded, and what it has run is in the schema |
| `Tunnel` | the search for a URL ends before the server can be stopped; a stop reaches the manager that is held |
| `ConfigReload` | the configuration that was read last gives each key to one repository |
| `FileOverlap` | the row of a run at work says what it announced; a run that changed files before the tick is unread or has left a file with it |

Two machines compute along a list of any length: `ConfigReload` builds its map entry by
entry and edits it change by change, `AlertIntake` sanitises a name character by
character; both are written as recursive functions on an interval. `CostRollup` needs that
a set of days has a first and a last one. Instead of an induction theorem `UpTo` is used: a
set of numbers that has 0 and is closed under the next one up to `L` is all of `0..L`,
since otherwise adding one would map a finite set one to one into itself and past 0.
`Recursion` and `RecursionIn` draw from it that a
recursive function on `0..L` exists, has its equations and stays in its range. Behind
`LiveFollowsFile` stands then that the order of the entries makes no difference as long
as no key is given twice, and that a change is found under its former key; behind
`OwnTicket`, that a sanitised name has no bracket and that of two titles in brackets
neither begins the other.

`RollupExact` rests on `RollupAssumption` that the tasks are finitely many, since its
counts are cardinalities.

### 4.9 Only model-checked

- Liveness: `IssueReleased`, `InterruptedResolved`, `OrphansSwept`, `EntryReleased`,
  `CommentAnswered`, `MergedIsTold`, `ExecutionEnds`, `ProbedAgain`, `StuckLeaves`,
  `TodoServed`, `PendingResolved`, `UnusedBranchGoes`, and the fairness of `TaskPool`.
  The proof system has no rule for fairness and `ENABLED` that would do.
- What `Gates` computes from the reviews of a pull request, which it filters with
  `SelectSeq`; no theorem depends on it. `Only` of `CircuitBreaker` is written by ranks so
  that it can be reasoned about.

## 5 What is abstracted, and what is not modelled

- Failed database writes in `PipelineRunner` and `FeedbackPipeline`. Each write
  succeeds. (`resume()` would leak its claim if one failed between claim and enqueue;
  a feedback comment would be lost if the insert of its row failed.) The modules of
  the PM agent, the release manager and the intake let each call fail.
- Notifications and audit events. `CompositeNotifier` swallows every rejection; the
  audit log is append-only and best effort, and nothing the program decides reads it.
- The result `cancelled` of a stage: the executor never returns it, and nothing
  subscribes to `onStop`.
- Text, prompts, models, profiles, MCP servers, permissions; what a sub-agent of deep
  review sees; descriptions of pull requests, issues and messages.
- Triage beyond its verdict, the statistics of its predictions, kinds of version
  bumps, digests.
- `pm/conflict-detector.ts` is exported and used by nothing; `executor/hang-detection.ts`
  only logs.
- Routing of labels to pipelines, zod schemas, the environment and its parsing, rbac
  and authentication: pure functions and table lookups, without interleavings.
- Dashboard, observers and `create-urateam`: views over tables, read-only pattern
  detection, and a scaffolder. Two details of the dashboard matter elsewhere and are
  in the models that own the state: its stop route answers success although
  `requestStop` may find no run any more, and the mutex of its tick route does not
  keep out the scheduler's own ticks.
- Stage names are distinct (`indexOf(stage)` is then the position); a pipeline
  may hold `await-approval` once, as all of `pipeline/config.ts` do.
- The forges GitLab and Bitbucket: their handlers are actions of `PullRequests`, but
  the run uses GitHub.
- The zombie recovery may fail a feedback row too; for the feedback pipeline this
  is `TerminateRun`.

The components that are not modelled are listed in `PROJECT.json` with the
reason.

## 6 Plan

Modelled, in the order of the first plan: queue, runner, feedback, push section and
loops, PM tick and breaker, approvals, release manager, executor; then pull requests,
branches, intake, costs and the command line.

Proved since: the invariants of the queue, the runner, the feedback pipeline, the pull
requests, the execution, the tick and the release manager; the life cycle of a row; that
pushes are whole; the invariants of the eleven machines of `Server`.

Next: that `Execution` implements the stage actions of `PipelineRunner`, step by step.

Open in the models: two PM issues that both have a repository, overlapping ticks of the PM
agent, a merge by people while a main run of the same issue is resumed.
