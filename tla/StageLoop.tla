----------------------------- MODULE StageLoop -----------------------------
(***************************************************************************)
(* The loops of executePipeline() (pipeline/runner.ts) around the stage    *)
(* executor: the stages in order, each with RALPH, retries and handoff     *)
(* validation; then the review-fix loop, the deep-review loop and the      *)
(* gates that decide whether the pull request is a draft.                  *)
(***************************************************************************)
EXTENDS StageExecutor, Gates

CONSTANTS
    Stages,               \* config.stages without await-approval
    RalphIterations,      \* effective ralphIterations
    FixAndRetry,          \* retry.strategy is "fix-and-retry"
    MaxAttempts,          \* retry.maxAttempts
    ValidateHandoffs,     \* config.validateHandoffs !== false
    ReviewFixIterations,
    DeepReviewPasses,     \* passes after the licence and the auto-bump
    FindingsBlock,        \* deepReviewFindingsAreBlocking
    FailOnAutoCommit,
    MaxTokens,            \* config.maxTokens, in passes
    MaxTransientRetries   \* MAX_TRANSIENT_RETRIES of error-classifier.ts

ASSUME LoopAssumption ==
    /\ Stages \in Seq(StageNames) /\ Len(Stages) > 0
    /\ \A m, n \in 1..Len(Stages) : Stages[m] = Stages[n] => m = n
    /\ {"implement", "review"} \subseteq StageNames
    /\ {RalphIterations, MaxAttempts, ReviewFixIterations, DeepReviewPasses,
        MaxTokens, MaxTransientRetries} \subseteq Nat
    /\ {FixAndRetry, ValidateHandoffs, FindingsBlock, FailOnAutoCommit}
         \subseteq BOOLEAN

VARIABLES
    at,         \* where executePipeline() is
    status,     \* pipeline_runs.status
    next,       \* index of the stage in work, from 1
    round,      \* attempt or iteration of the loop in work
    fixAt,      \* position of the stage of the review-fix loop
    found,      \* findings of the deep-review pass in work and of the one before
    mainFirst,  \* isFirstResumableStageForMain
    handoff,    \* what the last handoff says of blocking findings
    ralph,      \* "satisfied", or why not: "gaps", "broken"
    counted,    \* run.totalInputTokens + run.totalOutputTokens
    saved,      \* resume_payload and current_stage_index + 2: where to resume
    retries,    \* pipeline_runs.retry_count
    verdict,    \* history: the last answer of RALPH in this execution
    draft       \* shouldDraft

loopVars == <<at, status, next, round, fixAt, found, mainFirst, handoff, ralph,
              counted, saved, retries, verdict, draft>>
local == <<fixAt, found, mainFirst>>   \* of one loop of the execution

Handoffs == Findings \cup {"absent"}

\* checkRequirements: a check agent that throws, runs out of turns or prints no
\* verdict is broken.
RalphAnswers == {"satisfied", "gaps", "broken"}

LoopPoints == {"idle", "stage", "pass", "ralph", "counted", "validate", "settle",
               "fix", "deep", "providers", "gates"}
PushPoints == {"lock", "commit", "rebase", "push", "pr", "merge", "complete"}
MaxFound == 2   \* bound: findings of a deep-review pass
Unseen == MaxFound + 1   \* previousFindingsCount = Infinity

LoopTypeOK ==
    /\ at \in LoopPoints \cup PushPoints
    /\ status \in {"running", "retriable", "failed", "completed"}
    /\ next \in 1..(Len(Stages) + 1)
    /\ round \in Nat /\ fixAt \in Nat /\ counted \in Nat
    /\ found \in [now : 0..MaxFound, before : 0..Unseen]
    /\ mainFirst \in BOOLEAN /\ draft \in BOOLEAN
    /\ handoff \in Handoffs
    /\ ralph \in RalphAnswers /\ verdict \in {"none"} \cup RalphAnswers
    /\ saved \in [handoff : Handoffs, next : 1..Len(Stages)]
    /\ retries \in 0..MaxTransientRetries

LoopInit ==
    /\ at = "stage" /\ status = "running" /\ next = 1
    /\ round = 0 /\ fixAt = 0 /\ counted = 0
    /\ found = [now |-> 0, before |-> Unseen]
    /\ mainFirst = FALSE /\ draft = FALSE
    /\ handoff = "absent" /\ ralph = "satisfied" /\ verdict = "none"
    /\ saved = [handoff |-> "absent", next |-> 1]
    /\ retries = 0

----------------------------------------------------------------------------
(* Building blocks.                                                         *)

Final == Len(Stages)
Current == Stages[next]
Position(stage) == CHOOSE n \in 1..Final : Stages[n] = stage
Broken(purpose) == Ended(purpose) /\ pass.at = "failed"

\* Mutant of OverBudget: the limit itself is still allowed.
OverBudgetStrictly(tokens) == MaxTokens > 0 /\ tokens > MaxTokens

\* checkTokenBudget: over the limit the run fails, without a context and
\* therefore for good.
OverBudget(tokens) == MaxTokens > 0 /\ tokens >= MaxTokens

\* failPipeline: transient, with retries left and the resume context, the row
\* becomes retriable at the failed stage; anything else is final.  The finally
\* block ends the execution.
Fail(stage, transient) ==
    /\ pass' = NoPass /\ at' = "idle"
    /\ IF transient /\ retries < MaxTransientRetries
         THEN /\ status' = "retriable" /\ retries' = retries + 1
              /\ saved' = [handoff |-> handoff, next |-> stage]
         ELSE status' = "failed" /\ UNCHANGED <<retries, saved>>

\* All of the executor but the pass itself.
Kept == <<session, initiated, rowSession, registered, transcripts, minted>>
StartPass(purpose, stage, brief) == at' = "pass" /\ Begin(purpose, stage, brief)
Goto(point) == at' = point /\ UNCHANGED <<pass, status, retries, saved>>

----------------------------------------------------------------------------
(* The stage loop.                                                          *)

StageBegins ==
    /\ at = "stage" /\ next <= Final
    /\ mainFirst' = ClaimsFirst
    /\ StartPass("main", Current, FALSE)
    /\ round' = 0
    /\ UNCHANGED <<status, next, fixAt, found, handoff, ralph, counted, saved,
                   retries, verdict, draft>>

\* RALPH runs after a completed implement stage; a failed one is retried and
\* the result of the retry is not checked.
RalphDue == /\ Ended("main") /\ pass.at = "completed"
            /\ Current = "implement" /\ RalphIterations > 0

RalphStarts ==
    /\ at = "pass" /\ RalphDue
    /\ counted' = counted + pass.cost
    /\ ralph' = "gaps" /\ round' = 1
    /\ Goto("ralph")
    /\ UNCHANGED <<next, local, handoff, verdict, draft, Kept>>

\* Mutant of RalphChecks: a check agent that broke counts as satisfied.
RalphChecksLeniently ==
    /\ at = "ralph"
    /\ \/ verdict' \in {"satisfied", "broken"}
          /\ ralph' = "satisfied" /\ Goto("counted")
          /\ UNCHANGED <<round, Kept>>
       \/ verdict' = "gaps" /\ ralph' = "gaps"
          /\ IF round = RalphIterations
               THEN Goto("counted") /\ UNCHANGED <<round, Kept>>
               ELSE /\ StartPass("ralph", "implement", session # 0 /\ ~ClaimsFirst)
                    /\ round' = round + 1 /\ UNCHANGED <<status, saved, retries>>
    /\ UNCHANGED <<next, local, handoff, counted, draft>>

\* checkRequirements: satisfied and broken end the loop; gaps re-implement,
\* unless no check is left.  The handoff is left out of a re-implement that
\* will, by the flag, resume the session.
RalphChecks ==
    /\ at = "ralph"
    /\ \/ verdict' \in {"satisfied", "broken"}
          /\ ralph' = verdict' /\ Goto("counted")
          /\ UNCHANGED <<round, Kept>>
       \/ verdict' = "gaps" /\ ralph' = "gaps"
          /\ IF round = RalphIterations
               THEN Goto("counted") /\ UNCHANGED <<round, Kept>>
               ELSE /\ StartPass("ralph", "implement", session # 0 /\ ~ClaimsFirst)
                    /\ round' = round + 1 /\ UNCHANGED <<status, saved, retries>>
    /\ UNCHANGED <<next, local, handoff, counted, draft>>

RalphReimplemented ==
    /\ at = "pass" /\ Ended("ralph")
    /\ counted' = counted + pass.cost
    /\ IF OverBudget(counted') THEN Fail(next, FALSE)
       ELSE Goto(IF pass.at = "failed" THEN "counted" ELSE "ralph")
    /\ UNCHANGED <<next, round, local, handoff, ralph, verdict, draft, Kept>>

\* Only fix-and-retry executes the stage again; escalate leaves the loop.
RetryDue == /\ FixAndRetry /\ round < MaxAttempts
            /\ Broken("main") \/ Broken("retry")

StageRetried ==
    /\ at = "pass" /\ RetryDue
    /\ StartPass("retry", Current, FALSE)
    /\ round' = round + 1
    /\ UNCHANGED <<status, next, local, handoff, ralph, counted, saved, retries,
                   verdict, draft>>

\* After the retries only the last result is counted.
StageCounted ==
    /\ at = "pass" /\ (Ended("main") \/ Ended("retry"))
    /\ ~RalphDue /\ ~RetryDue
    /\ counted' = counted + pass.cost
    /\ Goto("counted")
    /\ UNCHANGED <<next, round, local, handoff, ralph, verdict, draft, Kept>>

StageJudged ==
    /\ at = "counted"
    /\ CASE OverBudget(counted) -> Fail(next, FALSE)
         [] pass.at = "failed" /\ ~OverBudget(counted) -> Fail(next, pass.transient)
         [] OTHER -> Goto("validate")
    /\ round' = 0
    /\ UNCHANGED <<next, local, handoff, ralph, counted, verdict, draft, Kept>>

\* validateHandoff skips the agent for a stage of a resumed session, and goes
\* by the flag for that.
Unvalidated(first) == session # 0 /\ ~first

Validated ==
    /\ at = "validate"
    /\ IF ~ValidateHandoffs \/ next = Final \/ Unvalidated(mainFirst)
         THEN Goto("settle") /\ UNCHANGED <<round, Kept>>
         ELSE \/ Goto("settle") /\ UNCHANGED <<round, Kept>>
              \/ /\ FixAndRetry /\ MaxAttempts > 0
                 /\ StartPass("validation", Current, FALSE)
                 /\ round' = 1 /\ UNCHANGED <<status, saved, retries>>
              \/ /\ ~(FixAndRetry /\ MaxAttempts > 0)
                 /\ \E transient \in BOOLEAN : Fail(next, transient)
                 /\ UNCHANGED <<round, Kept>>
    /\ UNCHANGED <<next, local, handoff, ralph, counted, verdict, draft>>

\* The tokens of these passes are not counted.  The message of the failure
\* quotes the validator, and what it says may match a transient pattern.
Revalidated ==
    /\ at = "pass" /\ Ended("validation")
    /\ \/ pass.at = "completed" /\ Goto("settle") /\ UNCHANGED <<round, Kept>>
       \/ /\ pass.at = "failed" \/ ~Unvalidated(pass.first)
          /\ IF round < MaxAttempts
               THEN /\ StartPass("validation", Current, FALSE)
                    /\ round' = round + 1 /\ UNCHANGED <<status, saved, retries>>
               ELSE /\ \E transient \in BOOLEAN : Fail(next, transient)
                    /\ UNCHANGED <<round, Kept>>
    /\ UNCHANGED <<next, local, handoff, ralph, counted, verdict, draft>>

\* checkTestQuality adds findings to the handoff of a test stage, all of them
\* warnings.
WithTestQuality(findings) ==
    {findings} \cup (IF Current = "test" THEN {"clear"} ELSE {})

\* The handoff is taken, and what the agent left uncommitted is committed.
StageSettles ==
    /\ at = "settle"
    /\ handoff' \in WithTestQuality(pass.findings)
    /\ \/ /\ at' = "stage" /\ next' = next + 1 /\ pass' = NoPass
          /\ UNCHANGED <<status, retries, saved>>
       \/ FailOnAutoCommit /\ Fail(next, FALSE) /\ UNCHANGED next
    /\ UNCHANGED <<round, local, ralph, counted, verdict, draft, Kept>>

----------------------------------------------------------------------------
(* The review-fix loop.                                                     *)

\* Positions of the stages that the loop runs, in the order of the pipeline.
FixStages == {n \in 1..Final : Stages[n] \in {"implement", "test", "review"}}
FirstOf(positions) == {n \in positions : \A m \in positions : n <= m}

StagesDone ==
    /\ at = "stage" /\ next > Final
    /\ IF Stages[Final] = "review" /\ ReviewFixIterations > 0 /\ handoff = "blocking"
         THEN Goto("fix") /\ fixAt' \in FirstOf(FixStages)
         ELSE Goto("deep") /\ fixAt' = 0
    /\ round' = 1 /\ mainFirst' = FALSE
    /\ UNCHANGED <<next, found, handoff, ralph, counted, verdict, draft,
                   Kept>>

\* runSurgicalReviewFix: a brief prompt if the transcript is on disk, whatever
\* the model of the stage.
Surgical(stage) == /\ stage = "implement" /\ handoff = "blocking"
                   /\ session # 0 /\ OnDisk(session)

FixBegins ==
    /\ at = "fix"
    /\ StartPass("fix", Stages[fixAt], Surgical(Stages[fixAt]))
    /\ UNCHANGED <<status, next, round, local, handoff, ralph, counted, saved,
                   retries, verdict, draft>>

\* After an implement pass RALPH is asked once more.
FixChecked ==
    IF pass.stage = "implement" /\ RalphIterations > 0
      THEN verdict' \in RalphAnswers /\ ralph' = verdict'
      ELSE UNCHANGED <<ralph, verdict>>

\* Findings that the review agent leaves out count as resolved.
FixEnds ==
    /\ at = "pass" /\ Ended("fix")
    /\ counted' = counted + pass.cost
    /\ LET rest == {n \in FixStages : n > fixAt}
           after == rest = {}
           more == pass.findings = "blocking" /\ round < ReviewFixIterations
       IN CASE OverBudget(counted') ->
                 Fail(Position(pass.stage), FALSE)
                 /\ UNCHANGED <<round, fixAt, handoff, ralph, verdict>>
            [] ~OverBudget(counted') /\ pass.at = "failed" ->
                 Fail(Position(pass.stage), pass.transient)
                 /\ UNCHANGED <<round, fixAt, handoff, ralph, verdict>>
            [] OTHER ->
                 /\ handoff' = pass.findings /\ FixChecked /\ pass' = NoPass
                 /\ fixAt' \in FirstOf(IF after THEN FixStages ELSE rest)
                 /\ round' = (IF after /\ more THEN round + 1
                              ELSE IF after THEN 1 ELSE round)
                 /\ at' = (IF after /\ ~more THEN "deep" ELSE "fix")
                 /\ UNCHANGED <<status, saved, retries>>
    /\ UNCHANGED <<next, found, mainFirst, draft, Kept>>
----------------------------------------------------------------------------
(* The deep-review loop.                                                    *)

Reviewable == {"implement", "review"} \subseteq {Stages[n] : n \in 1..Final}

\* runDeepReview: three agents at once on the run's session.  Who opens it first
\* creates it; an agent that fails has no findings and no tokens.
SubAgentsOpen(ran) ==
    IF ran /\ session # 0 /\ "review" \in Resumable THEN {session} ELSE {}
ProviderResults == {r \in [found : 0..MaxFound, cost : 0..1] : r.cost = 0 => r.found = 0}

\* A pass of the providers.
DeepProviders ==
    /\ at = "deep"
    /\ IF ~Reviewable \/ round > DeepReviewPasses \/ handoff = "absent"
         THEN Goto("gates") /\ UNCHANGED <<found, counted, initiated, registered,
                                          transcripts>>
         ELSE /\ initiated' = (initiated \/ session # 0)
              /\ \E r \in ProviderResults :
                   /\ found' = [found EXCEPT !.now = r.found]
                   /\ counted' = counted + r.cost
                   /\ LET opened == SubAgentsOpen(r.cost = 1)
                      IN /\ registered' = registered \cup opened
                         /\ transcripts' = transcripts \cup (opened \ registered)
              /\ IF OverBudget(counted') THEN Fail(Position("review"), FALSE)
                 ELSE Goto("providers")
    /\ UNCHANGED <<next, round, fixAt, mainFirst, handoff, ralph, verdict, draft,
                   session, rowSession, minted>>

\* checkDeepReviewConvergence: no findings, or no fewer than before.
Converged == found.now = 0 \/ found.now >= found.before

\* Otherwise implement runs again.
DeepConverges ==
    /\ at = "providers"
    /\ IF Converged
         THEN Goto("gates") /\ UNCHANGED <<found, Kept>>
         ELSE /\ StartPass("deepImplement", "implement", FALSE)
              /\ found' = [found EXCEPT !.before = found.now]
              /\ UNCHANGED <<status, saved, retries>>
    /\ UNCHANGED <<next, round, fixAt, mainFirst, handoff, ralph, counted, verdict,
                   draft>>

DeepImplemented ==
    /\ at = "pass" /\ Ended("deepImplement")
    /\ counted' = counted + pass.cost
    /\ CASE OverBudget(counted') ->
              Fail(Position("implement"), FALSE) /\ UNCHANGED <<handoff, Kept>>
         [] ~OverBudget(counted') /\ pass.at = "failed" ->
              /\ Fail(Position("implement"), pass.transient)
              /\ UNCHANGED <<handoff, Kept>>
         [] OTHER -> /\ handoff' = pass.findings
                     /\ StartPass("deepReview", "review", FALSE)
                     /\ UNCHANGED <<status, saved, retries>>
    /\ UNCHANGED <<next, round, local, ralph, verdict, draft>>

\* The findings the pass started from are merged into the new handoff, whether
\* they were fixed or not.
Merged(findings) ==
    IF findings = "blocking" \/ FindingsBlock THEN "blocking" ELSE "clear"

DeepReviewed ==
    /\ at = "pass" /\ Ended("deepReview")
    /\ counted' = counted + pass.cost
    /\ CASE OverBudget(counted') ->
              Fail(Position("review"), FALSE) /\ UNCHANGED <<handoff, round>>
         [] ~OverBudget(counted') /\ pass.at = "failed" ->
              Fail(Position("review"), pass.transient) /\ UNCHANGED <<handoff, round>>
         [] OTHER -> /\ handoff' = Merged(pass.findings)
                     /\ round' = round + 1 /\ at' = "deep" /\ pass' = NoPass
                     /\ UNCHANGED <<status, saved, retries>>
    /\ UNCHANGED <<next, local, ralph, verdict, draft, Kept>>

----------------------------------------------------------------------------
\* The variables of the loops go out of scope.
LoopLocalsEnd == /\ round' = 0 /\ fixAt' = 0 /\ mainFirst' = FALSE
                 /\ found' = [now |-> 0, before |-> Unseen]

\* shouldDraft after all the loops: RALPH, the blocking findings of the last
\* handoff, and the gates, each of which lets the run pass when it breaks.
GatesDecide ==
    /\ at = "gates"
    /\ \E e \in Evidence :
         draft' = (ralph # "satisfied" \/ handoff = "blocking"
                   \/ GatesFire(e, counted))
    /\ Goto("lock")
    /\ LoopLocalsEnd
    /\ UNCHANGED <<next, handoff, ralph, counted, verdict, Kept>>

LoopNext ==
    \/ StageBegins \/ RalphStarts \/ RalphChecks \/ RalphReimplemented
    \/ StageRetried \/ StageCounted \/ StageJudged \/ Validated \/ Revalidated
    \/ StageSettles \/ StagesDone \/ FixBegins \/ FixEnds
    \/ DeepProviders \/ DeepConverges \/ DeepImplemented \/ DeepReviewed
    \/ GatesDecide
=============================================================================
