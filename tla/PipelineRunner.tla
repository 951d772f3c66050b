--------------------------- MODULE PipelineRunner ---------------------------
(***************************************************************************)
(* PipelineRunner (packages/core/src/pipeline/runner.ts) with the actors   *)
(* that write the same rows: the PM tick's recovery actions, the operator  *)
(* surfaces, the command line in another process, and the crash and boot   *)
(* of the server.                                                          *)
(*                                                                         *)
(* One server process runs everything on one JavaScript thread, so code    *)
(* between two awaits is atomic and everything may interleave at an await. *)
(* An action is the code from one await to the next, with the database     *)
(* write it issues.  A "call" is one activation of start(), resume(),      *)
(* abort() or of the tick's recovery; the job that start() and resume()    *)
(* enqueue stays with the call that enqueued it.  The queue itself is      *)
(* WorkQueue; here a queued job may begin at any moment (TaskPool).        *)
(***************************************************************************)
EXTENDS Integers, Sequences, FiniteSets

CONSTANTS
    Issues,               \* Linear issue identifiers
    MaxRuns,              \* bound: rows of pipeline_runs ever inserted
    Calls,                \* bound: activations in flight at once
    Stages,               \* config.stages: "agent" or "await" (await-approval);
                          \* no name occurs twice, so that indexOf(stage) is
                          \* the position of the stage
    MaxTransientRetries,  \* MAX_TRANSIENT_RETRIES of error-classifier.ts
    MaxCrashes,           \* bound: server restarts
    Enabled,              \* which of the environment's actions may happen
    OverlappingCalls      \* may two calls for one issue overlap before a claim?

EnvironmentActions == {"resume", "abort", "stop", "pause", "terminate",
                       "zombie", "crash", "diskloss", "close"}

ASSUME RunnerAssumption ==
    /\ MaxRuns \in Nat
    /\ Stages \in Seq({"agent", "await"})
    /\ Len(Stages) > 0
    /\ \A m, n \in 1..Len(Stages) :
         Stages[m] = "await" /\ Stages[n] = "await" => m = n
    /\ MaxTransientRetries \in Nat
    /\ MaxCrashes \in Nat
    /\ Enabled \subseteq EnvironmentActions
    /\ OverlappingCalls \in BOOLEAN

Runs == 1..MaxRuns        \* in the order they are inserted
NoRun == 0
NoIssue == "none"
ASSUME IssueAssumption == NoIssue \notin Issues

VARIABLES
    \* pipeline_runs, one entry per row
    status, issueOf, index, retries, age,
    \* stage_runs in status running, by the call that opened them; active_work
    stageOpen, activeWork,
    \* memory of the server process
    activeRuns, stop, pc, ctx,
    \* disk, remote branches, open pull requests
    worktree, remote, openPR,
    \* the server process
    phase, crashes

rowVars  == <<status, issueOf, index, retries, age>>
coordVars == <<stageOpen, activeWork>>
memVars  == <<activeRuns, stop>>
callVars == <<pc, ctx>>
hostVars == <<worktree, remote, openPR>>
procVars == <<phase, crashes>>
vars == <<rowVars, coordVars, memVars, callVars, hostVars, procVars>>

Terminal == {"completed", "failed", "cancelled", "aborted"}
Statuses == {"none", "queued", "running", "paused", "retriable"} \cup Terminal
NoPayload == -2           \* resume_payload and current_stage_index are null
Indexes == NoPayload..(Len(Stages) - 1)
Orphan == "orphan"        \* opened by a call that died with its process

PreClaim == {"classify", "insert", "claim", "recover", "resume", "select"}
Executing == {"clone", "setup", "stage", "agent", "finish", "fix", "pushed",
              "ending", "cancelling", "cleanup"}
Claimed == {"access", "queued", "release"} \cup Executing
Aborting == {"abort", "unclaim"}
PCs == {"idle"} \cup PreClaim \cup Claimed \cup Aborting

NoCtx == [issue |-> NoIssue, run |-> NoRun, next |-> 0, last |-> 0,
          retry |-> 0, fresh |-> FALSE, mem |-> "queued"]

Init ==
    /\ status = [r \in Runs |-> "none"]
    /\ issueOf = [r \in Runs |-> NoIssue]
    /\ index = [r \in Runs |-> NoPayload]
    /\ retries = [r \in Runs |-> 0]
    /\ age = [r \in Runs |-> 0]
    /\ stageOpen = [r \in Runs |-> {}]
    /\ activeWork = {}
    /\ activeRuns = [i \in Issues |-> NoRun]
    /\ stop = [r \in Runs |-> "none"]
    /\ pc = [c \in Calls |-> "idle"]
    /\ ctx = [c \in Calls |-> NoCtx]
    /\ worktree = {}
    /\ remote = {}
    /\ openPR = {}
    /\ phase = "up"
    /\ crashes = 0

-----------------------------------------------------------------------------
(* Building blocks.                                                        *)

Goto(c, p) == pc' = [pc EXCEPT ![c] = p] /\ UNCHANGED ctx
Finish(c)  == pc' = [pc EXCEPT ![c] = "idle"] /\ ctx' = [ctx EXCEPT ![c] = NoCtx]
SetStatus(r, s) == status' = [status EXCEPT ![r] = s]
DropClaim(i) == activeRuns' = [activeRuns EXCEPT ![i] = NoRun]
Idle(c) == phase = "up" /\ pc[c] = "idle"

\* bound: a start() is made only while a row is left for it.
RowLeft ==
    Cardinality({c \in Calls : pc[c] \in {"classify", "insert"}})
        < Cardinality({r \in Runs : status[r] = "none"})

\* Calls for one issue are serial up to the claim, unless they may overlap.
MayCall(i) ==
    OverlappingCalls \/ \A c \in Calls : ~(pc[c] \in PreClaim /\ ctx[c].issue = i)

\* Mutant of FailPipeline: the retry count is not looked at.
FailPipelineForever(c, failedStage, context, transient) ==
    LET r == ctx[c].run IN
    IF transient /\ context
      THEN /\ SetStatus(r, "retriable")
           /\ index' = [index EXCEPT ![r] = failedStage - 1]
           /\ retries' = [retries EXCEPT ![r] = ctx[c].retry + 1]
           /\ pc' = [pc EXCEPT ![c] = "cleanup"]
           /\ ctx' = [ctx EXCEPT ![c].mem = "retriable"]
           /\ UNCHANGED <<issueOf, age>>
      ELSE /\ SetStatus(r, "failed")
           /\ pc' = [pc EXCEPT ![c] = "ending"]
           /\ ctx' = [ctx EXCEPT ![c].mem = "failed"]
           /\ UNCHANGED <<issueOf, index, retries, age>>

\* failPipeline: a transient error with retries left and a full context makes
\* the row retriable at the failed stage; anything else is final.
FailPipeline(c, failedStage, context, transient) ==
    LET r == ctx[c].run IN
    IF transient /\ context /\ ctx[c].retry < MaxTransientRetries
      THEN /\ SetStatus(r, "retriable")
           /\ index' = [index EXCEPT ![r] = failedStage - 1]
           /\ retries' = [retries EXCEPT ![r] = ctx[c].retry + 1]
           /\ pc' = [pc EXCEPT ![c] = "cleanup"]
           /\ ctx' = [ctx EXCEPT ![c].mem = "retriable"]
           /\ UNCHANGED <<issueOf, age>>
      ELSE /\ SetStatus(r, "failed")
           /\ pc' = [pc EXCEPT ![c] = "ending"]
           /\ ctx' = [ctx EXCEPT ![c].mem = "failed"]
           /\ UNCHANGED <<issueOf, index, retries, age>>

-----------------------------------------------------------------------------
(* start()                                                                 *)

\* Mutant of Start: no look at activeRuns before the first await.
StartUnchecked(c, i) ==
    /\ Idle(c) /\ RowLeft
    /\ MayCall(i)
    /\ pc' = [pc EXCEPT ![c] = "classify"]
    /\ ctx' = [ctx EXCEPT ![c] = [NoCtx EXCEPT !.issue = i]]
    /\ UNCHANGED <<rowVars, coordVars, memVars, hostVars, procVars>>

Start(c, i) ==
    /\ Idle(c) /\ RowLeft
    /\ activeRuns[i] = NoRun
    /\ MayCall(i)
    /\ pc' = [pc EXCEPT ![c] = "classify"]
    /\ ctx' = [ctx EXCEPT ![c] = [NoCtx EXCEPT !.issue = i]]
    /\ UNCHANGED <<rowVars, coordVars, memVars, hostVars, procVars>>

LiveRowFor(i) == \E r \in Runs : issueOf[r] = i /\ status[r] \in {"running", "queued"}

\* checkDuplicateBranch and classifyExistingBranch.  A failed PR query counts
\* as "stale"; deleting the branch closes its PR; a failed delete is ignored.
StartClassify(c) ==
    LET i == ctx[c].issue IN
    /\ pc[c] = "classify"
    /\ \/ i \in remote /\ (LiveRowFor(i) \/ i \in openPR)
          /\ Finish(c) /\ UNCHANGED hostVars
       \/ i \in remote /\ ~LiveRowFor(i)
          /\ Goto(c, "insert")
          /\ \/ remote' = remote \ {i} /\ openPR' = openPR \ {i}
             \/ UNCHANGED <<remote, openPR>>
          /\ UNCHANGED worktree
       \/ i \notin remote /\ Goto(c, "insert") /\ UNCHANGED hostVars
    /\ UNCHANGED <<rowVars, coordVars, memVars, procVars>>

StartInsert(c) ==
    /\ pc[c] = "insert"
    /\ \E r \in Runs :
        /\ status[r] = "none" /\ \A q \in 1..(r - 1) : status[q] # "none"
        /\ SetStatus(r, "queued")
        /\ issueOf' = [issueOf EXCEPT ![r] = ctx[c].issue]
        /\ ctx' = [ctx EXCEPT ![c].run = r, ![c].fresh = TRUE]
    /\ pc' = [pc EXCEPT ![c] = "claim"]
    /\ UNCHANGED <<index, retries, age, coordVars, memVars, hostVars, procVars>>

StartClaim(c) ==
    /\ pc[c] = "claim"
    /\ activeRuns' = [activeRuns EXCEPT ![ctx[c].issue] = ctx[c].run]
    /\ Goto(c, "queued")
    /\ UNCHANGED <<rowVars, coordVars, stop, hostVars, procVars>>

-----------------------------------------------------------------------------
(* resume(), called by the webhook, the dashboard and the PM tick.         *)

\* An issue that is in memory only has its row rewritten.
ResumeActive(i) ==
    /\ "resume" \in Enabled /\ phase = "up" /\ MayCall(i)
    /\ activeRuns[i] # NoRun
    /\ SetStatus(activeRuns[i], "running")
    /\ UNCHANGED <<issueOf, index, retries, age, coordVars, memVars, callVars,
                   hostVars, procVars>>

Resume(c, i) ==
    /\ "resume" \in Enabled /\ Idle(c) /\ MayCall(i)
    /\ activeRuns[i] = NoRun
    /\ pc' = [pc EXCEPT ![c] = "select"]
    /\ ctx' = [ctx EXCEPT ![c] = [NoCtx EXCEPT !.issue = i]]
    /\ UNCHANGED <<rowVars, coordVars, memVars, hostVars, procVars>>

\* The same check made for the tick: recoverRetriableRuns awaits resume().
TickResume(c) ==
    LET i == ctx[c].issue IN
    /\ pc[c] = "resume"
    /\ IF activeRuns[i] # NoRun
         THEN SetStatus(activeRuns[i], "running") /\ Finish(c)
         ELSE Goto(c, "select") /\ UNCHANGED status
    /\ UNCHANGED <<issueOf, index, retries, age, coordVars, memVars, hostVars,
                   procVars>>

Resumable(i) == {r \in Runs : issueOf[r] = i /\ status[r] \in {"paused", "retriable"}}

\* The row is read, the claim set, a retriable row made paused, and the
\* payload checked.
ResumeSelect(c) ==
    LET i == ctx[c].issue IN
    /\ pc[c] = "select"
    /\ \/ Resumable(i) = {} /\ Finish(c) /\ UNCHANGED <<rowVars, activeRuns>>
       \/ \E r \in Resumable(i) :
            IF index[r] = NoPayload
              THEN /\ SetStatus(r, "failed")
                   /\ DropClaim(i)
                   /\ Finish(c)
                   /\ UNCHANGED <<issueOf, index, retries, age>>
              ELSE /\ SetStatus(r, "paused")
                   /\ activeRuns' = [activeRuns EXCEPT ![i] = r]
                   /\ pc' = [pc EXCEPT ![c] = "access"]
                   /\ ctx' = [ctx EXCEPT ![c].run = r, ![c].next = index[r] + 1,
                                         ![c].retry = retries[r]]
                   /\ UNCHANGED <<issueOf, index, retries, age>>
    /\ UNCHANGED <<coordVars, stop, hostVars, procVars>>

\* Mutants of ResumeAccess: the worktree is not checked; the claim is kept
\* when the worktree is gone.
ResumeUnchecked(c) ==
    /\ pc[c] = "access"
    /\ Goto(c, "queued")
    /\ UNCHANGED <<rowVars, coordVars, memVars, hostVars, procVars>>

ResumeKeepsClaim(c) ==
    LET r == ctx[c].run IN
    /\ pc[c] = "access"
    /\ IF r \in worktree
         THEN Goto(c, "queued") /\ UNCHANGED status
         ELSE SetStatus(r, "failed") /\ Finish(c)
    /\ UNCHANGED <<issueOf, index, retries, age, coordVars, memVars, hostVars,
                   procVars>>

\* access(worktreePath), then the job is enqueued.
ResumeAccess(c) ==
    LET r == ctx[c].run IN
    /\ pc[c] = "access"
    /\ IF r \in worktree
         THEN Goto(c, "queued") /\ UNCHANGED <<status, activeRuns>>
         ELSE SetStatus(r, "failed") /\ DropClaim(ctx[c].issue) /\ Finish(c)
    /\ UNCHANGED <<issueOf, index, retries, age, coordVars, stop, hostVars,
                   procVars>>

-----------------------------------------------------------------------------
(* The queued job and executePipeline().                                   *)

\* The job gives up only if no run of the issue is active; the check is by
\* issue, not by run.
JobBegin(c) ==
    LET r == ctx[c].run IN
    /\ pc[c] = "queued"
    /\ IF activeRuns[ctx[c].issue] = NoRun
         THEN Finish(c) /\ UNCHANGED <<status, activeWork>>
         ELSE /\ SetStatus(r, "running")
              /\ activeWork' = activeWork \cup {r}
              /\ pc' = [pc EXCEPT ![c] = IF ctx[c].fresh THEN "clone" ELSE "stage"]
              /\ ctx' = [ctx EXCEPT ![c].mem = "running"]
    /\ UNCHANGED <<issueOf, index, retries, age, stageOpen, memVars, hostVars,
                   procVars>>

\* The rows whose worktrees may block the branch of the call's issue.
Siblings(c) == {q \in Runs : issueOf[q] = ctx[c].issue}

\* cloneRepo and createWorktree: until they succeed failPipeline has no
\* worktree path and the failure is final.  worktreeAddWithRetry removes a
\* worktree that has the branch checked out, whoever uses it; a new title of
\* the issue makes a new branch.
Clone(c) ==
    /\ pc[c] = "clone"
    /\ \E gone \in {{}, Siblings(c)} :
        \/ /\ worktree' = (worktree \ gone) \cup {ctx[c].run}
           /\ Goto(c, "setup")
           /\ UNCHANGED rowVars
        \/ /\ FailPipeline(c, 0, FALSE, FALSE)
           /\ worktree' = worktree \ gone
    /\ UNCHANGED <<coordVars, memVars, remote, openPR, procVars>>

\* The setup commands, then the initial resume payload at index -1.
Setup(c) ==
    /\ pc[c] = "setup"
    /\ \/ /\ index' = [index EXCEPT ![ctx[c].run] = -1]
          /\ Goto(c, "stage")
          /\ UNCHANGED <<status, issueOf, retries, age>>
       \/ \E transient \in BOOLEAN : FailPipeline(c, ctx[c].last, TRUE, transient)
    /\ UNCHANGED <<coordVars, memVars, hostVars, procVars>>

More(c) == ctx[c].next < Len(Stages)
StageAt(c) == Stages[ctx[c].next + 1]

\* The stop check at the head of the stage loop; markRunCancelled begins.
StageStop(c) ==
    LET r == ctx[c].run IN
    /\ pc[c] = "stage" /\ More(c) /\ stop[r] # "none"
    /\ SetStatus(r, "cancelled")
    /\ activeWork' = activeWork \ {r}
    /\ pc' = [pc EXCEPT ![c] = "cancelling"]
    /\ ctx' = [ctx EXCEPT ![c].mem = "cancelled"]
    /\ UNCHANGED <<issueOf, index, retries, age, stageOpen, memVars, hostVars,
                   procVars>>

\* The end of markRunCancelled.
Cancelled(c) ==
    LET r == ctx[c].run IN
    /\ pc[c] = "cancelling"
    /\ stageOpen' = [stageOpen EXCEPT ![r] = {}]
    /\ DropClaim(ctx[c].issue)
    /\ stop' = [stop EXCEPT ![r] = "none"]
    /\ Goto(c, "cleanup")
    /\ UNCHANGED <<rowVars, activeWork, hostVars, procVars>>

\* Mutant of StageAwait: the payload already points past the approval.
StageAwaitPast(c) ==
    LET r == ctx[c].run IN
    /\ pc[c] = "stage" /\ More(c) /\ stop[r] = "none" /\ StageAt(c) = "await"
    /\ SetStatus(r, "paused")
    /\ index' = [index EXCEPT ![r] = ctx[c].next + 1]
    /\ pc' = [pc EXCEPT ![c] = "cleanup"]
    /\ ctx' = [ctx EXCEPT ![c].mem = "paused"]
    /\ UNCHANGED <<issueOf, retries, age, coordVars, memVars, hostVars, procVars>>

StageAwait(c) ==
    LET r == ctx[c].run IN
    /\ pc[c] = "stage" /\ More(c) /\ stop[r] = "none" /\ StageAt(c) = "await"
    /\ SetStatus(r, "paused")
    /\ index' = [index EXCEPT ![r] = ctx[c].next]
    /\ pc' = [pc EXCEPT ![c] = "cleanup"]
    /\ ctx' = [ctx EXCEPT ![c].mem = "paused"]
    /\ UNCHANGED <<issueOf, retries, age, coordVars, memVars, hostVars, procVars>>

\* upsertActiveWork and the insert of the stage row by executeStage.
StageStart(c) ==
    LET r == ctx[c].run IN
    /\ pc[c] = "stage" /\ More(c) /\ stop[r] = "none" /\ StageAt(c) = "agent"
    /\ stageOpen' = [stageOpen EXCEPT ![r] = @ \cup {c}]
    /\ activeWork' = activeWork \cup {r}
    /\ pc' = [pc EXCEPT ![c] = "agent"]
    /\ ctx' = [ctx EXCEPT ![c].last = ctx[c].next]
    /\ UNCHANGED <<rowVars, memVars, hostVars, procVars>>

\* Mutant of CloseStage: the executor returns without closing its row.
LeaveStageOpen(c) == UNCHANGED stageOpen

CloseStage(c) == stageOpen' = [stageOpen EXCEPT ![ctx[c].run] = @ \ {c}]

StageDone(c) ==
    /\ pc[c] = "agent"
    /\ CloseStage(c)
    /\ pc' = [pc EXCEPT ![c] = "stage"]
    /\ ctx' = [ctx EXCEPT ![c].next = @ + 1]
    /\ UNCHANGED <<rowVars, activeWork, memVars, hostVars, procVars>>

\* A RALPH pass, a retry or a validation retry opens a new row of the stage.
StageAgain(c) ==
    /\ pc[c] = "agent"
    /\ stageOpen' = [stageOpen EXCEPT ![ctx[c].run] = @ \cup {c}]
    /\ UNCHANGED <<rowVars, activeWork, memVars, callVars, hostVars, procVars>>

\* The stage failed for good, its handoff never validated, or the token
\* budget is spent (a failure without context, as final as a permanent one).
StageFail(c) ==
    /\ pc[c] = "agent"
    /\ CloseStage(c)
    /\ \E transient \in BOOLEAN : FailPipeline(c, ctx[c].next, TRUE, transient)
    /\ UNCHANGED <<activeWork, memVars, hostVars, procVars>>

LoopDone(c) ==
    /\ pc[c] = "stage" /\ ~More(c)
    /\ Goto(c, "finish")
    /\ UNCHANGED <<rowVars, coordVars, memVars, hostVars, procVars>>

\* The review-fix and deep-review passes run further stages with no stop check.
FixStart(c) ==
    /\ pc[c] = "finish"
    /\ stageOpen' = [stageOpen EXCEPT ![ctx[c].run] = @ \cup {c}]
    /\ Goto(c, "fix")
    /\ UNCHANGED <<rowVars, activeWork, memVars, hostVars, procVars>>

FixDone(c) ==
    /\ pc[c] = "fix"
    /\ CloseStage(c)
    /\ \/ Goto(c, "finish") /\ UNCHANGED rowVars
       \/ \E k \in 0..(Len(Stages) - 1), transient \in BOOLEAN :
            Stages[k + 1] = "agent" /\ FailPipeline(c, k, TRUE, transient)
    /\ UNCHANGED <<activeWork, memVars, hostVars, procVars>>

\* Under the push queue and the branch lock: push, then the pull request,
\* unless no provider is configured.  A throw reaches the outer catch.
Push(c) ==
    LET i == ctx[c].issue IN
    /\ pc[c] = "finish"
    /\ \/ /\ remote' = remote \cup {i}
          /\ openPR' \in {openPR, openPR \cup {i}}
          /\ Goto(c, "pushed")
          /\ UNCHANGED <<rowVars, worktree>>
       \/ /\ \E transient \in BOOLEAN : FailPipeline(c, ctx[c].last, TRUE, transient)
          /\ UNCHANGED hostVars
    /\ UNCHANGED <<coordVars, memVars, procVars>>

Complete(c) ==
    /\ pc[c] = "pushed"
    /\ SetStatus(ctx[c].run, "completed")
    /\ pc' = [pc EXCEPT ![c] = "ending"]
    /\ ctx' = [ctx EXCEPT ![c].mem = "completed"]
    /\ UNCHANGED <<issueOf, index, retries, age, coordVars, memVars, hostVars,
                   procVars>>

\* cancelRunningStageRuns, after the terminal status is written.
CloseRows(c) ==
    /\ pc[c] = "ending"
    /\ stageOpen' = [stageOpen EXCEPT ![ctx[c].run] = {}]
    /\ Goto(c, "cleanup")
    /\ UNCHANGED <<rowVars, activeWork, memVars, hostVars, procVars>>

\* The finally of executePipeline (a failed deleteWorktree is ignored) ...
Cleanup(c) ==
    LET r == ctx[c].run IN
    /\ pc[c] = "cleanup"
    /\ activeWork' = activeWork \ {r}
    /\ \/ worktree' = worktree \ {r} /\ ctx[c].mem \in {"completed", "failed"}
       \/ UNCHANGED worktree
    /\ Goto(c, "release")
    /\ UNCHANGED <<rowVars, stageOpen, memVars, remote, openPR, procVars>>

\* Mutant of Release: the job ends without removing its entry.
ReleaseNothing(c) ==
    /\ pc[c] = "release"
    /\ Finish(c)
    /\ UNCHANGED <<rowVars, coordVars, memVars, hostVars, procVars>>

\* ... and of the job: the entry of the issue goes, whoever owns it by now.
Release(c) ==
    /\ pc[c] = "release"
    /\ DropClaim(ctx[c].issue)
    /\ Finish(c)
    /\ UNCHANGED <<rowVars, coordVars, stop, hostVars, procVars>>

-----------------------------------------------------------------------------
(* Operators: webhook state changes, dashboard, Slack, command line.       *)

Pause(i) ==
    /\ "pause" \in Enabled /\ phase = "up"
    /\ activeRuns[i] # NoRun
    /\ SetStatus(activeRuns[i], "paused")
    /\ UNCHANGED <<issueOf, index, retries, age, coordVars, memVars, callVars,
                   hostVars, procVars>>

Abort(c, i) ==
    LET r == activeRuns[i] IN
    /\ "abort" \in Enabled /\ Idle(c)
    /\ r # NoRun
    /\ activeWork' = activeWork \ {r}
    /\ pc' = [pc EXCEPT ![c] = "abort"]
    /\ ctx' = [ctx EXCEPT ![c] = [NoCtx EXCEPT !.issue = i, !.run = r]]
    /\ UNCHANGED <<rowVars, stageOpen, memVars, hostVars, procVars>>

AbortRow(c) ==
    /\ pc[c] = "abort"
    /\ SetStatus(ctx[c].run, "aborted")
    /\ Goto(c, "unclaim")
    /\ UNCHANGED <<issueOf, index, retries, age, coordVars, memVars, hostVars,
                   procVars>>

AbortUnclaim(c) ==
    /\ pc[c] = "unclaim"
    /\ stageOpen' = [stageOpen EXCEPT ![ctx[c].run] = {}]
    /\ DropClaim(ctx[c].issue)
    /\ Finish(c)
    /\ UNCHANGED <<rowVars, activeWork, stop, hostVars, procVars>>

\* requestStop: cancel upgrades graceful and is never downgraded.
Stronger(old, mode) == IF old = "cancel" THEN "cancel" ELSE mode

RequestStop(r, mode) ==
    /\ "stop" \in Enabled /\ phase = "up"
    /\ status[r] # "none"
    /\ stop' = [stop EXCEPT ![r] = Stronger(@, mode)]
    /\ UNCHANGED <<rowVars, coordVars, activeRuns, callVars, hostVars, procVars>>

HaltAll ==
    /\ "stop" \in Enabled /\ phase = "up"
    /\ stop' = [r \in Runs |-> IF \E i \in Issues : activeRuns[i] = r
                                 THEN Stronger(stop[r], "cancel") ELSE stop[r]]
    /\ UNCHANGED <<rowVars, coordVars, activeRuns, callVars, hostVars, procVars>>

\* `ura admin terminate` runs in a process of its own, server up or not.
TerminateRun(r) ==
    /\ "terminate" \in Enabled
    /\ status[r] \notin {"none", "completed", "aborted"}
    /\ SetStatus(r, "failed")
    /\ activeWork' = activeWork \ {r}
    /\ UNCHANGED <<issueOf, index, retries, age, stageOpen, memVars, callVars,
                   hostVars, procVars>>

-----------------------------------------------------------------------------
(* The PM tick.                                                            *)

\* recoverRetriableRuns reads the rows first and treats them one by one.
RecoverSelect(c, r) ==
    /\ Idle(c) /\ status[r] = "retriable" /\ MayCall(issueOf[r])
    /\ pc' = [pc EXCEPT ![c] = "recover"]
    /\ ctx' = [ctx EXCEPT ![c] = [NoCtx EXCEPT !.issue = issueOf[r], !.run = r,
                                               !.retry = retries[r]]]
    /\ UNCHANGED <<rowVars, coordVars, memVars, hostVars, procVars>>

\* Mutant of RecoverMark: an exhausted row is skipped, not failed.
RecoverSkips(c) ==
    LET r == ctx[c].run IN
    /\ pc[c] = "recover"
    /\ IF ctx[c].retry >= MaxTransientRetries
         THEN UNCHANGED status /\ Finish(c)
         ELSE SetStatus(r, "paused") /\ Goto(c, "resume")
    /\ UNCHANGED <<issueOf, index, retries, age, coordVars, memVars, hostVars,
                   procVars>>

RecoverMark(c) ==
    LET r == ctx[c].run IN
    /\ pc[c] = "recover"
    /\ IF ctx[c].retry >= MaxTransientRetries
         THEN SetStatus(r, "failed") /\ Finish(c)
         ELSE SetStatus(r, "paused") /\ Goto(c, "resume")
    /\ UNCHANGED <<issueOf, index, retries, age, coordVars, memVars, hostVars,
                   procVars>>

\* recoverStuckInProgressIssues: the newest run of an issue Linear shows in
\* progress, running for more than an hour, is a zombie, executing or not.
RecoverZombie(r) ==
    /\ "zombie" \in Enabled /\ phase = "up"
    /\ status[r] = "running" /\ age[r] = 2
    /\ \A q \in Runs \ {r} : issueOf[q] = issueOf[r] =>
         /\ q < r
         /\ status[q] # "queued" /\ ~(status[q] = "running" /\ age[q] < 2)
    /\ SetStatus(r, "failed")
    /\ UNCHANGED <<issueOf, index, retries, age, coordVars, memVars, callVars,
                   hostVars, procVars>>

\* Mutant of SweepOrphans: only completed parents count.
SweepCompletedOnly ==
    /\ phase = "up"
    /\ \E r \in Runs : status[r] = "completed" /\ stageOpen[r] # {}
    /\ stageOpen' = [r \in Runs |-> IF status[r] = "completed" THEN {}
                                                               ELSE stageOpen[r]]
    /\ UNCHANGED <<rowVars, activeWork, memVars, callVars, hostVars, procVars>>

SweepOrphans ==
    /\ phase = "up"
    /\ \E r \in Runs : status[r] \in Terminal /\ stageOpen[r] # {}
    /\ stageOpen' = [r \in Runs |-> IF status[r] \in Terminal THEN {}
                                                              ELSE stageOpen[r]]
    /\ UNCHANGED <<rowVars, activeWork, memVars, callVars, hostVars, procVars>>

-----------------------------------------------------------------------------
(* The server process and the world around it.                             *)

\* Five minutes, then an hour, after the row was inserted.
Age(r) ==
    /\ status[r] # "none"
    /\ age[r] < IF "zombie" \in Enabled THEN 2 ELSE 1
    /\ age' = [age EXCEPT ![r] = @ + 1]
    /\ UNCHANGED <<status, issueOf, index, retries, coordVars, memVars, callVars,
                   hostVars, procVars>>

\* The memory of the process is lost, and with a new container the disk too.
Crash ==
    /\ "crash" \in Enabled
    /\ crashes < MaxCrashes
    /\ crashes' = crashes + 1
    /\ phase' = "booting"
    /\ activeRuns' = [i \in Issues |-> NoRun]
    /\ stop' = [r \in Runs |-> "none"]
    /\ pc' = [c \in Calls |-> "idle"]
    /\ ctx' = [c \in Calls |-> NoCtx]
    /\ stageOpen' = [r \in Runs |-> IF stageOpen[r] = {} THEN {} ELSE {Orphan}]
    /\ worktree' \in {worktree} \cup (IF "diskloss" \in Enabled THEN {{}} ELSE {})
    /\ UNCHANGED <<rowVars, activeWork, remote, openPR>>

\* Mutant of Interrupted: paused rows count as interrupted too.
InterruptedOrPaused(r) == status[r] \in {"running", "queued", "paused"} /\ age[r] > 0

\* recoverStuckRuns looks only at rows older than five minutes.
Interrupted(r) == status[r] \in {"running", "queued"} /\ age[r] > 0

\* Is the transcript of the run's agent session on disk?  Never before the
\* first stage, which the initial payload precedes.
Transcripts(r) == IF index[r] = NoPayload THEN {FALSE} ELSE BOOLEAN

\* No stage row is ever called "push" or "await-approval", so the test for a
\* non-idempotent last stage never holds.
BootRecover(r) ==
    /\ phase = "booting" /\ Interrupted(r)
    /\ \E transcript \in Transcripts(r) :
         IF r \in worktree /\ transcript
           THEN SetStatus(r, "retriable") /\ UNCHANGED stageOpen
           ELSE SetStatus(r, "failed") /\ stageOpen' = [stageOpen EXCEPT ![r] = {}]
    /\ activeWork' = activeWork \ {r}
    /\ UNCHANGED <<issueOf, index, retries, age, memVars, callVars, hostVars,
                   procVars>>

BootDone ==
    /\ phase = "booting"
    /\ \A r \in Runs : ~Interrupted(r)
    /\ phase' = "up"
    /\ UNCHANGED <<rowVars, coordVars, memVars, callVars, hostVars, crashes>>

\* A feedback run on the issue's pull request is stopped: markRunCancelled
\* is given its issue and drops the issue's claim, whichever run holds it.
FeedbackCancelled(i) ==
    /\ "stop" \in Enabled /\ phase = "up"
    /\ i \in openPR
    /\ DropClaim(i)
    /\ UNCHANGED <<rowVars, coordVars, stop, callVars, hostVars, procVars>>

\* A reviewer merges or closes the pull request.
ClosePR(i) ==
    /\ "close" \in Enabled /\ i \in openPR
    /\ openPR' = openPR \ {i}
    /\ remote' \in {remote, remote \ {i}}
    /\ UNCHANGED <<rowVars, coordVars, memVars, callVars, worktree, procVars>>

-----------------------------------------------------------------------------
\* The steps a call takes by itself once it is made.
Step(c) ==
    \/ StartClassify(c) \/ StartInsert(c) \/ StartClaim(c)
    \/ TickResume(c) \/ ResumeSelect(c) \/ ResumeAccess(c)
    \/ JobBegin(c) \/ Clone(c) \/ Setup(c)
    \/ StageStop(c) \/ Cancelled(c) \/ StageAwait(c) \/ StageStart(c)
    \/ StageDone(c) \/ StageFail(c) \/ LoopDone(c) \/ FixDone(c)
    \/ Push(c) \/ Complete(c) \/ CloseRows(c) \/ Cleanup(c) \/ Release(c)
    \/ AbortRow(c) \/ AbortUnclaim(c) \/ RecoverMark(c)

Next ==
    \/ \E c \in Calls : Step(c) \/ StageAgain(c) \/ FixStart(c)
    \/ \E c \in Calls, i \in Issues : Start(c, i) \/ Resume(c, i) \/ Abort(c, i)
    \/ \E c \in Calls, r \in Runs : RecoverSelect(c, r)
    \/ \E i \in Issues : ResumeActive(i) \/ Pause(i) \/ ClosePR(i) \/ FeedbackCancelled(i)
    \/ \E r \in Runs, mode \in {"graceful", "cancel"} : RequestStop(r, mode)
    \/ \E r \in Runs : TerminateRun(r) \/ RecoverZombie(r) \/ Age(r) \/ BootRecover(r)
    \/ HaltAll \/ SweepOrphans \/ Crash \/ BootDone

Spec == Init /\ [][Next]_vars

(***************************************************************************)
(* Fairness the code justifies: a call in flight goes on (stages end at    *)
(* their wall-clock limit, every await of the runner is bounded), the      *)
(* review-fix and deep-review loops are bounded by their iteration counts, *)
(* so the push comes; the boot sequence ends; the PM tick is a timer.      *)
(***************************************************************************)
Fairness ==
    /\ \A c \in Calls : WF_vars(Step(c)) /\ SF_vars(Push(c))
    /\ \A r \in Runs : WF_vars(BootRecover(r))
    /\ WF_vars(BootDone)
    /\ WF_vars(SweepOrphans)
    /\ \A r \in Runs : SF_vars(\E c \in Calls : RecoverSelect(c, r))

LiveSpec == Spec /\ Fairness

-----------------------------------------------------------------------------
(* Type invariant.                                                         *)

ContextType == [issue : Issues \cup {NoIssue}, run : Runs \cup {NoRun},
                next : 0..Len(Stages), last : 0..(Len(Stages) - 1),
                retry : Nat, fresh : BOOLEAN,
                mem : Statuses]

TypeOK ==
    /\ status \in [Runs -> Statuses]
    /\ issueOf \in [Runs -> Issues \cup {NoIssue}]
    /\ index \in [Runs -> Indexes]
    /\ retries \in [Runs -> Nat]
    /\ age \in [Runs -> 0..2]
    /\ stageOpen \in [Runs -> SUBSET (Calls \cup {Orphan})]
    /\ activeWork \subseteq Runs
    /\ activeRuns \in [Issues -> Runs \cup {NoRun}]
    /\ stop \in [Runs -> {"none", "graceful", "cancel"}]
    /\ pc \in [Calls -> PCs]
    /\ ctx \in [Calls -> ContextType]
    /\ worktree \subseteq Runs
    /\ remote \subseteq Issues
    /\ openPR \subseteq Issues
    /\ phase \in {"up", "booting"}
    /\ crashes \in Nat

-----------------------------------------------------------------------------
(* Safety in every environment.                                            *)

(***************************************************************************)
(* A run is made retriable at most MAX_TRANSIENT_RETRIES times, however    *)
(* failures, resumes, duplicate executions and restarts interleave: each   *)
(* execution writes the count it read when it was resumed, plus one.       *)
(***************************************************************************)
RetriesBounded == \A r \in Runs : retries[r] <= MaxTransientRetries

(***************************************************************************)
(* No leaked claim: whatever entry activeRuns holds for an issue, the call *)
(* that made it is still in flight and will remove it, so an issue cannot  *)
(* stay "already active" for ever.                                         *)
(***************************************************************************)
ClaimHeld ==
    \A i \in Issues : activeRuns[i] # NoRun =>
        \E c \in Calls : /\ pc[c] \in Claimed
                         /\ ctx[c].issue = i
                         /\ ctx[c].run = activeRuns[i]

(***************************************************************************)
(* A stage row in status running belongs to a pass that is executing now   *)
(* for that very run, or to a process that died: no exit of a stage        *)
(* leaves its row running.                                                 *)
(***************************************************************************)
StageRowsOwned ==
    \A r \in Runs : \A c \in stageOpen[r] \ {Orphan} :
        pc[c] \in {"agent", "fix"} /\ ctx[c].run = r

-----------------------------------------------------------------------------
(* Safety when calls for one issue are serial and nobody aborts or stops.  *)

(***************************************************************************)
(* A call between its claim and its release is the one that holds its      *)
(* issue: no two executions share an issue, its branch or its worktree.    *)
(***************************************************************************)
ClaimExclusive ==
    \A c \in Calls : pc[c] \in Claimed => activeRuns[ctx[c].issue] = ctx[c].run

(***************************************************************************)
(* The worktree of an execution is on disk from its setup to its push: no  *)
(* other execution's cleanup deletes it underneath.                        *)
(***************************************************************************)
WorktreeKept ==
    \A c \in Calls : pc[c] \in {"setup", "stage", "agent", "finish", "fix"} =>
        ctx[c].run \in worktree

\* Two calls of one issue never wait between check and claim together.
OneUnclaimed ==
    \A c, d \in Calls :
        pc[c] \in PreClaim /\ pc[d] \in PreClaim /\ ctx[c].issue = ctx[d].issue
            => c = d

(***************************************************************************)
(* Unattended (webhook starts, PM ticks, crashes), a row only moves along  *)
(* the life cycle of a run and a finished run stays finished, but for one  *)
(* path: resume() of an issue that is active in memory sets the active     *)
(* row running whatever it was.                                            *)
(***************************************************************************)
NextStatus == [s \in Statuses |->
    CASE s = "none"      -> {"queued"}
      [] s = "queued"    -> {"running", "failed"}
      [] s = "running"   -> {"paused", "retriable", "failed", "completed"}
      [] s = "paused"    -> {"running", "failed"}
      [] s = "retriable" -> {"paused", "failed"}
      [] OTHER           -> {}]

ResumedInMemory(r) == status'[r] = "running" /\ \E i \in Issues : activeRuns[i] = r

LifeCycle ==
    [][\A r \in Runs : \/ status'[r] = status[r]
                       \/ status'[r] \in NextStatus[status[r]]
                       \/ ResumedInMemory(r)]_vars

-----------------------------------------------------------------------------
(* Liveness, under LiveSpec.                                               *)

(***************************************************************************)
(* An issue that is active is released some day: at its pause, failure or  *)
(* completion, or with the process.                                        *)
(***************************************************************************)
IssueReleased ==
    \A i \in Issues : activeRuns[i] # NoRun ~> activeRuns[i] = NoRun

(***************************************************************************)
(* A run that a crash interrupted, and that is older than five minutes     *)
(* when the server boots, is brought to rest: finished or paused.          *)
(***************************************************************************)
InterruptedResolved ==
    \A r \in Runs : phase = "booting" /\ Interrupted(r)
                        ~> status[r] \in Terminal \cup {"paused"}

(***************************************************************************)
(* Stage rows left running by a finished run are swept.                    *)
(***************************************************************************)
OrphansSwept ==
    \A r \in Runs : status[r] \in Terminal /\ stageOpen[r] # {}
                        ~> stageOpen[r] = {} \/ status[r] \notin Terminal

-----------------------------------------------------------------------------
(* Promises the code breaks: each is refuted by a run.                     *)

(***************************************************************************)
(* A paused run set running by an approval is gone on with: "just update   *)
(* the DB status and let the existing execution continue" (runner.ts:436). *)
(***************************************************************************)
GoingOn(c, r) ==
    ctx[c].run = r /\ pc[c] \in (Claimed \ {"ending", "cancelling", "cleanup", "release"})

ApprovalNotLost ==
    [][\A r \in Runs : status[r] = "paused" /\ status'[r] = "running"
            => \E c \in Calls : GoingOn(c, r)']_vars

(***************************************************************************)
(* "Graceful stop a run: lets the current stage finish, then skips         *)
(* remaining stages. No PR." (STOP_AND_HALT.md:12): no run is pushed once  *)
(* its stop is requested.                                                  *)
(***************************************************************************)
NoPushAfterStop ==
    [][\A c \in Calls : pc[c] = "finish" /\ pc'[c] = "pushed"
            => stop[ctx[c].run] = "none"]_vars

(***************************************************************************)
(* A paused row awaits an approval, or a call is resuming it.  (A run the  *)
(* tick resumes is paused while it is queued, so that the tick does not    *)
(* "double-recover this run while execution is queued", runner.ts:477.)    *)
(***************************************************************************)
AtApproval(r) == index[r] >= 0 /\ Stages[index[r] + 1] = "await"

PausedMeansWaiting ==
    \A r \in Runs : phase = "up" /\ status[r] = "paused" =>
        \/ AtApproval(r)
        \/ \E c \in Calls : pc[c] # "idle" /\ ctx[c].issue = issueOf[r]
=============================================================================
