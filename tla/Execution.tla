----------------------------- MODULE Execution -----------------------------
(***************************************************************************)
(* One run of a pipeline from its first stage to the pull request: the     *)
(* stage loop, the push section under the branch lock                      *)
(* (pipeline/distributed-lock.ts), and the executions that resume the run  *)
(* after a transient failure or a crash.                                   *)
(*                                                                         *)
(* The lock is a Postgres advisory lock.  It belongs to the connection of  *)
(* the pool that took it, may be taken again by the same connection, and   *)
(* is free when that connection closes.  A second server may push the same *)
(* branch.                                                                 *)
(***************************************************************************)
EXTENDS StageLoop

CONSTANTS
    OwnPool,       \* connections of this server's pool
    Rival,         \* the connection of the second server
    AutoMerge,     \* config.autoMerge
    MaxCrashes,    \* bound: crashes of the server
    MaxRivals,     \* bound: push sections of the second server
    MaxLost        \* bound: connections closed while they hold the lock

Free == "free"
ASSUME ExecutionAssumption ==
    /\ Rival \notin OwnPool /\ Free \notin OwnPool \cup {Rival}
    /\ AutoMerge \in BOOLEAN
    /\ {MaxCrashes, MaxRivals, MaxLost} \subseteq Nat

VARIABLES
    holder, depth,   \* the advisory lock: its connection, how often it is taken
    rival,           \* is the second server in its push section?
    conflict,        \* rebaseConflict
    pr,              \* the pull request at the host, as it was opened
    prUrl,           \* this execution knows its URL
    merged,
    crashes, rivals, lost

lockVars == <<holder, depth>>
prVars == <<conflict, pr, prUrl, merged>>
faultVars == <<crashes, rivals, lost>>
vars == <<execVars, loopVars, lockVars, prVars, rival, faultVars>>

TypeOK ==
    /\ ExecTypeOK /\ LoopTypeOK
    /\ holder \in OwnPool \cup {Rival, Free} /\ depth \in 0..2
    /\ (holder = Free) = (depth = 0)
    /\ rival \in BOOLEAN /\ conflict \in BOOLEAN
    /\ prUrl \in BOOLEAN /\ merged \in BOOLEAN
    /\ pr \in {"none", "draft", "ready"}
    /\ crashes \in 0..MaxCrashes /\ rivals \in 0..MaxRivals /\ lost \in 0..MaxLost

Init ==
    /\ ExecInit /\ LoopInit
    /\ holder = Free /\ depth = 0 /\ rival = FALSE
    /\ conflict = FALSE /\ pr = "none" /\ prUrl = FALSE /\ merged = FALSE
    /\ crashes = 0 /\ rivals = 0 /\ lost = 0

Untouched == UNCHANGED <<next, round, local, handoff, ralph, verdict>>

----------------------------------------------------------------------------
(* withBranchLock.                                                          *)

Lock(conn) == holder' = conn /\ depth' = depth + 1
Drop == holder' = Free /\ depth' = 0

\* Mutant of Available: a failed query counts as a grant.
AvailableOrFailed(conn) == holder \in {Free, conn, Rival}

\* pg_try_advisory_lock is granted to the connection that has it, too.
Available(conn) == holder \in {Free, conn}

\* bound: a connection takes the lock at most twice.
TryAcquire ==
    /\ at = "lock" /\ depth < 2
    /\ \E conn \in OwnPool :
         /\ Available(conn) /\ Lock(conn)
         /\ \/ Goto("commit") /\ UNCHANGED draft
            \/ Goto("lock") /\ UNCHANGED draft    \* the answer was lost
    /\ Untouched
    /\ UNCHANGED <<counted, Kept, prVars, rival, faultVars>>

\* Mutant of LockTimesOut: the lock is polled for ever.
LockPolledForEver == at = "lock" /\ UNCHANGED vars

\* LockTimeoutError: until the deadline the lock was taken, or the queries failed.  The
\* message names the branch, which may match a transient pattern ("agent/bec-401-...").
LockTimesOut ==
    /\ at = "lock"
    /\ \E transient \in BOOLEAN : Fail(Final, transient)
    /\ Untouched
    /\ UNCHANGED <<counted, draft, Kept, lockVars, prVars, rival, faultVars>>

\* Mutant of Unlock: the count falls, the holder stays.
UnlockHalf == depth' = depth - 1 /\ UNCHANGED holder

\* pg_advisory_unlock goes to any connection of the pool: only the one that
\* took the lock can give it back, and an error is ignored.
Unlock ==
    \/ IF depth = 1 THEN Drop ELSE depth' = depth - 1 /\ UNCHANGED holder
    \/ UNCHANGED lockVars
Release == IF holder \in OwnPool THEN Unlock ELSE UNCHANGED lockVars

----------------------------------------------------------------------------
(* The push section.                                                        *)

Inside == \/ at \in {"commit", "rebase", "push", "pr", "merge"}
          \/ at = "pass" /\ pass.purpose = "resolve"

\* An exception in the section: the lock is released, then failPipeline.
SectionFails(transient) == Fail(Final, transient) /\ Release

CommitRest ==
    /\ at = "commit"
    /\ \/ Goto("rebase") /\ UNCHANGED lockVars
       \/ FailOnAutoCommit /\ SectionFails(FALSE)
    /\ Untouched
    /\ UNCHANGED <<counted, draft, Kept, prVars, rival, faultVars>>

\* A rebase that fails without a conflict is ignored; a conflict is aborted
\* and left to an implement pass, inside the lock.
Rebase ==
    /\ at = "rebase"
    /\ conflict' = FALSE
    /\ \/ Goto("push") /\ UNCHANGED Kept
       \/ StartPass("resolve", "implement", FALSE)
          /\ UNCHANGED <<status, retries, saved>>
    /\ Untouched
    /\ UNCHANGED <<counted, draft, lockVars, pr, prUrl, merged, rival, faultVars>>

\* Mutant of Resolved: the result of the pass is not looked at.
ResolvedAnyway ==
    /\ at = "pass" /\ Ended("resolve")
    /\ counted' = counted + pass.cost
    /\ conflict' = FALSE
    /\ Goto("push")
    /\ Untouched
    /\ UNCHANGED <<draft, Kept, lockVars, pr, prUrl, merged, rival, faultVars>>

\* The tokens are added but the budget is not checked; RALPH and the gates are
\* not asked about what the pass did.
Resolved ==
    /\ at = "pass" /\ Ended("resolve")
    /\ counted' = counted + pass.cost
    /\ conflict' = (pass.at = "failed")
    /\ Goto("push")
    /\ Untouched
    /\ UNCHANGED <<draft, Kept, lockVars, pr, prUrl, merged, rival, faultVars>>

\* pushBranchForce, with one retry on stale information.
Push ==
    /\ at = "push"
    /\ \/ Goto("pr") /\ UNCHANGED lockVars
       \/ \E transient \in BOOLEAN : SectionFails(transient)
    /\ Untouched
    /\ UNCHANGED <<counted, draft, Kept, prVars, rival, faultVars>>

\* The provider refuses a second pull request for the branch; a failure is
\* logged and the run goes on without a URL.
OpenPullRequest ==
    /\ at = "pr"
    /\ \/ /\ pr = "none"
          /\ pr' = (IF draft THEN "draft" ELSE "ready") /\ prUrl' = TRUE
       \/ pr' = pr /\ prUrl' = FALSE
    /\ Goto("merge")
    /\ Untouched
    /\ UNCHANGED <<counted, draft, Kept, lockVars, conflict, merged, rival, faultVars>>

\* bound: each reviewer changed their mind at most once.
ReviewStates == {"APPROVED", "CHANGES_REQUESTED"}
Histories == {<<>>} \cup [1..2 -> Reviewers \X ReviewStates]

\* Whether there is anything to decide, and the decision.
MergeWanted == AutoMerge /\ prUrl /\ ~conflict /\ ~draft
MayMerge == MergeWanted /\ handoff # "blocking"
            /\ \E diff \in SUBSET FileKinds, small \in BOOLEAN, reviews \in Histories :
                 Mergeable(diff, small, reviews)

Merge ==
    /\ at = "merge"
    /\ \/ /\ \/ MayMerge /\ merged' = TRUE
             \/ UNCHANGED merged
          /\ Goto("complete") /\ Release
       \/ /\ MergeWanted   \* git diff threw
          /\ SectionFails(FALSE) /\ UNCHANGED merged
    /\ Untouched
    /\ UNCHANGED <<counted, draft, Kept, conflict, pr, prUrl, rival, faultVars>>

\* The completed row; if the update throws, failPipeline takes over.
Complete ==
    /\ at = "complete"
    /\ \/ /\ status' = "completed" /\ at' = "idle" /\ pass' = NoPass
          /\ UNCHANGED <<retries, saved>>
       \/ \E transient \in BOOLEAN : Fail(Final, transient)
    /\ Untouched
    /\ UNCHANGED <<counted, draft, Kept, lockVars, prVars, rival, faultVars>>

----------------------------------------------------------------------------
(* Between executions, and around them.                                     *)

\* resume(): a new executePipeline() from the row.  What RALPH said and what
\* was spent so far is not in the row.
Resume ==
    /\ at = "idle" /\ status = "retriable"
    /\ at' = "stage" /\ status' = "running"
    /\ next' = saved.next /\ handoff' = saved.handoff
    /\ ralph' = "satisfied" /\ verdict' = "none" /\ counted' = 0
    /\ found' = [now |-> 0, before |-> Unseen] /\ round' = 0
    /\ session' = rowSession /\ initiated' = TRUE
    /\ draft' = FALSE /\ conflict' = FALSE /\ prUrl' = FALSE
    /\ UNCHANGED <<pass, rowSession, registered, transcripts, minted, fixAt,
                   mainFirst, saved, retries, lockVars, pr, merged, rival, faultVars>>

\* The process dies; recoverStuckRuns makes the row retriable where it was last
\* saved.  A pass that was streaming may have written its transcript.
Crash ==
    /\ at # "idle" /\ crashes < MaxCrashes
    /\ crashes' = crashes + 1
    /\ at' = "idle" /\ status' = "retriable" /\ pass' = NoPass
    /\ \/ pass.at = "stream" /\ WritesTranscript
       \/ UNCHANGED transcripts
    /\ IF holder \in OwnPool THEN Drop ELSE UNCHANGED lockVars
    /\ Untouched
    /\ UNCHANGED <<session, initiated, rowSession, registered, minted, counted,
                   saved, retries, draft, prVars, rival, rivals, lost>>

RivalEnters ==
    /\ ~rival /\ rivals < MaxRivals /\ holder = Free
    /\ rival' = TRUE /\ rivals' = rivals + 1 /\ Lock(Rival)
    /\ UNCHANGED <<execVars, loopVars, prVars, crashes, lost>>

\* Its pool may lose the lock as ours does.
RivalLeaves ==
    /\ rival /\ rival' = FALSE
    /\ IF holder = Rival THEN Drop \/ UNCHANGED lockVars ELSE UNCHANGED lockVars
    /\ UNCHANGED <<execVars, loopVars, prVars, faultVars>>

\* The pool closes the connection that holds the lock, idle since it took it.
ConnectionCloses ==
    /\ holder # Free /\ lost < MaxLost
    /\ Drop /\ lost' = lost + 1
    /\ UNCHANGED <<execVars, loopVars, prVars, rival, crashes, rivals>>

\* The call in flight, with the whole of executeStage().
InFlight == /\ at = "pass" /\ ExecNext
            /\ UNCHANGED <<loopVars, lockVars, prVars, rival, faultVars>>

Looping == LoopNext /\ UNCHANGED <<lockVars, prVars, rival, faultVars>>

Running ==
    \/ InFlight \/ Looping
    \/ TryAcquire \/ LockTimesOut \/ CommitRest \/ Rebase \/ Resolved \/ Push
    \/ OpenPullRequest \/ Merge \/ Complete \/ Resume

\* The run is over.
Over == at = "idle" /\ status \in {"failed", "completed"} /\ UNCHANGED vars

Next == Running \/ Crash \/ RivalEnters \/ RivalLeaves \/ ConnectionCloses \/ Over

\* Every await of the execution settles: streams have time limits, the lock a
\* deadline, commands a timeout; the tick resumes retriable rows.
Spec == Init /\ [][Next]_vars /\ WF_vars(Running) /\ WF_vars(RivalLeaves)

----------------------------------------------------------------------------
(* Safety.                                                                  *)

Resting == at # "pass" \/ pass.at \in {"completed", "failed"}

\* Between two passes the runner, the row and the prompts of the next pass mean
\* the same session, also after a collision drew a fresh identifier
\* (applyCollisionRecovery, executor.ts): otherwise a retry collides again.
SessionInSync == Resting /\ at # "idle" => session = rowSession

\* The tokens of the implement pass are counted before RALPH's first check, and
\* compared only after its first re-implement (runner.ts 1259, 1363).
NotYetCompared == IF pass.purpose = "ralph" /\ round = 2 THEN 1 ELSE 0

\* No pass begins, in no loop, once the tokens counted in this execution have
\* reached maxTokens (checkTokenBudget); the first re-implement of a stage may
\* begin when the pass before it has just reached them, and no later one.
WithinBudget ==
    at = "pass" /\ ~Resting /\ MaxTokens > 0 => counted < MaxTokens + NotYetCompared

\* A pull request that this execution opened as ready: the last answer of RALPH
\* was not that something is missing or that the check broke, and no finding of
\* the last handoff blocks, whatever loops ran in between (runner.ts 2247).
ReadyIsClean ==
    pr = "ready" /\ prUrl /\ at \in {"merge", "complete"} =>
        verdict \in {"none", "satisfied"} /\ handoff # "blocking"

\* Auto-merge never merges what could not be rebased: after a conflict whose
\* resolution failed the pull request is left to a human.
MergeIsEarned ==
    [][~merged /\ merged' => ~Broken("resolve") /\ pr = "ready" /\ Inside]_vars

\* One server at a time pushes and opens a pull request for the branch
\* (withBranchLock), leaked and doubly taken locks included, as long as no
\* connection is closed under the lock.
SectionExclusive == lost = 0 => ~(rival /\ Inside)

----------------------------------------------------------------------------
(* Liveness.                                                                *)

\* Every run comes to an end: no loop feeds itself for ever, and a lock that
\* another server leaked is given up.
RunEnds == <>(at = "idle" /\ status \in {"failed", "completed"})
=============================================================================
