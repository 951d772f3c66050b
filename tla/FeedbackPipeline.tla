-------------------------- MODULE FeedbackPipeline --------------------------
(***************************************************************************)
(* Review-feedback runs: a comment on a pull request reaches the webhook   *)
(* (packages/core/src/webhook), which starts a feedback run                *)
(* (pipeline/feedback-pipeline.ts) on the branch of that pull request.     *)
(*                                                                         *)
(* Two in-memory structures keep the runs apart: the set of comments       *)
(* already handled and the map activeFeedbackRuns from a pull request to   *)
(* its run.  An action is the code from one await to the next, except that *)
(* writes one run makes to its own rows in a sequence are one action; a    *)
(* queued job may begin at any moment (TaskPool).                          *)
(***************************************************************************)
EXTENDS Integers, FiniteSets

CONSTANTS
    Comments, PRs,
    PrOf,           \* the pull request a comment is made on
    MaxRuns,        \* bound: feedback rows ever inserted
    NumStages,      \* stages left after FEEDBACK_SKIP_STAGES
    MaxCrashes,     \* bound: server restarts
    Racing          \* pull requests on which two comments may be handled at
                    \* the same time, before either has claimed its entry

ASSUME FeedbackAssumption ==
    /\ Comments # {} /\ PrOf \in [Comments -> PRs]
    /\ MaxRuns \in Nat
    /\ NumStages \in Nat
    /\ MaxCrashes \in Nat
    /\ Racing \subseteq PRs

Runs == 1..MaxRuns
NoRun == 0

VARIABLES
    dedup,               \* CommentDedupSet: comments already handled
    activeFeedbackRuns,  \* pull request -> its run
    stop,                \* runs with a stop signal
    pc, comment, next, mem,  \* each start: where it is, its comment, the next
                             \* stage, run.status of the object in memory
    status, activeWork,      \* pipeline_runs, active_work
    worktree, pushed,        \* worktrees on disk, runs on the remote branch
    phase, crashes,
    stuck                    \* rows that recoverStuckRuns has still to treat

memVars == <<dedup, activeFeedbackRuns, stop>>
runVars == <<pc, comment, next, mem>>
rowVars == <<status, activeWork>>
hostVars == <<worktree, pushed>>
procVars == <<phase, crashes, stuck>>
vars == <<memVars, runVars, rowVars, hostVars, procVars>>

Starting == {"insert", "claim"}
Executing == {"clone", "setup", "stage", "agent", "push", "pushed",
              "cancelling", "ending", "cleanup"}
Claimed == {"queued", "release"} \cup Executing
PCs == {"unused", "done", "dead"} \cup Starting \cup Claimed
Terminal == {"completed", "failed", "cancelled"}
Statuses == {"none", "queued", "running"} \cup Terminal

PR(r) == PrOf[comment[r]]

Init ==
    /\ dedup = {}
    /\ activeFeedbackRuns = [p \in PRs |-> NoRun]
    /\ stop = {}
    /\ pc = [r \in Runs |-> "unused"]
    /\ comment = [r \in Runs |-> CHOOSE c \in Comments : TRUE]
    /\ next = [r \in Runs |-> 0]
    /\ mem = [r \in Runs |-> "queued"]
    /\ status = [r \in Runs |-> "none"]
    /\ activeWork = {}
    /\ worktree = {}
    /\ pushed = {}
    /\ phase = "up"
    /\ crashes = 0
    /\ stuck = {}

Goto(r, p) == pc' = [pc EXCEPT ![r] = p]
SetStatus(r, s) == status' = [status EXCEPT ![r] = s]
Frees(p) == activeFeedbackRuns' = [activeFeedbackRuns EXCEPT ![p] = NoRun]

-----------------------------------------------------------------------------
(* The webhook and startFeedbackPipeline().                                *)

\* The comment has passed the filters and its parent row is found; from here
\* to the first await of startFeedbackPipeline is one step.
Handled(c, r) ==
    /\ phase = "up"
    /\ pc[r] = "unused" /\ \A q \in 1..(r - 1) : pc[q] # "unused"
    /\ PrOf[c] \in Racing
         \/ \A q \in Runs : ~(pc[q] \in Starting /\ PR(q) = PrOf[c])

Accept(c, r) ==
    /\ dedup' = dedup \cup {c}
    /\ Goto(r, "insert")
    /\ comment' = [comment EXCEPT ![r] = c]
    /\ UNCHANGED <<activeFeedbackRuns, stop, next, mem, rowVars, hostVars, procVars>>

\* Mutants of Deliver: no look at activeFeedbackRuns; the comment is noted
\* before that look.
DeliverUnchecked(c, r) == Handled(c, r) /\ c \notin dedup /\ Accept(c, r)

DeliverNotedFirst(c, r) ==
    /\ Handled(c, r) /\ c \notin dedup
    /\ IF activeFeedbackRuns[PrOf[c]] = NoRun
         THEN Accept(c, r)
         ELSE /\ dedup' = dedup \cup {c}
              /\ UNCHANGED <<activeFeedbackRuns, stop, runVars, rowVars,
                             hostVars, procVars>>

\* A comment already handled, or on a pull request that has a run, is
\* dropped; the latter is not noted, so that it may be delivered again.
Deliver(c, r) ==
    /\ Handled(c, r)
    /\ c \notin dedup
    /\ activeFeedbackRuns[PrOf[c]] = NoRun
    /\ Accept(c, r)

\* Twenty-four hours later.
Expire(c) ==
    /\ c \in dedup
    /\ dedup' = dedup \ {c}
    /\ UNCHANGED <<activeFeedbackRuns, stop, runVars, rowVars, hostVars, procVars>>

\* The parent row is read and the row inserted ...
Insert(r) ==
    /\ pc[r] = "insert"
    /\ SetStatus(r, "queued")
    /\ Goto(r, "claim")
    /\ UNCHANGED <<memVars, comment, next, mem, activeWork, hostVars, procVars>>

\* ... then the entry is set and the job enqueued.
Claim(r) ==
    /\ pc[r] = "claim"
    /\ activeFeedbackRuns' = [activeFeedbackRuns EXCEPT ![PR(r)] = r]
    /\ Goto(r, "queued")
    /\ UNCHANGED <<dedup, stop, comment, next, mem, rowVars, hostVars, procVars>>

-----------------------------------------------------------------------------
(* The queued job and executeFeedbackPipeline().                           *)

Begin(r) ==
    /\ SetStatus(r, "running")
    /\ mem' = [mem EXCEPT ![r] = "running"]
    /\ activeWork' = activeWork \cup {r}
    /\ Goto(r, "clone")

\* Mutant of JobBegin: the entry is removed as the job begins.
JobBeginFrees(r) ==
    /\ pc[r] = "queued"
    /\ Begin(r)
    /\ Frees(PR(r))
    /\ UNCHANGED <<dedup, stop, comment, next, hostVars, procVars>>

\* The job gives up if its pull request has no run; any run will do.
JobBegin(r) ==
    /\ pc[r] = "queued"
    /\ IF activeFeedbackRuns[PR(r)] = NoRun
         THEN Goto(r, "done") /\ UNCHANGED <<status, mem, activeWork>>
         ELSE Begin(r)
    /\ UNCHANGED <<memVars, comment, next, hostVars, procVars>>

\* failPipeline without a context: always final.
FailPipeline(r) ==
    /\ SetStatus(r, "failed")
    /\ mem' = [mem EXCEPT ![r] = "failed"]
    /\ Goto(r, "ending")

\* The rows whose worktrees may block the branch.
Siblings(r) == {q \in Runs : PR(q) = PR(r)}

\* cloneRepo and createWorktreeFromRemote.  worktreeAddWithRetry removes the
\* worktree that has the branch checked out, whoever uses it.
Clone(r) ==
    /\ pc[r] = "clone"
    /\ \/ /\ worktree' = (worktree \ Siblings(r)) \cup {r}
          /\ Goto(r, "setup")
          /\ UNCHANGED <<status, mem>>
       \/ /\ worktree' \in {worktree, worktree \ Siblings(r)}
          /\ FailPipeline(r)
    /\ UNCHANGED <<memVars, comment, next, activeWork, pushed, procVars>>

\* Devcontainer and setup commands.
Setup(r) ==
    /\ pc[r] = "setup"
    /\ \/ Goto(r, "stage") /\ UNCHANGED <<status, mem>>
       \/ FailPipeline(r)
    /\ UNCHANGED <<memVars, comment, next, activeWork, hostVars, procVars>>

\* Mutant of More: one stage too many.
MoreOrEqual(r) == next[r] <= NumStages

More(r) == next[r] < NumStages

CancelRow(r) ==
    /\ SetStatus(r, "cancelled")
    /\ mem' = [mem EXCEPT ![r] = "cancelled"]
    /\ activeWork' = activeWork \ {r}
    /\ Goto(r, "cancelling")
    /\ UNCHANGED <<memVars, comment, next, hostVars, procVars>>

\* Mutant of StageStop: a stop is looked at after the push as well.
StageStopLate(r) ==
    /\ (pc[r] = "stage" /\ More(r)) \/ pc[r] = "pushed"
    /\ r \in stop
    /\ CancelRow(r)

\* The stop check at the head of the loop; markRunCancelled begins ...
StageStop(r) ==
    /\ pc[r] = "stage" /\ More(r)
    /\ r \in stop
    /\ CancelRow(r)

\* ... and ends: the entry of the pull request is removed early.
Cancelled(r) ==
    /\ pc[r] = "cancelling"
    /\ Frees(PR(r))
    /\ stop' = stop \ {r}
    /\ Goto(r, "ending")
    /\ UNCHANGED <<dedup, comment, next, mem, rowVars, hostVars, procVars>>

StageStart(r) ==
    /\ pc[r] = "stage" /\ More(r)
    /\ r \notin stop
    /\ activeWork' = activeWork \cup {r}
    /\ Goto(r, "agent")
    /\ UNCHANGED <<memVars, comment, next, mem, status, hostVars, procVars>>

\* The stage ends well, or it fails, throws or exhausts the token budget.
StageDone(r) ==
    /\ pc[r] = "agent"
    /\ \/ /\ next' = [next EXCEPT ![r] = @ + 1]
          /\ Goto(r, "stage")
          /\ UNCHANGED <<status, mem>>
       \/ FailPipeline(r) /\ UNCHANGED next
    /\ UNCHANGED <<memVars, comment, activeWork, hostVars, procVars>>

LoopDone(r) ==
    /\ pc[r] = "stage" /\ ~More(r)
    /\ Goto(r, "push")
    /\ UNCHANGED <<memVars, comment, next, mem, rowVars, hostVars, procVars>>

\* Under the push queue and the branch lock; no stop check.
Push(r) ==
    /\ pc[r] = "push"
    /\ \/ /\ pushed' = pushed \cup {r}
          /\ Goto(r, "pushed")
          /\ UNCHANGED <<status, mem>>
       \/ FailPipeline(r) /\ UNCHANGED pushed
    /\ UNCHANGED <<memVars, comment, next, activeWork, worktree, procVars>>

Complete(r) ==
    /\ pc[r] = "pushed"
    /\ SetStatus(r, "completed")
    /\ mem' = [mem EXCEPT ![r] = "completed"]
    /\ Goto(r, "ending")
    /\ UNCHANGED <<memVars, comment, next, activeWork, hostVars, procVars>>

\* Mutant of Ending: only a completed run leaves active_work.
EndingCompleted(r) ==
    /\ pc[r] = "ending"
    /\ activeWork' = IF mem[r] = "completed" THEN activeWork \ {r} ELSE activeWork
    /\ Goto(r, "cleanup")
    /\ UNCHANGED <<memVars, comment, next, mem, status, hostVars, procVars>>

\* The finally of executeFeedbackPipeline: removeActiveWork ...
Ending(r) ==
    /\ pc[r] = "ending"
    /\ activeWork' = activeWork \ {r}
    /\ Goto(r, "cleanup")
    /\ UNCHANGED <<memVars, comment, next, mem, status, hostVars, procVars>>

\* ... and deleteWorktree, whose failure is ignored; a cancelled run keeps it.
Cleanup(r) ==
    /\ pc[r] = "cleanup"
    /\ \/ worktree' = worktree \ {r} /\ mem[r] \in {"completed", "failed"}
       \/ UNCHANGED worktree
    /\ Goto(r, "release")
    /\ UNCHANGED <<memVars, comment, next, mem, rowVars, pushed, procVars>>

\* Mutant of Release: the entry is removed after a success only.
ReleaseCompleted(r) ==
    /\ pc[r] = "release"
    /\ IF mem[r] = "completed" THEN Frees(PR(r)) ELSE UNCHANGED activeFeedbackRuns
    /\ Goto(r, "done")
    /\ UNCHANGED <<dedup, stop, comment, next, mem, rowVars, hostVars, procVars>>

\* The finally of the job: the entry goes, whichever run it names by now.
Release(r) ==
    /\ pc[r] = "release"
    /\ Frees(PR(r))
    /\ Goto(r, "done")
    /\ UNCHANGED <<dedup, stop, comment, next, mem, rowVars, hostVars, procVars>>

-----------------------------------------------------------------------------
(* Operators and the server process.                                       *)

\* The dashboard stops any row that is not terminal; haltAll stops the runs
\* that activeFeedbackRuns names.
RequestStop(r) ==
    /\ phase = "up"
    /\ status[r] \in {"queued", "running"}
    /\ stop' = stop \cup {r}
    /\ UNCHANGED <<dedup, activeFeedbackRuns, runVars, rowVars, hostVars, procVars>>

HaltAll ==
    /\ phase = "up"
    /\ stop' = stop \cup ({activeFeedbackRuns[p] : p \in PRs} \ {NoRun})
    /\ UNCHANGED <<dedup, activeFeedbackRuns, runVars, rowVars, hostVars, procVars>>

\* `ura admin terminate`, from another process.
TerminateRun(r) ==
    /\ status[r] \notin {"none", "completed"}
    /\ SetStatus(r, "failed")
    /\ activeWork' = activeWork \ {r}
    /\ UNCHANGED <<memVars, runVars, hostVars, procVars>>

\* recoverStuckRuns, called at the next boot, selects the rows that are older
\* than five minutes: any of the queued and running ones.
Crash ==
    /\ crashes < MaxCrashes
    /\ crashes' = crashes + 1
    /\ phase' = "booting"
    /\ dedup' = {}
    /\ activeFeedbackRuns' = [p \in PRs |-> NoRun]
    /\ stop' = {}
    /\ pc' = [r \in Runs |-> IF pc[r] \in {"unused", "done"} THEN pc[r] ELSE "dead"]
    /\ stuck' \in SUBSET {r \in Runs : status[r] \in {"queued", "running"}}
    /\ UNCHANGED <<comment, next, mem, rowVars, hostVars>>

\* A feedback row has no agent session, so recovery always fails it.
BootRecover(r) ==
    /\ r \in stuck
    /\ stuck' = stuck \ {r}
    /\ SetStatus(r, "failed")
    /\ activeWork' = activeWork \ {r}
    /\ UNCHANGED <<memVars, runVars, hostVars, phase, crashes>>

BootDone ==
    /\ phase = "booting" /\ stuck = {}
    /\ phase' = "up"
    /\ UNCHANGED <<memVars, runVars, rowVars, hostVars, crashes, stuck>>

-----------------------------------------------------------------------------
Step(r) ==
    \/ Insert(r) \/ Claim(r) \/ JobBegin(r) \/ Clone(r) \/ Setup(r)
    \/ StageStop(r) \/ Cancelled(r) \/ StageStart(r) \/ StageDone(r)
    \/ LoopDone(r) \/ Push(r) \/ Complete(r)
    \/ Ending(r) \/ Cleanup(r) \/ Release(r)

Next ==
    \/ \E c \in Comments, r \in Runs : Deliver(c, r)
    \/ \E c \in Comments : Expire(c)
    \/ \E r \in Runs : Step(r) \/ RequestStop(r) \/ TerminateRun(r) \/ BootRecover(r)
    \/ HaltAll \/ Crash \/ BootDone

Spec == Init /\ [][Next]_vars

\* Every await of a run ends, every queued job begins (WorkQueue), and the
\* boot sequence runs.  Nobody has to comment, stop, or deliver again.
Fairness ==
    /\ \A r \in Runs : WF_vars(Step(r)) /\ WF_vars(BootRecover(r))
    /\ WF_vars(BootDone)

LiveSpec == Spec /\ Fairness

-----------------------------------------------------------------------------
TypeOK ==
    /\ dedup \subseteq Comments
    /\ activeFeedbackRuns \in [PRs -> Runs \cup {NoRun}]
    /\ stop \subseteq Runs
    /\ pc \in [Runs -> PCs]
    /\ comment \in [Runs -> Comments]
    /\ next \in [Runs -> 0..NumStages]
    /\ mem \in [Runs -> Statuses \ {"none"}]
    /\ status \in [Runs -> Statuses]
    /\ activeWork \subseteq Runs
    /\ worktree \subseteq Runs /\ pushed \subseteq Runs
    /\ phase \in {"up", "booting"}
    /\ crashes \in 0..MaxCrashes
    /\ stuck \subseteq Runs

(***************************************************************************)
(* No pull request stays blocked: the run an entry names is in flight, for *)
(* that very pull request, and its finally will remove the entry.          *)
(***************************************************************************)
EntryHeld ==
    \A p \in PRs : activeFeedbackRuns[p] # NoRun =>
        /\ pc[activeFeedbackRuns[p]] \in Claimed
        /\ PR(activeFeedbackRuns[p]) = p

\* No two comments of p were handled at once and no run of p was cancelled.
\* A cancelled run gives its entry back before it ends, and once more when it
\* ends: by then the entry may be that of the next run.
Undisturbed(p) ==
    p \notin Racing /\ \A r \in Runs : PR(r) = p => mem[r] # "cancelled"

(***************************************************************************)
(* One feedback run per pull request: a run that is queued or executing is *)
(* the one the entry names, so no two of them share the branch.            *)
(***************************************************************************)
OnePerPR ==
    \A r \in Runs : Undisturbed(PR(r)) /\ pc[r] \in Claimed =>
        activeFeedbackRuns[PR(r)] = r

(***************************************************************************)
(* The worktree of a run is on disk from its creation to the push: neither *)
(* the clean-up of an earlier run nor the worktreeAddWithRetry of a later  *)
(* one on the same branch removes it.                                      *)
(***************************************************************************)
WorktreeInUse ==
    \A r \in Runs :
        Undisturbed(PR(r)) /\ pc[r] \in {"setup", "stage", "agent", "push"}
            => r \in worktree

(***************************************************************************)
(* An active_work row belongs to an execution in flight, or to a process   *)
(* that died: no exit of the pipeline leaves it behind.                    *)
(***************************************************************************)
WorkRowsOwned == \A r \in activeWork : pc[r] \in Executing \cup {"dead"}

(***************************************************************************)
(* A run that takes the way of a stop has pushed nothing.                  *)
(***************************************************************************)
CancelledNotPushed == \A r \in Runs : mem[r] = "cancelled" => r \notin pushed

(***************************************************************************)
(* A queued job finds no entry only because its run was cancelled, as the  *)
(* comment at the guard of the job says (feedback-pipeline.ts:697); the    *)
(* second removal of an entry, at the end of a cancelled run, is meant to  *)
(* have no effect (runner.ts:745-748).  The code does not keep this.       *)
(***************************************************************************)
GivesUpOnlyIfStopped ==
    \A r \in Runs :
        pc[r] = "queued" /\ r \notin stop => activeFeedbackRuns[PR(r)] # NoRun

-----------------------------------------------------------------------------
(* Liveness, under LiveSpec.                                               *)

(***************************************************************************)
(* A pull request that has a feedback run accepts comments again some day. *)
(***************************************************************************)
EntryReleased ==
    \A p \in PRs : activeFeedbackRuns[p] # NoRun ~> activeFeedbackRuns[p] = NoRun

(***************************************************************************)
(* No comment is swallowed: one noted as handled (and thus ignored when it *)
(* is delivered again) gets a run that ends, unless the process dies or    *)
(* the note expires.                                                       *)
(***************************************************************************)
Answered(c) == \E r \in Runs : comment[r] = c /\ status[r] \in Terminal

CommentAnswered ==
    \A c \in Comments :
        c \in dedup /\ Undisturbed(PrOf[c])
            ~> Answered(c) \/ c \notin dedup \/ ~Undisturbed(PrOf[c])
=============================================================================
