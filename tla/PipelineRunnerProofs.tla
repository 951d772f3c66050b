------------------------ MODULE PipelineRunnerProofs ------------------------
(***************************************************************************)
(* Theorems about PipelineRunner that hold for every set of issues, every  *)
(* number of runs and calls, every list of stages, every retry limit and   *)
(* every choice of environment.                                            *)
(*                                                                         *)
(* The types are inductive with one more fact, AgentInRange: a call is in  *)
(* a stage only while the stage loop has a stage left, so that `next` and  *)
(* the resume payload stay within the list of stages; and Known: rows,     *)
(* calls and claims agree on the issue.  RetriesBounded, ClaimHeld and     *)
(* StageRowsOwned are each inductive given these, and so are, as action    *)
(* properties, RestingRows and IssuesApart: what becomes of rows and of    *)
(* issues that no call works for.  None of these assumes anything of the   *)
(* environment.                                                            *)
(*                                                                         *)
(* ClaimExclusive holds only of serial calls, and needs the invariant      *)
(* Exclusive; WorktreeKept rests on it, and so does LifeCycle, with        *)
(* StatusInv: what a call relies on the status of its row for.  These are  *)
(* conditional results: the code does not enforce what they assume         *)
(* (Serial, Unattended).                                                   *)
(*                                                                         *)
(* StepShape goes through the actions once and sorts them by what they do  *)
(* to calls and claims (a call goes on, ends, claims, begins; the process  *)
(* dies); the claim invariants are then proved from the shapes alone.      *)
(***************************************************************************)
EXTENDS PipelineRunner, TLAPS

AgentInRange == \A c \in Calls : pc[c] = "agent" => ctx[c].next < Len(Stages)

\* Where a call has a run: from the insert or the selection of its row on.
WithRun == PCs \ {"idle", "classify", "insert", "select"}

\* r is an inserted row of issue i.
RunOf(r, i) == r \in Runs /\ status[r] # "none" /\ issueOf[r] = i

\* Every row, call and claim knows its issue, and every call and claim works
\* for a row of that very issue.
Known ==
    /\ \A c \in Calls : pc[c] # "idle" => ctx[c].issue \in Issues
    /\ \A c \in Calls : pc[c] \in WithRun => RunOf(ctx[c].run, ctx[c].issue)
    /\ \A i \in Issues : activeRuns[i] # NoRun => RunOf(activeRuns[i], i)
    /\ \A r \in Runs : status[r] # "none" => issueOf[r] \in Issues

TypeInv == TypeOK /\ AgentInRange /\ Known

\* What a step may do to the rows.
Kept == \A r \in Runs :
    /\ status[r] # "none" => status'[r] # "none" /\ issueOf'[r] = issueOf[r]
    /\ status'[r] # "none" => issueOf'[r] \in Issues

-----------------------------------------------------------------------------
(* Lemmas about contexts: every update the actions make keeps the type.    *)

LEMMA LenStages == Len(Stages) \in Nat \ {0}
  BY RunnerAssumption

\* The contexts with which a call starts.
LEMMA StartContext ==
  ASSUME NEW i \in Issues \cup {NoIssue}
  PROVE  NoCtx \in ContextType /\ [NoCtx EXCEPT !.issue = i] \in ContextType
<1>1. 0 \in 0..Len(Stages) /\ 0 \in 0..(Len(Stages) - 1) /\ "queued" \in Statuses
  BY LenStages DEF Statuses
<1> QED
  BY <1>1 DEF NoCtx, ContextType, NoRun

LEMMA RunContext ==
  ASSUME NEW i \in Issues \cup {NoIssue}, NEW r \in Runs, NEW n \in Nat
  PROVE  /\ [NoCtx EXCEPT !.issue = i, !.run = r] \in ContextType
         /\ [NoCtx EXCEPT !.issue = i, !.run = r, !.retry = n] \in ContextType
<1>1. 0 \in 0..Len(Stages) /\ 0 \in 0..(Len(Stages) - 1) /\ "queued" \in Statuses
  BY LenStages DEF Statuses
<1> QED
  BY <1>1 DEF NoCtx, ContextType, NoRun

LEMMA NewContext ==
  ASSUME ctx \in [Calls -> ContextType], NEW c \in Calls, NEW k \in ContextType
  PROVE  [ctx EXCEPT ![c] = k] \in [Calls -> ContextType]
  OBVIOUS

LEMMA ContextMem ==
  ASSUME ctx \in [Calls -> ContextType], NEW c \in Calls, NEW m \in Statuses
  PROVE  [ctx EXCEPT ![c].mem = m] \in [Calls -> ContextType]
  BY DEF ContextType

LEMMA ContextNext ==
  ASSUME ctx \in [Calls -> ContextType], NEW c \in Calls, ctx[c].next < Len(Stages)
  PROVE  [ctx EXCEPT ![c].next = @ + 1] \in [Calls -> ContextType]
<1>1. ctx[c].next + 1 \in 0..Len(Stages)
  BY LenStages DEF ContextType
<1> QED
  BY <1>1 DEF ContextType

LEMMA ContextLast ==
  ASSUME ctx \in [Calls -> ContextType], NEW c \in Calls, ctx[c].next < Len(Stages)
  PROVE  [ctx EXCEPT ![c].last = ctx[c].next] \in [Calls -> ContextType]
<1>1. ctx[c].next \in 0..(Len(Stages) - 1)
  BY LenStages DEF ContextType
<1> QED
  BY <1>1 DEF ContextType

LEMMA ContextFresh ==
  ASSUME ctx \in [Calls -> ContextType], NEW c \in Calls, NEW r \in Runs
  PROVE  [ctx EXCEPT ![c].run = r, ![c].fresh = TRUE] \in [Calls -> ContextType]
  BY DEF ContextType

LEMMA ContextResumed ==
  ASSUME ctx \in [Calls -> ContextType], NEW c \in Calls, NEW r \in Runs,
         NEW n \in 0..Len(Stages), NEW k \in Nat
  PROVE  [ctx EXCEPT ![c].run = r, ![c].next = n, ![c].retry = k]
           \in [Calls -> ContextType]
<1>1. ASSUME NEW f \in [Calls -> ContextType]
      PROVE  [f EXCEPT ![c].run = r] \in [Calls -> ContextType]
  BY DEF ContextType
<1>2. ASSUME NEW f \in [Calls -> ContextType]
      PROVE  [f EXCEPT ![c].next = n] \in [Calls -> ContextType]
  BY DEF ContextType
<1>3. ASSUME NEW f \in [Calls -> ContextType]
      PROVE  [f EXCEPT ![c].retry = k] \in [Calls -> ContextType]
  BY DEF ContextType
<1> QED
  BY <1>1, <1>2, <1>3

\* What the building blocks do to the types.
LEMMA FinishType ==
  ASSUME TypeOK, NEW c \in Calls, Finish(c)
  PROVE  pc' \in [Calls -> PCs] /\ ctx' \in [Calls -> ContextType]
<1>1. NoCtx \in ContextType
  BY LenStages DEF NoCtx, ContextType, NoRun, Statuses
<1> QED
  BY <1>1 DEF Finish, TypeOK, PCs

LEMMA FailPipelineRows ==
  ASSUME NEW c, NEW k, NEW context, NEW transient,
         FailPipeline(c, k, context, transient)
  PROVE  /\ UNCHANGED issueOf
         /\ SetStatus(ctx[c].run, "retriable") \/ SetStatus(ctx[c].run, "failed")
  BY DEF FailPipeline

\* The types of what failPipeline writes.
CallTypes ==
    /\ status \in [Runs -> Statuses]
    /\ issueOf \in [Runs -> Issues \cup {NoIssue}]
    /\ index \in [Runs -> Indexes]
    /\ retries \in [Runs -> Nat]
    /\ age \in [Runs -> 0..2]
    /\ pc \in [Calls -> PCs]
    /\ ctx \in [Calls -> ContextType]

LEMMA FailPipelineType ==
  ASSUME TypeOK, NEW c \in Calls, NEW k \in 0..(Len(Stages) - 1),
         NEW context, NEW transient,
         FailPipeline(c, k, context, transient)
  PROVE  CallTypes'
<1>1. k - 1 \in Indexes
  BY LenStages DEF Indexes, NoPayload
<1>2. ctx[c].retry + 1 \in Nat
  BY DEF TypeOK, ContextType
<1>3. {"retriable", "failed"} \subseteq Statuses /\ {"cleanup", "ending"} \subseteq PCs
  BY DEF Statuses, Terminal, PCs, Claimed, Executing
<1>4. /\ [ctx EXCEPT ![c].mem = "retriable"] \in [Calls -> ContextType]
      /\ [ctx EXCEPT ![c].mem = "failed"] \in [Calls -> ContextType]
  BY <1>3, ContextMem DEF TypeOK
<1>5. status' \in [Runs -> Statuses]
  BY <1>3, FailPipelineRows DEF SetStatus, TypeOK
<1>6. ctx' \in [Calls -> ContextType]
  BY <1>4 DEF FailPipeline
<1>7. index' \in [Runs -> Indexes] /\ retries' \in [Runs -> Nat]
  BY <1>1, <1>2 DEF FailPipeline, TypeOK
<1>8. pc' \in [Calls -> PCs]
  BY <1>3 DEF FailPipeline, TypeOK
<1>9. UNCHANGED <<issueOf, age>>
  BY DEF FailPipeline
<1> QED
  BY <1>5, <1>6, <1>7, <1>8, <1>9 DEF TypeOK, CallTypes

\* No row is ever uninserted or given to another issue, and every row that is
\* inserted has an issue.
LEMMA SetStatusKept ==
  ASSUME TypeOK, Known, NEW r \in Runs, status[r] # "none",
         NEW s, s # "none", SetStatus(r, s), UNCHANGED issueOf
  PROVE  Kept
  BY DEF TypeOK, Known, Kept, SetStatus

LEMMA RowsUnchangedKept ==
  ASSUME Known, UNCHANGED <<status, issueOf>>
  PROVE  Kept
  BY DEF Known, Kept

LEMMA FailPipelineKept ==
  ASSUME TypeOK, Known, NEW c \in Calls, pc[c] \in WithRun,
         NEW k, NEW context, NEW transient, FailPipeline(c, k, context, transient)
  PROVE  Kept
<1>1. ctx[c].run \in Runs /\ status[ctx[c].run] # "none"
  BY DEF Known, RunOf
<1> QED
  BY <1>1, FailPipelineRows, SetStatusKept

LEMMA RowsStep ==
  ASSUME TypeOK, Known, [Next]_vars
  PROVE  Kept
<1> USE DEF TypeOK, Known, RunOf, WithRun, PCs, PreClaim, Claimed, Executing, Aborting,
            Kept, rowVars
<1>1. ASSUME NEW c \in Calls,
             \/ StartClassify(c) \/ StartClaim(c) \/ Cancelled(c)
             \/ StageStart(c) \/ StageDone(c) \/ LoopDone(c) \/ CloseRows(c)
             \/ Cleanup(c) \/ Release(c) \/ AbortUnclaim(c)
             \/ StageAgain(c) \/ FixStart(c)
      PROVE  Kept
  BY <1>1 DEF StartClassify, StartClaim, Cancelled, StageStart, StageDone,
     LoopDone, CloseRows, Cleanup, Release, AbortUnclaim, StageAgain, FixStart
<1>2. ASSUME NEW c \in Calls, StartInsert(c) PROVE Kept
  BY <1>2 DEF StartInsert, SetStatus
<1>3. ASSUME NEW c \in Calls,
             \/ TickResume(c) \/ ResumeAccess(c) \/ JobBegin(c)
             \/ StageStop(c) \/ StageAwait(c) \/ Complete(c) \/ AbortRow(c)
             \/ RecoverMark(c)
      PROVE  Kept
  BY <1>3 DEF TickResume, ResumeAccess, JobBegin, StageStop, StageAwait,
     Complete, AbortRow, RecoverMark, SetStatus
<1>4. ASSUME NEW c \in Calls, ResumeSelect(c) PROVE Kept
  <2>1. CASE UNCHANGED <<status, issueOf>>
    BY <2>1
  <2>2. CASE \E r \in Resumable(ctx[c].issue), s \in {"failed", "paused"} :
               SetStatus(r, s)
    <3>1. PICK r \in Runs, s \in {"failed", "paused"} :
            status[r] # "none" /\ SetStatus(r, s)
      BY <2>2 DEF Resumable
    <3>2. UNCHANGED issueOf
      BY <1>4 DEF ResumeSelect
    <3> QED
      BY <3>1, <3>2, SetStatusKept
  <2> QED
    BY <1>4, <2>1, <2>2 DEF ResumeSelect
<1>5. ASSUME NEW c \in Calls,
             Clone(c) \/ Setup(c) \/ StageFail(c) \/ FixDone(c) \/ Push(c)
      PROVE  Kept
  <2>1. pc[c] \in WithRun
    BY <1>5 DEF Clone, Setup, StageFail, FixDone, Push
  <2>2. CASE UNCHANGED <<status, issueOf>>
    BY <2>2
  <2>3. CASE \E k, context, transient : FailPipeline(c, k, context, transient)
    BY <2>1, <2>3, FailPipelineKept
  <2> QED
    BY <1>5, <2>2, <2>3 DEF Clone, Setup, StageFail, FixDone, Push
<1>6. ASSUME NEW c \in Calls, NEW i \in Issues,
             Start(c, i) \/ Resume(c, i) \/ Abort(c, i)
      PROVE  Kept
  BY <1>6 DEF Start, Resume, Abort, Idle
<1>7. ASSUME NEW c \in Calls, NEW r \in Runs, RecoverSelect(c, r) PROVE Kept
  BY <1>7 DEF RecoverSelect, Idle
<1>8. ASSUME NEW i \in Issues,
             ResumeActive(i) \/ Pause(i)
      PROVE  Kept
  BY <1>8 DEF ResumeActive, Pause, SetStatus
<1>9. ASSUME NEW i \in Issues, ClosePR(i) \/ FeedbackCancelled(i) PROVE Kept
  BY <1>9 DEF ClosePR, FeedbackCancelled
<1>10. ASSUME NEW r \in Runs, NEW mode \in {"graceful", "cancel"}, RequestStop(r, mode)
      PROVE  Kept
  BY <1>10 DEF RequestStop
<1>11. ASSUME NEW r \in Runs,
             TerminateRun(r) \/ RecoverZombie(r)
      PROVE  Kept
  BY <1>11 DEF TerminateRun, RecoverZombie, SetStatus
<1>12. ASSUME NEW r \in Runs, Age(r) PROVE Kept
  BY <1>12 DEF Age
<1>13. ASSUME NEW r \in Runs, BootRecover(r) PROVE Kept
  <2>1. status[r] # "none" /\ UNCHANGED issueOf
    BY <1>13 DEF BootRecover, Interrupted
  <2>2. SetStatus(r, "retriable") \/ SetStatus(r, "failed")
    BY <1>13 DEF BootRecover
  <2> QED
    BY <2>1, <2>2, SetStatusKept
<1>14. ASSUME HaltAll \/ SweepOrphans \/ Crash \/ BootDone
      PROVE  Kept
  BY <1>14 DEF HaltAll, SweepOrphans, Crash, BootDone
<1>15. CASE UNCHANGED vars
  BY <1>15 DEF vars
<1> QED
  BY <1>1, <1>2, <1>3, <1>4, <1>5, <1>6, <1>7, <1>8, <1>9, <1>10, <1>11,
     <1>12, <1>13, <1>14, <1>15 DEF Next, Step
-----------------------------------------------------------------------------
(* Known and AgentInRange are preserved by every action.                   *)

\* RunOf in the next state.
RunOfNext(r, i) == r \in Runs /\ status'[r] # "none" /\ issueOf'[r] = i

LEMMA RunOfStable ==
  ASSUME Kept, NEW r, NEW i, RunOf(r, i)
  PROVE  RunOfNext(r, i)
  BY DEF Kept, RunOf, RunOfNext

\* Only call c moves, to a place where it has what that place needs.
CallMoves(c) ==
    /\ \A d \in Calls \ {c} : pc'[d] = pc[d] /\ ctx'[d] = ctx[d]
    /\ pc'[c] # "idle" => ctx'[c].issue \in Issues
    /\ pc'[c] \in WithRun => RunOfNext(ctx'[c].run, ctx'[c].issue)
    /\ pc'[c] = "agent" => ctx'[c].next < Len(Stages)

\* No claim is made but for a row of the issue.
ClaimsMove == \A i \in Issues :
    activeRuns'[i] # activeRuns[i] /\ activeRuns'[i] # NoRun
        => RunOfNext(activeRuns'[i], i)

\* Call c keeps its issue and its run.
SameRun(c) ==
    /\ \A d \in Calls \ {c} : ctx'[d] = ctx[d]
    /\ ctx'[c].issue = ctx[c].issue /\ ctx'[c].run = ctx[c].run

\* Call c goes on to p with the same issue and run.
GoesOn(c, p) == pc' = [pc EXCEPT ![c] = p] /\ SameRun(c)

LEMMA GotoGoesOn ==
  ASSUME NEW c \in Calls, NEW p, Goto(c, p)
  PROVE  GoesOn(c, p)
  BY DEF Goto, GoesOn, SameRun

LEMMA UpdateKeepsRun ==
  ASSUME TypeOK, NEW c \in Calls, NEW v,
         \/ ctx' = [ctx EXCEPT ![c].mem = v]
         \/ ctx' = [ctx EXCEPT ![c].next = v]
         \/ ctx' = [ctx EXCEPT ![c].last = v]
  PROVE  SameRun(c)
  BY DEF TypeOK, ContextType, SameRun

LEMMA FailPipelineGoesOn ==
  ASSUME TypeOK, NEW c \in Calls, NEW k, NEW context, NEW transient,
         FailPipeline(c, k, context, transient)
  PROVE  GoesOn(c, "cleanup") \/ GoesOn(c, "ending")
<1>1. \/ /\ pc' = [pc EXCEPT ![c] = "cleanup"]
         /\ ctx' = [ctx EXCEPT ![c].mem = "retriable"]
      \/ /\ pc' = [pc EXCEPT ![c] = "ending"]
         /\ ctx' = [ctx EXCEPT ![c].mem = "failed"]
  BY DEF FailPipeline
<1> QED
  BY <1>1, UpdateKeepsRun DEF GoesOn

-----------------------------------------------------------------------------
(* The shapes of a step, as far as calls and claims go.                    *)

\* Places where a call has found its issue free and not claimed it yet.
Unclaimed == {"classify", "insert", "claim", "select"}

\* A call goes on, on the same side of its claim.
GoOn(c) ==
    /\ CallMoves(c)
    /\ pc[c] # "idle" /\ ctx'[c].issue = ctx[c].issue
    /\ pc'[c] \in Claimed <=> pc[c] \in Claimed
    /\ pc[c] \in Claimed => ctx'[c].run = ctx[c].run
    /\ pc'[c] \in PreClaim => pc[c] \in PreClaim
    /\ pc'[c] \in Unclaimed =>
         pc[c] \in Unclaimed \/ activeRuns[ctx[c].issue] = NoRun
    /\ pc'[c] \in Aborting => pc[c] \in Aborting
    /\ pc'[c] = "cancelling" => stop[ctx[c].run] # "none"
    /\ \/ UNCHANGED activeRuns
       \/ pc[c] = "cancelling" /\ DropClaim(ctx[c].issue)

\* A call ends; one that had claimed its issue leaves it unclaimed.
Ends(c) ==
    /\ CallMoves(c)
    /\ pc[c] # "idle" /\ pc'[c] = "idle"
    /\ pc[c] \in Claimed => activeRuns'[ctx[c].issue] = NoRun
    /\ \/ UNCHANGED activeRuns
       \/ pc[c] \in Claimed \cup Aborting \cup {"select"} /\ DropClaim(ctx[c].issue)

\* A call claims its issue for its run.
Claims(c) ==
    /\ CallMoves(c)
    /\ pc[c] \in {"claim", "select"} /\ pc'[c] \in Claimed \ {"cancelling"}
    /\ ctx'[c].issue = ctx[c].issue
    /\ activeRuns' = [activeRuns EXCEPT ![ctx[c].issue] = ctx'[c].run]

\* A call is made.
Begins(c) ==
    /\ CallMoves(c)
    /\ pc[c] = "idle" /\ pc'[c] \in PreClaim \cup {"abort"}
    /\ pc'[c] \in PreClaim => MayCall(ctx'[c].issue)
    /\ pc'[c] \in Unclaimed => activeRuns[ctx'[c].issue] = NoRun
    /\ pc'[c] = "abort" => "abort" \in Enabled
    /\ UNCHANGED activeRuns

\* No call moves.
Stays == UNCHANGED <<pc, ctx, activeRuns>>

\* Every call and every claim is gone.
Resets ==
    /\ \A c \in Calls : pc'[c] = "idle"
    /\ \A i \in Issues : activeRuns'[i] = NoRun

\* A claim is dropped and no call moves: only where runs are stopped.
Loses ==
    /\ "stop" \in Enabled
    /\ UNCHANGED <<pc, ctx>>
    /\ \E i \in Issues : DropClaim(i)

StopKept ==
    "stop" \in Enabled \/ \A r \in Runs : stop[r] = "none" => stop'[r] = "none"

Shape ==
    /\ StopKept
    /\ \/ \E c \in Calls : GoOn(c) \/ Ends(c) \/ Claims(c) \/ Begins(c)
       \/ Stays
       \/ Loses
       \/ Resets

\* p is a place to which call c may go on from where it is.
Allowed(c, p) ==
    /\ p # "idle" /\ pc[c] # "idle"
    /\ p \in WithRun => pc[c] \in WithRun
    /\ p = "agent" => ctx'[c].next < Len(Stages)
    /\ p \in Claimed <=> pc[c] \in Claimed
    /\ p \in PreClaim => pc[c] \in PreClaim
    /\ p \in Unclaimed => pc[c] \in Unclaimed \/ activeRuns[ctx[c].issue] = NoRun
    /\ p \in Aborting => pc[c] \in Aborting
    /\ p = "cancelling" => stop[ctx[c].run] # "none"
    /\ \/ UNCHANGED activeRuns
       \/ pc[c] = "cancelling" /\ DropClaim(ctx[c].issue)

\* Call c may end where it is.
MayEnd(c) ==
    /\ pc[c] # "idle"
    /\ pc[c] \in Claimed => activeRuns'[ctx[c].issue] = NoRun
    /\ \/ UNCHANGED activeRuns
       \/ pc[c] \in Claimed \cup Aborting \cup {"select"} /\ DropClaim(ctx[c].issue)

LEMMA GoesOnShape ==
  ASSUME TypeInv, Kept, NEW c \in Calls, NEW p, GoesOn(c, p), Allowed(c, p)
  PROVE  GoOn(c)
<1>1. pc'[c] = p /\ \A d \in Calls \ {c} : pc'[d] = pc[d] /\ ctx'[d] = ctx[d]
  BY DEF GoesOn, SameRun, TypeInv, TypeOK
<1>2. ctx'[c].issue = ctx[c].issue /\ ctx'[c].run = ctx[c].run
  BY DEF GoesOn, SameRun
<1>3. p \in WithRun => RunOfNext(ctx[c].run, ctx[c].issue)
  BY RunOfStable DEF TypeInv, Known, Allowed
<1>4. CallMoves(c)
  BY <1>1, <1>2, <1>3 DEF CallMoves, TypeInv, Known, Allowed
<1> QED
  BY <1>1, <1>2, <1>4 DEF GoOn, Allowed

LEMMA FinishShape ==
  ASSUME TypeInv, NEW c \in Calls, Finish(c), MayEnd(c)
  PROVE  Ends(c)
<1>1. pc'[c] = "idle" /\ \A d \in Calls \ {c} : pc'[d] = pc[d] /\ ctx'[d] = ctx[d]
  BY DEF Finish, TypeInv, TypeOK
<1>2. CallMoves(c)
  BY <1>1 DEF CallMoves, WithRun
<1> QED
  BY <1>1, <1>2 DEF Ends, MayEnd

\* A dropped claim is gone.
LEMMA Dropped ==
  ASSUME TypeInv, NEW c \in Calls, pc[c] # "idle", DropClaim(ctx[c].issue)
  PROVE  activeRuns'[ctx[c].issue] = NoRun
  BY DEF TypeInv, TypeOK, Known, DropClaim

LEMMA StepShape ==
  ASSUME TypeInv, [Next]_vars
  PROVE  Shape
<1>0. Kept /\ TypeOK
  BY RowsStep DEF TypeInv
<1> USE <1>0
<1>1. ASSUME NEW c \in Calls, StartClassify(c) PROVE Shape
  <2>1. pc[c] = "classify" /\ StopKept
    BY <1>1 DEF StartClassify, memVars, StopKept, TypeOK
  <2>2. GoesOn(c, "insert") \/ Finish(c)
    BY <1>1, GotoGoesOn, UpdateKeepsRun DEF StartClassify, GoesOn
  <2>3. UNCHANGED activeRuns
    BY <1>1 DEF StartClassify, memVars
  <2>4. /\ Allowed(c, "insert")
        /\ (Finish(c) => MayEnd(c))
    BY <2>1, <2>2, <2>3 DEF Allowed, MayEnd, WithRun, PCs, PreClaim,
           Unclaimed, Claimed, Executing, Aborting, DropClaim
  <2>5. GoOn(c) \/ Ends(c)
    BY <2>2, <2>4, GoesOnShape, FinishShape
  <2> QED
    BY <2>1, <2>5 DEF Shape
<1>2. ASSUME NEW c \in Calls, StartInsert(c) PROVE Shape
  <2>1. PICK r \in Runs :
          /\ status' = [status EXCEPT ![r] = "queued"]
          /\ issueOf' = [issueOf EXCEPT ![r] = ctx[c].issue]
          /\ ctx' = [ctx EXCEPT ![c].run = r, ![c].fresh = TRUE]
    BY <1>2 DEF StartInsert, SetStatus
  <2>2. /\ pc' = [pc EXCEPT ![c] = "claim"] /\ pc[c] = "insert"
        /\ UNCHANGED activeRuns /\ StopKept
    BY <1>2 DEF StartInsert, memVars, StopKept
  <2>3. ctx'[c].run = r /\ ctx'[c].issue = ctx[c].issue
    BY <2>1 DEF TypeOK, ContextType
  <2>4. \A d \in Calls \ {c} : pc'[d] = pc[d] /\ ctx'[d] = ctx[d]
    BY <2>1, <2>2 DEF TypeOK
  <2>5. RunOfNext(r, ctx[c].issue)
    BY <2>1 DEF RunOfNext, TypeOK
  <2>6. pc'[c] = "claim" /\ ctx[c].issue \in Issues
    BY <2>2 DEF TypeInv, Known, TypeOK
  <2>7. CallMoves(c)
    BY <2>3, <2>4, <2>5, <2>6 DEF CallMoves
  <2>8. GoOn(c)
    <3>1. /\ "claim" \notin Claimed /\ "insert" \notin Claimed
          /\ "insert" \in PreClaim /\ "insert" \in Unclaimed
          /\ "claim" \notin Aborting \cup {"cancelling"}
      BY DEF Claimed, Executing, PreClaim, Unclaimed, Aborting
    <3> QED
      BY <2>2, <2>3, <2>6, <2>7, <3>1 DEF GoOn, DropClaim
  <2> QED
    BY <2>2, <2>8 DEF Shape
<1>3. ASSUME NEW c \in Calls, StartClaim(c) PROVE Shape
  <2>1. GoesOn(c, "queued") /\ pc[c] = "claim" /\ StopKept
    BY <1>3, GotoGoesOn DEF StartClaim, StopKept
  <2>2. /\ pc'[c] = "queued"
        /\ \A d \in Calls \ {c} : pc'[d] = pc[d] /\ ctx'[d] = ctx[d]
        /\ ctx'[c].issue = ctx[c].issue /\ ctx'[c].run = ctx[c].run
    BY <2>1 DEF GoesOn, SameRun, TypeOK
  <2>3. RunOfNext(ctx[c].run, ctx[c].issue) /\ ctx[c].issue \in Issues
    BY <2>1, RunOfStable DEF TypeInv, Known, WithRun, PCs, PreClaim
  <2>4. CallMoves(c)
    BY <2>2, <2>3 DEF CallMoves
  <2>5. Claims(c)
    BY <1>3, <2>1, <2>2, <2>4 DEF StartClaim, Claims, Claimed
  <2> QED
    BY <2>1, <2>5 DEF Shape
<1>4. ASSUME NEW c \in Calls, TickResume(c) PROVE Shape
  <2>1. pc[c] = "resume" /\ StopKept
    BY <1>4 DEF TickResume, memVars, StopKept, TypeOK
  <2>2. GoesOn(c, "select") \/ Finish(c)
    BY <1>4, GotoGoesOn, UpdateKeepsRun DEF TickResume, GoesOn
  <2>3. /\ UNCHANGED activeRuns
        /\ GoesOn(c, "select") => activeRuns[ctx[c].issue] = NoRun
    <3>1. pc'[c] = "select" => activeRuns[ctx[c].issue] = NoRun
      BY <1>4 DEF TickResume, Finish, TypeOK
    <3>2. GoesOn(c, "select") => pc'[c] = "select"
      BY DEF GoesOn, TypeOK
    <3> QED
      BY <1>4, <3>1, <3>2 DEF TickResume, memVars
  <2>4. /\ (GoesOn(c, "select") => Allowed(c, "select"))
        /\ (Finish(c) => MayEnd(c))
    BY <2>1, <2>2, <2>3 DEF Allowed, MayEnd, WithRun, PCs, PreClaim,
           Unclaimed, Claimed, Executing, Aborting, DropClaim
  <2>5. GoOn(c) \/ Ends(c)
    BY <2>2, <2>4, GoesOnShape, FinishShape
  <2> QED
    BY <2>1, <2>5 DEF Shape
<1>5. ASSUME NEW c \in Calls, ResumeSelect(c) PROVE Shape
  <2> DEFINE i == ctx[c].issue
  <2>1. pc[c] = "select" /\ ctx[c].issue \in Issues /\ StopKept
    BY <1>5 DEF ResumeSelect, TypeInv, Known, StopKept
  <2>2. CASE Finish(c) /\ (UNCHANGED activeRuns \/ DropClaim(i))
    <3>1. Ends(c)
      BY <2>1, <2>2, FinishShape DEF MayEnd, Claimed, Executing, DropClaim
    <3> QED
      BY <2>1, <3>1 DEF Shape
  <2>3. CASE \E r \in Resumable(i) :
               /\ activeRuns' = [activeRuns EXCEPT ![i] = r]
               /\ pc' = [pc EXCEPT ![c] = "access"]
               /\ ctx' = [ctx EXCEPT ![c].run = r, ![c].next = index[r] + 1,
                                     ![c].retry = retries[r]]
    <3>1. PICK r \in Resumable(i) :
               /\ activeRuns' = [activeRuns EXCEPT ![i] = r]
               /\ pc' = [pc EXCEPT ![c] = "access"]
               /\ ctx' = [ctx EXCEPT ![c].run = r, ![c].next = index[r] + 1,
                                     ![c].retry = retries[r]]
      BY <2>3
    <3>2. RunOfNext(r, i)
      <4>1. RunOf(r, i)
        BY DEF Resumable, RunOf
      <4> QED
        BY <4>1, RunOfStable
    <3>3. ctx'[c].run = r /\ ctx'[c].issue = i
      BY <3>1 DEF TypeOK, ContextType
    <3>4. \A d \in Calls \ {c} : pc'[d] = pc[d] /\ ctx'[d] = ctx[d]
      BY <3>1 DEF TypeOK
    <3>5. pc'[c] = "access"
      BY <3>1 DEF TypeOK
    <3>6. CallMoves(c)
      BY <2>1, <3>2, <3>3, <3>4, <3>5 DEF CallMoves
    <3>7. Claims(c)
      BY <2>1, <3>1, <3>3, <3>5, <3>6 DEF Claims, Claimed
    <3> QED
      BY <2>1, <3>7 DEF Shape
  <2> QED
    BY <1>5, <2>2, <2>3 DEF ResumeSelect
<1>6. ASSUME NEW c \in Calls, ResumeAccess(c) PROVE Shape
  <2>1. pc[c] = "access" /\ StopKept
    BY <1>6 DEF ResumeAccess, memVars, StopKept, TypeOK
  <2>2. GoesOn(c, "queued") \/ Finish(c)
    BY <1>6, GotoGoesOn, UpdateKeepsRun DEF ResumeAccess, GoesOn
  <2>3. \/ GoesOn(c, "queued") /\ UNCHANGED activeRuns
        \/ Finish(c) /\ DropClaim(ctx[c].issue)
    BY <1>6, GotoGoesOn DEF ResumeAccess
  <2>4. /\ (GoesOn(c, "queued") => Allowed(c, "queued"))
        /\ (Finish(c) => MayEnd(c))
    <3>1. GoesOn(c, "queued") => ~Finish(c)
      BY DEF GoesOn, Finish, TypeOK
    <3> QED
      BY <2>1, <2>3, <3>1, Dropped DEF Allowed, MayEnd, WithRun, PCs, PreClaim,
           Unclaimed, Claimed, Executing, Aborting, DropClaim
  <2>5. GoOn(c) \/ Ends(c)
    BY <2>2, <2>4, GoesOnShape, FinishShape
  <2> QED
    BY <2>1, <2>5 DEF Shape
<1>7. ASSUME NEW c \in Calls, JobBegin(c) PROVE Shape
  <2>1. pc[c] = "queued" /\ StopKept
    BY <1>7 DEF JobBegin, memVars, StopKept, TypeOK
  <2>2. GoesOn(c, "stage") \/ GoesOn(c, "clone") \/ Finish(c)
    BY <1>7, GotoGoesOn, UpdateKeepsRun DEF JobBegin, GoesOn
  <2>3. UNCHANGED activeRuns /\ (Finish(c) => activeRuns[ctx[c].issue] = NoRun)
    <3>1. pc'[c] = "idle" => activeRuns[ctx[c].issue] = NoRun
      BY <1>7 DEF JobBegin, Finish, TypeOK
    <3>2. Finish(c) => pc'[c] = "idle"
      BY DEF Finish, TypeOK
    <3> QED
      BY <1>7, <3>1, <3>2 DEF JobBegin, memVars
  <2>4. /\ Allowed(c, "stage")
        /\ Allowed(c, "clone")
        /\ (Finish(c) => MayEnd(c))
    BY <2>1, <2>2, <2>3 DEF Allowed, MayEnd, WithRun, PCs, PreClaim,
           Unclaimed, Claimed, Executing, Aborting, DropClaim
  <2>5. GoOn(c) \/ Ends(c)
    BY <2>2, <2>4, GoesOnShape, FinishShape
  <2> QED
    BY <2>1, <2>5 DEF Shape
<1>8. ASSUME NEW c \in Calls,
             \/ Clone(c) \/ Setup(c) \/ StageAwait(c) \/ StageDone(c)
             \/ StageFail(c) \/ LoopDone(c) \/ FixStart(c) \/ FixDone(c)
             \/ Push(c) \/ Complete(c) \/ CloseRows(c) \/ Cleanup(c)
      PROVE  Shape
  <2>1. pc[c] \in Executing /\ UNCHANGED activeRuns /\ StopKept
    BY <1>8 DEF Clone, Setup, StageAwait, StageDone, StageFail, LoopDone,
       FixStart, FixDone, Push, Complete, CloseRows, Cleanup, Executing,
       memVars, StopKept
  <2>2. PICK p \in Executing \cup {"release"} :
          GoesOn(c, p) /\ p # "agent" /\ p # "cancelling"
    BY <1>8, GotoGoesOn, UpdateKeepsRun, FailPipelineGoesOn
       DEF Clone, Setup, StageAwait, StageDone, StageFail, LoopDone, FixStart,
          FixDone, Push, Complete, CloseRows, Cleanup, GoesOn, Executing
  <2>3. Allowed(c, p)
    BY <2>1, <2>2 DEF Allowed, WithRun, PCs, PreClaim, Unclaimed, Claimed,
                      Executing, Aborting
  <2> QED
    BY <2>1, <2>2, <2>3, GoesOnShape DEF Shape
<1>9. ASSUME NEW c \in Calls, StageStop(c) PROVE Shape
  <2>1. pc[c] = "stage" /\ StopKept
    BY <1>9 DEF StageStop, memVars, StopKept, TypeOK
  <2>2. GoesOn(c, "cancelling")
    BY <1>9, GotoGoesOn, UpdateKeepsRun DEF StageStop, GoesOn
  <2>3. UNCHANGED activeRuns /\ stop[ctx[c].run] # "none"
    BY <1>9 DEF StageStop, memVars
  <2>4. Allowed(c, "cancelling")
    BY <2>1, <2>2, <2>3 DEF Allowed, WithRun, PCs, PreClaim,
           Unclaimed, Claimed, Executing, Aborting, DropClaim
  <2>5. GoOn(c)
    BY <2>2, <2>4, GoesOnShape
  <2> QED
    BY <2>1, <2>5 DEF Shape
<1>10. ASSUME NEW c \in Calls, Cancelled(c) PROVE Shape
  <2>1. pc[c] = "cancelling" /\ StopKept
    BY <1>10 DEF Cancelled, StopKept, TypeOK
  <2>2. GoesOn(c, "cleanup")
    BY <1>10, GotoGoesOn, UpdateKeepsRun DEF Cancelled, GoesOn
  <2>3. DropClaim(ctx[c].issue)
    BY <1>10 DEF Cancelled, memVars
  <2>4. Allowed(c, "cleanup")
    BY <2>1, <2>2, <2>3 DEF Allowed, WithRun, PCs, PreClaim,
           Unclaimed, Claimed, Executing, Aborting, DropClaim
  <2>5. GoOn(c)
    BY <2>2, <2>4, GoesOnShape
  <2> QED
    BY <2>1, <2>5 DEF Shape
<1>11. ASSUME NEW c \in Calls, StageStart(c) PROVE Shape
  <2>1. pc[c] = "stage" /\ StopKept
    BY <1>11 DEF StageStart, memVars, StopKept, TypeOK
  <2>2. GoesOn(c, "agent") /\ ctx'[c].next < Len(Stages)
    <3>1. ctx' = [ctx EXCEPT ![c].last = ctx[c].next] /\ ctx[c].next < Len(Stages)
      BY <1>11 DEF StageStart, More
    <3>2. ctx'[c].next = ctx[c].next
      BY <3>1 DEF TypeOK, ContextType
    <3> QED
      BY <1>11, <3>1, <3>2, UpdateKeepsRun DEF StageStart, GoesOn
  <2>3. UNCHANGED activeRuns
    BY <1>11 DEF StageStart, memVars
  <2>4. Allowed(c, "agent")
    BY <2>1, <2>2, <2>3 DEF Allowed, WithRun, PCs, PreClaim,
           Unclaimed, Claimed, Executing, Aborting, DropClaim
  <2>5. GoOn(c)
    BY <2>2, <2>4, GoesOnShape
  <2> QED
    BY <2>1, <2>5 DEF Shape
<1>12. ASSUME NEW c \in Calls, Release(c) PROVE Shape
  <2>1. pc[c] = "release" /\ StopKept
    BY <1>12 DEF Release, memVars, StopKept, TypeOK
  <2>2. Finish(c)
    BY <1>12, GotoGoesOn, UpdateKeepsRun DEF Release, GoesOn
  <2>3. DropClaim(ctx[c].issue)
    BY <1>12 DEF Release, memVars
  <2>4. Finish(c) => MayEnd(c)
    BY <2>1, <2>2, <2>3, Dropped DEF MayEnd, WithRun, PCs, PreClaim,
           Unclaimed, Claimed, Executing, Aborting, DropClaim
  <2>5. Ends(c)
    BY <2>2, <2>4, FinishShape
  <2> QED
    BY <2>1, <2>5 DEF Shape
<1>13. ASSUME NEW c \in Calls, AbortRow(c) PROVE Shape
  <2>1. pc[c] = "abort" /\ StopKept
    BY <1>13 DEF AbortRow, memVars, StopKept, TypeOK
  <2>2. GoesOn(c, "unclaim")
    BY <1>13, GotoGoesOn, UpdateKeepsRun DEF AbortRow, GoesOn
  <2>3. UNCHANGED activeRuns
    BY <1>13 DEF AbortRow, memVars
  <2>4. Allowed(c, "unclaim")
    BY <2>1, <2>2, <2>3 DEF Allowed, WithRun, PCs, PreClaim,
           Unclaimed, Claimed, Executing, Aborting, DropClaim
  <2>5. GoOn(c)
    BY <2>2, <2>4, GoesOnShape
  <2> QED
    BY <2>1, <2>5 DEF Shape
<1>14. ASSUME NEW c \in Calls, AbortUnclaim(c) PROVE Shape
  <2>1. pc[c] = "unclaim" /\ StopKept
    BY <1>14 DEF AbortUnclaim, memVars, StopKept, TypeOK
  <2>2. Finish(c)
    BY <1>14, GotoGoesOn, UpdateKeepsRun DEF AbortUnclaim, GoesOn
  <2>3. DropClaim(ctx[c].issue)
    BY <1>14 DEF AbortUnclaim, memVars
  <2>4. Finish(c) => MayEnd(c)
    BY <2>1, <2>2, <2>3 DEF MayEnd, WithRun, PCs, PreClaim,
           Unclaimed, Claimed, Executing, Aborting, DropClaim
  <2>5. Ends(c)
    BY <2>2, <2>4, FinishShape
  <2> QED
    BY <2>1, <2>5 DEF Shape
<1>15. ASSUME NEW c \in Calls, RecoverMark(c) PROVE Shape
  <2>1. pc[c] = "recover" /\ StopKept
    BY <1>15 DEF RecoverMark, memVars, StopKept, TypeOK
  <2>2. GoesOn(c, "resume") \/ Finish(c)
    BY <1>15, GotoGoesOn, UpdateKeepsRun DEF RecoverMark, GoesOn
  <2>3. UNCHANGED activeRuns
    BY <1>15 DEF RecoverMark, memVars
  <2>4. /\ Allowed(c, "resume")
        /\ (Finish(c) => MayEnd(c))
    BY <2>1, <2>2, <2>3 DEF Allowed, MayEnd, WithRun, PCs, PreClaim,
           Unclaimed, Claimed, Executing, Aborting, DropClaim
  <2>5. GoOn(c) \/ Ends(c)
    BY <2>2, <2>4, GoesOnShape, FinishShape
  <2> QED
    BY <2>1, <2>5 DEF Shape
<1>16. ASSUME NEW c \in Calls, StageAgain(c) PROVE Shape
  <2>1. UNCHANGED <<pc, ctx, activeRuns>>
    BY <1>16 DEF StageAgain, memVars, callVars
  <2>2. StopKept
    BY <1>16 DEF StageAgain, memVars, StopKept
  <2> QED
    BY <2>1, <2>2 DEF Shape, Stays
<1>17. ASSUME NEW c \in Calls, NEW i \in Issues, Start(c, i) PROVE Shape
  <2>1. pc' = [pc EXCEPT ![c] = "classify"] /\ UNCHANGED activeRuns /\ StopKept
    BY <1>17 DEF Start, memVars, StopKept
  <2>2. ctx' = [ctx EXCEPT ![c] = [NoCtx EXCEPT !.issue = i]]
    BY <1>17 DEF Start
  <2>3. ctx'[c].issue = i /\ \A d \in Calls \ {c} : ctx'[d] = ctx[d]
    BY <2>2 DEF TypeOK, NoCtx
  <2>4. pc'[c] = "classify" /\ \A d \in Calls \ {c} : pc'[d] = pc[d]
    BY <2>1 DEF TypeOK
  <2>5. CallMoves(c)
    BY <2>3, <2>4 DEF CallMoves, WithRun
  <2>6. Begins(c)
    BY <1>17, <2>1, <2>3, <2>4, <2>5 DEF Start, Idle, Begins, PreClaim
  <2> QED
    BY <2>1, <2>6 DEF Shape
<1>18. ASSUME NEW c \in Calls, NEW i \in Issues, Resume(c, i) PROVE Shape
  <2>1. pc' = [pc EXCEPT ![c] = "select"] /\ UNCHANGED activeRuns /\ StopKept
    BY <1>18 DEF Resume, memVars, StopKept
  <2>2. ctx' = [ctx EXCEPT ![c] = [NoCtx EXCEPT !.issue = i]]
    BY <1>18 DEF Resume
  <2>3. ctx'[c].issue = i /\ \A d \in Calls \ {c} : ctx'[d] = ctx[d]
    BY <2>2 DEF TypeOK, NoCtx
  <2>4. pc'[c] = "select" /\ \A d \in Calls \ {c} : pc'[d] = pc[d]
    BY <2>1 DEF TypeOK
  <2>5. CallMoves(c)
    BY <2>3, <2>4 DEF CallMoves, WithRun
  <2>6. Begins(c)
    BY <1>18, <2>1, <2>3, <2>4, <2>5 DEF Resume, Idle, Begins, PreClaim
  <2> QED
    BY <2>1, <2>6 DEF Shape
<1>19. ASSUME NEW c \in Calls, NEW i \in Issues, Abort(c, i) PROVE Shape
  <2>1. pc' = [pc EXCEPT ![c] = "abort"] /\ UNCHANGED activeRuns /\ StopKept
    BY <1>19 DEF Abort, memVars, StopKept
  <2>2. /\ ctx' = [ctx EXCEPT ![c] = [NoCtx EXCEPT !.issue = i, !.run = activeRuns[i]]]
        /\ activeRuns[i] # NoRun
    BY <1>19 DEF Abort
  <2>3. /\ ctx'[c].issue = i /\ ctx'[c].run = activeRuns[i]
        /\ \A d \in Calls \ {c} : ctx'[d] = ctx[d]
    BY <2>2 DEF TypeOK, NoCtx
  <2>4. pc'[c] = "abort" /\ \A d \in Calls \ {c} : pc'[d] = pc[d]
    BY <2>1 DEF TypeOK
  <2>5. RunOfNext(activeRuns[i], i)
    BY <2>2, RunOfStable DEF TypeInv, Known
  <2>6. CallMoves(c)
    BY <2>3, <2>4, <2>5 DEF CallMoves
  <2>7. Begins(c)
    BY <1>19, <2>1, <2>4, <2>6 DEF Abort, Idle, Begins, PreClaim, Unclaimed
  <2> QED
    BY <2>1, <2>7 DEF Shape
<1>20. ASSUME NEW c \in Calls, NEW r \in Runs, RecoverSelect(c, r) PROVE Shape
  <2>1. pc' = [pc EXCEPT ![c] = "recover"] /\ UNCHANGED activeRuns /\ StopKept
    BY <1>20 DEF RecoverSelect, memVars, StopKept
  <2>2. /\ ctx' = [ctx EXCEPT ![c] = [NoCtx EXCEPT !.issue = issueOf[r], !.run = r,
                                               !.retry = retries[r]]]
        /\ status[r] = "retriable"
    BY <1>20 DEF RecoverSelect
  <2>3. /\ ctx'[c].issue = issueOf[r] /\ ctx'[c].run = r
        /\ \A d \in Calls \ {c} : ctx'[d] = ctx[d]
    BY <2>2 DEF TypeOK, NoCtx
  <2>4. pc'[c] = "recover" /\ \A d \in Calls \ {c} : pc'[d] = pc[d]
    BY <2>1 DEF TypeOK
  <2>5. issueOf[r] \in Issues
    BY <2>2 DEF TypeInv, Known
  <2>6. RunOfNext(r, issueOf[r])
    <3>1. RunOf(r, issueOf[r])
      BY <2>2 DEF RunOf
    <3> QED
      BY <3>1, RunOfStable
  <2>7. CallMoves(c)
    BY <2>3, <2>4, <2>5, <2>6 DEF CallMoves
  <2>8. Begins(c)
    BY <1>20, <2>1, <2>3, <2>4, <2>7
       DEF RecoverSelect, Idle, Begins, PreClaim, Unclaimed
  <2> QED
    BY <2>1, <2>8 DEF Shape
<1>21. ASSUME NEW i \in Issues,
             ResumeActive(i) \/ Pause(i) \/ ClosePR(i)
      PROVE  Shape
  <2>1. UNCHANGED <<pc, ctx, activeRuns>> /\ StopKept
    BY <1>21 DEF ResumeActive, Pause, ClosePR, memVars, callVars, StopKept
  <2> QED
    BY <2>1 DEF Shape, Stays
<1>22. ASSUME NEW r \in Runs, NEW mode \in {"graceful", "cancel"}, RequestStop(r, mode)
      PROVE  Shape
  BY <1>22 DEF RequestStop, callVars, Shape, Stays, StopKept
<1>23. ASSUME NEW r \in Runs,
             \/ TerminateRun(r) \/ RecoverZombie(r) \/ Age(r)
             \/ BootRecover(r)
      PROVE  Shape
  <2>1. UNCHANGED <<pc, ctx, activeRuns>> /\ StopKept
    BY <1>23 DEF TerminateRun, RecoverZombie, Age, BootRecover, memVars,
       callVars, StopKept
  <2> QED
    BY <2>1 DEF Shape, Stays
<1>24. ASSUME HaltAll \/ SweepOrphans \/ BootDone
      PROVE  Shape
  <2>1. UNCHANGED <<pc, ctx, activeRuns>> /\ StopKept
    BY <1>24 DEF HaltAll, SweepOrphans, BootDone, memVars, callVars, StopKept
  <2> QED
    BY <2>1 DEF Shape, Stays
<1>25. ASSUME Crash PROVE Shape
  <2>1. Resets
    BY <1>25 DEF Crash, Resets
  <2>2. StopKept
    BY <1>25 DEF Crash, StopKept
  <2> QED
    BY <2>1, <2>2 DEF Shape
<1>26. ASSUME NEW i \in Issues, FeedbackCancelled(i) PROVE Shape
  BY <1>26 DEF FeedbackCancelled, callVars, Shape, Loses, StopKept
<1>27. CASE UNCHANGED vars
  BY <1>27 DEF vars, callVars, memVars, Shape, Stays, StopKept
<1> QED
  BY <1>1, <1>2, <1>3, <1>4, <1>5, <1>6, <1>7, <1>8, <1>9, <1>10, <1>11,
     <1>12, <1>13, <1>14, <1>15, <1>16, <1>17, <1>18, <1>19, <1>20, <1>21,
     <1>22, <1>23, <1>24, <1>25, <1>26, <1>27 DEF Next, Step

LEMMA KnownStep ==
  ASSUME TypeInv, Shape, [Next]_vars
  PROVE  Known' /\ AgentInRange'
<1>1. Kept
  BY RowsStep DEF TypeInv
<1>2. \A r \in Runs : status'[r] # "none" => issueOf'[r] \in Issues
  BY <1>1 DEF Kept
<1>3. ASSUME NEW c \in Calls, CallMoves(c),
             \A i \in Issues : activeRuns'[i] \in {activeRuns[i], NoRun}
                                 \/ RunOfNext(activeRuns'[i], i)
      PROVE  Known' /\ AgentInRange'
  <2>1. \A d \in Calls : pc'[d] # "idle" => ctx'[d].issue \in Issues
    BY <1>3 DEF TypeInv, Known, CallMoves
  <2>2. \A d \in Calls : pc'[d] \in WithRun => RunOfNext(ctx'[d].run, ctx'[d].issue)
    BY <1>1, <1>3, RunOfStable DEF TypeInv, Known, CallMoves
  <2>3. \A i \in Issues : activeRuns'[i] # NoRun => RunOfNext(activeRuns'[i], i)
    BY <1>1, <1>3, RunOfStable DEF TypeInv, Known
  <2>4. AgentInRange'
    BY <1>3 DEF TypeInv, AgentInRange, CallMoves
  <2>5. Known'
    BY <1>2, <2>1, <2>2, <2>3 DEF Known, RunOf, RunOfNext
  <2> QED
    BY <2>4, <2>5
<1>4. ASSUME NEW c \in Calls, GoOn(c) \/ Ends(c) \/ Begins(c)
      PROVE  Known' /\ AgentInRange'
  BY <1>3, <1>4 DEF GoOn, Ends, Begins, DropClaim, TypeInv, TypeOK
<1>5. ASSUME NEW c \in Calls, Claims(c)
      PROVE  Known' /\ AgentInRange'
  <2>1. RunOfNext(ctx'[c].run, ctx[c].issue) /\ CallMoves(c)
    BY <1>5 DEF Claims, CallMoves, WithRun, PCs, Claimed, Executing
  <2>2. \A i \in Issues : activeRuns'[i] = activeRuns[i] \/ RunOfNext(activeRuns'[i], i)
    BY <1>5, <2>1 DEF Claims, TypeInv, TypeOK
  <2> QED
    BY <1>3, <2>1, <2>2
<1>6. CASE Stays \/ Loses
  <2>1. \A d \in Calls : pc[d] \in WithRun => RunOfNext(ctx[d].run, ctx[d].issue)
    BY <1>1, RunOfStable DEF TypeInv, Known
  <2>2. \A i \in Issues : activeRuns[i] # NoRun => RunOfNext(activeRuns[i], i)
    BY <1>1, RunOfStable DEF TypeInv, Known
  <2>3. UNCHANGED <<pc, ctx>>
    BY <1>6 DEF Stays, Loses
  <2>4. \A i \in Issues : activeRuns'[i] \in {activeRuns[i], NoRun}
    BY <1>6 DEF Stays, Loses, DropClaim, TypeInv, TypeOK
  <2> QED
    BY <1>2, <2>1, <2>2, <2>3, <2>4
       DEF TypeInv, Known, AgentInRange, RunOf, RunOfNext
<1>7. CASE Resets
  BY <1>2, <1>7 DEF Resets, Known, AgentInRange, WithRun
<1> QED
  BY <1>4, <1>5, <1>6, <1>7 DEF Shape
-----------------------------------------------------------------------------
(* The types are preserved by every action.                                *)

LEMMA AgeType ==
  ASSUME age \in [Runs -> 0..2], NEW r \in Runs, Age(r)
  PROVE  age' \in [Runs -> 0..2]
<1>1. age[r] \in 0..2 /\ age' = [age EXCEPT ![r] = @ + 1]
  BY DEF Age
<1>2. age[r] < 2
  <2>1. CASE "zombie" \in Enabled
    BY <2>1 DEF Age
  <2>2. CASE "zombie" \notin Enabled
    BY <1>1, <2>2 DEF Age
  <2> QED
    BY <2>1, <2>2
<1>3. age[r] + 1 \in 0..2
  BY <1>1, <1>2
<1> QED
  BY <1>1, <1>3

LEMMA TypeStep ==
  ASSUME TypeInv, [Next]_vars
  PROVE  TypeOK'
<1> USE LenStages DEF TypeInv, TypeOK, Statuses, Terminal, PCs, PreClaim, Claimed,
    Aborting, Executing, rowVars, coordVars, memVars, callVars, hostVars, procVars
<1>1. ASSUME NEW c \in Calls, StartClassify(c)
      PROVE  TypeOK'
  BY <1>1, FinishType DEF StartClassify, Goto
<1>2. ASSUME NEW c \in Calls, StartInsert(c)
      PROVE  TypeOK'
  <2>1. PICK r \in Runs :
          /\ status' = [status EXCEPT ![r] = "queued"]
          /\ issueOf' = [issueOf EXCEPT ![r] = ctx[c].issue]
          /\ ctx' = [ctx EXCEPT ![c].run = r, ![c].fresh = TRUE]
    BY <1>2 DEF StartInsert, SetStatus
  <2>2. ctx' \in [Calls -> ContextType]
    BY <2>1, ContextFresh
  <2>3. ctx[c].issue \in Issues \cup {NoIssue}
    BY DEF ContextType
  <2>4. status' \in [Runs -> Statuses] /\ issueOf' \in [Runs -> Issues \cup {NoIssue}]
    BY <2>1, <2>3
  <2>5. /\ pc' = [pc EXCEPT ![c] = "claim"]
        /\ UNCHANGED <<index, retries, age, coordVars, memVars, hostVars, procVars>>
    BY <1>2 DEF StartInsert
  <2> QED
    BY <2>2, <2>4, <2>5
<1>3. ASSUME NEW c \in Calls, StartClaim(c)
      PROVE  TypeOK'
  <2>1. ctx[c].run \in Runs \cup {NoRun}
    BY DEF ContextType
  <2> QED
    BY <1>3, <2>1 DEF StartClaim, Goto
<1>4. ASSUME NEW c \in Calls, TickResume(c)
      PROVE  TypeOK'
  BY <1>4, FinishType DEF TickResume, SetStatus, Goto
<1>5. ASSUME NEW c \in Calls, ResumeSelect(c)
      PROVE  TypeOK'
  <2>1. status' \in [Runs -> Statuses]
    BY <1>5 DEF ResumeSelect, SetStatus
  <2>2. activeRuns' \in [Issues -> Runs \cup {NoRun}]
    BY <1>5 DEF ResumeSelect, DropClaim, Resumable
  <2>3. UNCHANGED <<issueOf, index, retries, age, coordVars, stop, hostVars, procVars>>
    BY <1>5 DEF ResumeSelect
  <2>4. pc' \in [Calls -> PCs] /\ ctx' \in [Calls -> ContextType]
    <3>1. CASE Finish(c)
      BY <3>1, FinishType
    <3>2. CASE ~Finish(c)
      <4>1. PICK r \in Runs :
              /\ index[r] # NoPayload
              /\ pc' = [pc EXCEPT ![c] = "access"]
              /\ ctx' = [ctx EXCEPT ![c].run = r, ![c].next = index[r] + 1,
                                    ![c].retry = retries[r]]
        BY <1>5, <3>2 DEF ResumeSelect, Resumable
      <4>2. index[r] + 1 \in 0..Len(Stages)
        BY <4>1 DEF Indexes, NoPayload
      <4>3. ctx' \in [Calls -> ContextType]
        BY <4>1, <4>2, ContextResumed
      <4> QED
        BY <4>1, <4>3
    <3> QED
      BY <3>1, <3>2
  <2> QED
    BY <2>1, <2>2, <2>3, <2>4
<1>6. ASSUME NEW c \in Calls, ResumeAccess(c)
      PROVE  TypeOK'
  BY <1>6, FinishType DEF ResumeAccess, SetStatus, Goto, DropClaim
<1>7. ASSUME NEW c \in Calls, JobBegin(c)
      PROVE  TypeOK'
  <2>1. ctx' \in [Calls -> ContextType] /\ pc' \in [Calls -> PCs]
    <3>1. CASE Finish(c)
      BY <3>1, FinishType
    <3>2. CASE ~Finish(c)
      <4>1. /\ pc' = [pc EXCEPT ![c] = IF ctx[c].fresh THEN "clone" ELSE "stage"]
            /\ ctx' = [ctx EXCEPT ![c].mem = "running"]
        BY <1>7, <3>2 DEF JobBegin
      <4> QED
        BY <4>1, ContextMem
    <3> QED
      BY <3>1, <3>2
  <2>2. status' \in [Runs -> Statuses]
    BY <1>7 DEF JobBegin, SetStatus
  <2>3. activeWork' \subseteq Runs
    <3>1. ctx[c].run \in Runs
      BY <1>7 DEF JobBegin, Known, RunOf, WithRun
    <3> QED
      BY <1>7, <3>1 DEF JobBegin
  <2>4. UNCHANGED <<issueOf, index, retries, age, stageOpen, memVars, hostVars,
                    procVars>>
    BY <1>7 DEF JobBegin
  <2> QED
    BY <2>1, <2>2, <2>3, <2>4
<1>8. ASSUME NEW c \in Calls, Clone(c)
      PROVE  TypeOK'
  <2>1. UNCHANGED <<coordVars, memVars, remote, openPR, procVars>>
    BY <1>8 DEF Clone
  <2>2. ctx[c].run \in Runs
    BY <1>8 DEF Clone, Known, RunOf, WithRun
  <2>3. worktree' \subseteq Runs
    BY <1>8, <2>2 DEF Clone
  <2>4. CASE FailPipeline(c, 0, FALSE, FALSE)
    <3>1. 0 \in 0..(Len(Stages) - 1)
      OBVIOUS
    <3>2. CallTypes'
      BY <2>4, <3>1, FailPipelineType
    <3> QED
      BY <2>1, <2>3, <3>2 DEF CallTypes
  <2>5. CASE Goto(c, "setup") /\ UNCHANGED rowVars
    BY <2>1, <2>3, <2>5 DEF Goto
  <2> QED
    BY <1>8, <2>4, <2>5 DEF Clone
<1>9. ASSUME NEW c \in Calls, Setup(c)
      PROVE  TypeOK'
  <2>1. CASE \E transient \in BOOLEAN : FailPipeline(c, ctx[c].last, TRUE, transient)
    <3>1. ctx[c].last \in 0..(Len(Stages) - 1)
      BY DEF ContextType
    <3>2. CallTypes'
      BY <2>1, <3>1, FailPipelineType
    <3>3. UNCHANGED <<coordVars, memVars, hostVars, procVars>>
      BY <1>9 DEF Setup
    <3> QED
      BY <3>2, <3>3 DEF CallTypes
  <2>2. CASE Goto(c, "stage") /\ index' = [index EXCEPT ![ctx[c].run] = -1]
             /\ UNCHANGED <<status, issueOf, retries, age>>
    <3>1. -1 \in Indexes
      BY DEF Indexes, NoPayload
    <3>2. index' \in [Runs -> Indexes]
      BY <2>2, <3>1
    <3> QED
      BY <1>9, <2>2, <3>2 DEF Setup, Goto
  <2> QED
    BY <1>9, <2>1, <2>2 DEF Setup
<1>10. ASSUME NEW c \in Calls, StageStop(c)
      PROVE  TypeOK'
  <2>1. ctx' \in [Calls -> ContextType]
    BY <1>10, ContextMem DEF StageStop
  <2> QED
    BY <1>10, <2>1 DEF StageStop, SetStatus, More
<1>11. ASSUME NEW c \in Calls, Cancelled(c)
      PROVE  TypeOK'
  BY <1>11 DEF Cancelled, Goto, DropClaim
<1>12. ASSUME NEW c \in Calls, StageAwait(c)
      PROVE  TypeOK'
  <2>1. ctx' \in [Calls -> ContextType]
    BY <1>12, ContextMem DEF StageAwait
  <2>2. index' \in [Runs -> Indexes]
    <3>1. ctx[c].next \in Indexes
      BY <1>12 DEF StageAwait, More, Indexes, NoPayload, ContextType
    <3> QED
      BY <1>12, <3>1 DEF StageAwait
  <2>3. /\ status' = [status EXCEPT ![ctx[c].run] = "paused"]
        /\ pc' = [pc EXCEPT ![c] = "cleanup"]
        /\ UNCHANGED <<issueOf, retries, age, coordVars, memVars, hostVars, procVars>>
    BY <1>12 DEF StageAwait, SetStatus
  <2> QED
    BY <2>1, <2>2, <2>3
<1>13. ASSUME NEW c \in Calls, StageStart(c)
      PROVE  TypeOK'
  <2>1. ctx' \in [Calls -> ContextType]
    BY <1>13, ContextLast DEF StageStart, More
  <2>2. stageOpen' \in [Runs -> SUBSET (Calls \cup {Orphan})]
    BY <1>13 DEF StageStart
  <2>3. activeWork' \subseteq Runs
    <3>1. ctx[c].run \in Runs
      BY <1>13 DEF StageStart, Known, RunOf, WithRun
    <3> QED
      BY <1>13, <3>1 DEF StageStart
  <2>4. /\ pc' = [pc EXCEPT ![c] = "agent"]
        /\ UNCHANGED <<rowVars, memVars, hostVars, procVars>>
    BY <1>13 DEF StageStart
  <2> QED
    BY <2>1, <2>2, <2>3, <2>4
<1>14. ASSUME NEW c \in Calls, StageDone(c)
      PROVE  TypeOK'
  <2>1. ctx' \in [Calls -> ContextType]
    <3>1. ctx[c].next < Len(Stages)
      BY <1>14 DEF StageDone, AgentInRange
    <3> QED
      BY <1>14, <3>1, ContextNext DEF StageDone
  <2> QED
    BY <1>14, <2>1 DEF StageDone, CloseStage
<1>15. ASSUME NEW c \in Calls, StageFail(c)
      PROVE  TypeOK'
  <2>1. ctx[c].next \in 0..(Len(Stages) - 1)
    BY <1>15 DEF StageFail, AgentInRange, ContextType
  <2>2. PICK transient \in BOOLEAN : FailPipeline(c, ctx[c].next, TRUE, transient)
    BY <1>15 DEF StageFail
  <2>3. stageOpen' \in [Runs -> SUBSET (Calls \cup {Orphan})]
    BY <1>15 DEF StageFail, CloseStage
  <2>4. UNCHANGED <<activeWork, memVars, hostVars, procVars>>
    BY <1>15 DEF StageFail
  <2>5. CallTypes'
    BY <2>1, <2>2, FailPipelineType
  <2> QED
    BY <2>3, <2>4, <2>5 DEF CallTypes
<1>16. ASSUME NEW c \in Calls, LoopDone(c)
      PROVE  TypeOK'
  BY <1>16 DEF LoopDone, Goto, More
<1>17. ASSUME NEW c \in Calls, FixDone(c)
      PROVE  TypeOK'
  <2>1. stageOpen' \in [Runs -> SUBSET (Calls \cup {Orphan})]
    BY <1>17 DEF FixDone, CloseStage
  <2>2. UNCHANGED <<activeWork, memVars, hostVars, procVars>>
    BY <1>17 DEF FixDone
  <2>3. CASE Goto(c, "finish") /\ UNCHANGED rowVars
    BY <2>1, <2>2, <2>3 DEF Goto
  <2>4. CASE \E k \in 0..(Len(Stages) - 1), transient \in BOOLEAN :
               FailPipeline(c, k, TRUE, transient)
    <3>1. CallTypes'
      BY <2>4, FailPipelineType
    <3> QED
      BY <2>1, <2>2, <3>1 DEF CallTypes
  <2> QED
    BY <1>17, <2>3, <2>4 DEF FixDone
<1>18. ASSUME NEW c \in Calls, Push(c)
      PROVE  TypeOK'
  <2>1. CASE \E transient \in BOOLEAN : FailPipeline(c, ctx[c].last, TRUE, transient)
    <3>1. ctx[c].last \in 0..(Len(Stages) - 1)
      BY DEF ContextType
    <3>2. CallTypes'
      BY <2>1, <3>1, FailPipelineType
    <3>3. ctx[c].issue \in Issues
      BY <1>18 DEF Push, Known
    <3>4. remote' \subseteq Issues /\ openPR' \subseteq Issues /\ worktree' = worktree
      BY <1>18, <3>3 DEF Push
    <3>5. UNCHANGED <<coordVars, memVars, procVars>>
      BY <1>18 DEF Push
    <3> QED
      BY <3>2, <3>4, <3>5 DEF CallTypes
  <2>2. CASE Goto(c, "pushed") /\ UNCHANGED <<rowVars, worktree>>
    <3>1. ctx[c].issue \in Issues
      BY <1>18 DEF Push, Known
    <3>2. remote' \subseteq Issues /\ openPR' \subseteq Issues
      BY <1>18, <3>1 DEF Push
    <3>3. UNCHANGED <<coordVars, memVars, procVars>>
      BY <1>18 DEF Push
    <3> QED
      BY <2>2, <3>2, <3>3 DEF Goto
  <2> QED
    BY <1>18, <2>1, <2>2 DEF Push
<1>19. ASSUME NEW c \in Calls, Complete(c)
      PROVE  TypeOK'
  <2>1. ctx' \in [Calls -> ContextType]
    BY <1>19, ContextMem DEF Complete
  <2> QED
    BY <1>19, <2>1 DEF Complete, SetStatus
<1>20. ASSUME NEW c \in Calls, CloseRows(c)
      PROVE  TypeOK'
  BY <1>20 DEF CloseRows, Goto
<1>21. ASSUME NEW c \in Calls, Cleanup(c)
      PROVE  TypeOK'
  BY <1>21 DEF Cleanup, Goto
<1>22. ASSUME NEW c \in Calls, Release(c)
      PROVE  TypeOK'
  BY <1>22, FinishType DEF Release, DropClaim
<1>23. ASSUME NEW c \in Calls, AbortRow(c)
      PROVE  TypeOK'
  BY <1>23 DEF AbortRow, SetStatus, Goto
<1>24. ASSUME NEW c \in Calls, AbortUnclaim(c)
      PROVE  TypeOK'
  BY <1>24, FinishType DEF AbortUnclaim, DropClaim
<1>25. ASSUME NEW c \in Calls, RecoverMark(c)
      PROVE  TypeOK'
  <2>1. pc' \in [Calls -> PCs] /\ ctx' \in [Calls -> ContextType]
    BY <1>25, FinishType DEF RecoverMark, Goto
  <2>2. status' \in [Runs -> Statuses]
    BY <1>25 DEF RecoverMark, SetStatus
  <2> QED
    BY <1>25, <2>1, <2>2 DEF RecoverMark
<1>26. ASSUME NEW c \in Calls, StageAgain(c)
      PROVE  TypeOK'
  BY <1>26 DEF StageAgain
<1>27. ASSUME NEW c \in Calls, FixStart(c)
      PROVE  TypeOK'
  BY <1>27 DEF FixStart, Goto
<1>28. ASSUME NEW c \in Calls, NEW i \in Issues, Start(c, i)
      PROVE  TypeOK'
  <2>1. ctx' \in [Calls -> ContextType]
    BY <1>28, StartContext, NewContext DEF Start
  <2> QED
    BY <1>28, <2>1 DEF Start
<1>29. ASSUME NEW c \in Calls, NEW i \in Issues, Resume(c, i)
      PROVE  TypeOK'
  <2>1. ctx' \in [Calls -> ContextType]
    BY <1>29, StartContext, NewContext DEF Resume
  <2> QED
    BY <1>29, <2>1 DEF Resume
<1>30. ASSUME NEW c \in Calls, NEW i \in Issues, Abort(c, i)
      PROVE  TypeOK'
  <2>1. activeRuns[i] \in Runs
    BY <1>30 DEF Abort
  <2>2. ctx' \in [Calls -> ContextType]
    BY <1>30, <2>1, RunContext, NewContext DEF Abort
  <2> QED
    BY <1>30, <2>2 DEF Abort
<1>31. ASSUME NEW c \in Calls, NEW r \in Runs, RecoverSelect(c, r)
      PROVE  TypeOK'
  <2>1. ctx' \in [Calls -> ContextType]
    BY <1>31, RunContext, NewContext DEF RecoverSelect
  <2> QED
    BY <1>31, <2>1 DEF RecoverSelect
<1>32. ASSUME NEW i \in Issues, ResumeActive(i)
      PROVE  TypeOK'
  BY <1>32 DEF ResumeActive, SetStatus
<1>33. ASSUME NEW i \in Issues, Pause(i)
      PROVE  TypeOK'
  BY <1>33 DEF Pause, SetStatus
<1>34. ASSUME NEW i \in Issues, ClosePR(i) \/ FeedbackCancelled(i)
      PROVE  TypeOK'
  BY <1>34 DEF ClosePR, FeedbackCancelled, DropClaim
<1>35. ASSUME NEW r \in Runs, NEW mode \in {"graceful", "cancel"}, RequestStop(r, mode)
      PROVE  TypeOK'
  BY <1>35 DEF RequestStop, Stronger
<1>36. ASSUME NEW r \in Runs, TerminateRun(r)
      PROVE  TypeOK'
  BY <1>36 DEF TerminateRun, SetStatus
<1>37. ASSUME NEW r \in Runs, RecoverZombie(r)
      PROVE  TypeOK'
  BY <1>37 DEF RecoverZombie, SetStatus
<1>38. ASSUME NEW r \in Runs, Age(r)
      PROVE  TypeOK'
  <2>1. age' \in [Runs -> 0..2]
    BY <1>38, AgeType
  <2>2. UNCHANGED <<status, issueOf, index, retries, coordVars, memVars, callVars,
                    hostVars, procVars>>
    BY <1>38 DEF Age
  <2> QED
    BY <2>1, <2>2
<1>39. ASSUME NEW r \in Runs, BootRecover(r)
      PROVE  TypeOK'
  BY <1>39 DEF BootRecover, SetStatus
<1>40. ASSUME HaltAll PROVE TypeOK'
  BY <1>40 DEF HaltAll, Stronger
<1>41. ASSUME SweepOrphans PROVE TypeOK'
  BY <1>41 DEF SweepOrphans
<1>42. ASSUME Crash PROVE TypeOK'
  <2>1. ctx' \in [Calls -> ContextType]
    BY <1>42, StartContext DEF Crash
  <2>2. activeRuns' \in [Issues -> Runs \cup {NoRun}]
    BY <1>42 DEF Crash
  <2>3. stageOpen' \in [Runs -> SUBSET (Calls \cup {Orphan})]
    BY <1>42 DEF Crash
  <2>4. worktree' \subseteq Runs
    BY <1>42 DEF Crash
  <2>5. crashes' \in Nat
    BY <1>42 DEF Crash
  <2> QED
    BY <1>42, <2>1, <2>2, <2>3, <2>4, <2>5 DEF Crash
<1>43. ASSUME BootDone PROVE TypeOK'
  BY <1>43 DEF BootDone
<1>44. CASE UNCHANGED vars
  BY <1>44 DEF vars
<1> QED
  BY <1>1, <1>2, <1>3, <1>4, <1>5, <1>6, <1>7, <1>8, <1>9, <1>10, <1>11,
     <1>12, <1>13, <1>14, <1>15, <1>16, <1>17, <1>18, <1>19, <1>20, <1>21,
     <1>22, <1>23, <1>24, <1>25, <1>26, <1>27, <1>28, <1>29, <1>30, <1>31,
     <1>32, <1>33, <1>34, <1>35, <1>36, <1>37, <1>38, <1>39, <1>40, <1>41,
     <1>42, <1>43, <1>44 DEF Next, Step
-----------------------------------------------------------------------------
(* The types.                                                              *)

LEMMA InitTypeInv == Init => TypeInv
<1> SUFFICES ASSUME Init PROVE TypeInv
  OBVIOUS
<1>1. TypeOK
  <2>1. NoCtx \in ContextType
    BY LenStages DEF NoCtx, ContextType, NoRun, Statuses
  <2>2. NoPayload \in Indexes
    BY LenStages DEF NoPayload, Indexes
  <2> QED
    BY <2>1, <2>2 DEF Init, TypeOK, Statuses, PCs
<1>2. AgentInRange /\ Known
  BY DEF Init, AgentInRange, Known, WithRun
<1> QED
  BY <1>1, <1>2 DEF TypeInv

LEMMA TypeInvStep == TypeInv /\ [Next]_vars => TypeInv'
<1> SUFFICES ASSUME TypeInv, [Next]_vars PROVE TypeInv'
  OBVIOUS
<1>1. TypeOK'
  BY TypeStep
<1>2. Known' /\ AgentInRange'
  BY StepShape, KnownStep
<1> QED
  BY <1>1, <1>2 DEF TypeInv

LEMMA TypeInvAlways == Spec => []TypeInv
  BY InitTypeInv, TypeInvStep, PTL DEF Spec

(***************************************************************************)
(* In every environment each variable keeps its type: in particular the    *)
(* index of a resume payload and the next stage of a call stay within the  *)
(* list of stages, so that a resumed run never indexes past its stages,    *)
(* and a claim always names a row.                                         *)
(***************************************************************************)
THEOREM TypeCorrect == Spec => []TypeOK
<1>1. TypeInv => TypeOK
  BY DEF TypeInv
<1> QED
  BY <1>1, TypeInvAlways, PTL

-----------------------------------------------------------------------------
(* The retry count.                                                        *)

\* A step leaves a retry count as it was, or writes one within the limit.
RetriesMove == \A r \in Runs :
    retries'[r] = retries[r] \/ retries'[r] <= MaxTransientRetries

LEMMA FailPipelineRetries ==
  ASSUME TypeOK, NEW c \in Calls, NEW k, NEW context, NEW transient,
         FailPipeline(c, k, context, transient)
  PROVE  RetriesMove
<1>1. ctx[c].retry \in Nat /\ MaxTransientRetries \in Nat
  BY RunnerAssumption DEF TypeOK, ContextType
<1>2. CASE UNCHANGED retries
  BY <1>2 DEF RetriesMove
<1>3. CASE /\ ctx[c].retry < MaxTransientRetries
           /\ retries' = [retries EXCEPT ![ctx[c].run] = ctx[c].retry + 1]
  <2>1. ctx[c].retry + 1 <= MaxTransientRetries
    BY <1>1, <1>3
  <2> QED
    BY <1>3, <2>1 DEF RetriesMove, TypeOK
<1> QED
  BY <1>2, <1>3 DEF FailPipeline

LEMMA RetriesStep ==
  ASSUME TypeOK, [Next]_vars
  PROVE  RetriesMove
<1>1. ASSUME NEW c \in Calls,
             \/ StartClassify(c) \/ StartInsert(c) \/ StartClaim(c)
             \/ TickResume(c) \/ ResumeSelect(c) \/ ResumeAccess(c)
             \/ JobBegin(c) \/ StageStop(c) \/ Cancelled(c) \/ StageAwait(c)
             \/ StageStart(c) \/ StageDone(c) \/ LoopDone(c) \/ Complete(c)
             \/ CloseRows(c) \/ Cleanup(c) \/ Release(c) \/ AbortRow(c)
             \/ AbortUnclaim(c) \/ RecoverMark(c) \/ StageAgain(c)
             \/ FixStart(c)
      PROVE  RetriesMove
  BY <1>1 DEF StartClassify, StartInsert, StartClaim, TickResume, ResumeSelect,
     ResumeAccess, JobBegin, StageStop, Cancelled, StageAwait, StageStart,
     StageDone, LoopDone, Complete, CloseRows, Cleanup, Release, AbortRow,
     AbortUnclaim, RecoverMark, StageAgain, FixStart, rowVars, RetriesMove
<1>2. ASSUME NEW c \in Calls,
             Clone(c) \/ Setup(c) \/ StageFail(c) \/ FixDone(c) \/ Push(c)
      PROVE  RetriesMove
  <2>1. CASE UNCHANGED retries
    BY <2>1 DEF RetriesMove
  <2>2. CASE \E k, context, transient : FailPipeline(c, k, context, transient)
    BY <2>2, FailPipelineRetries
  <2> QED
    BY <1>2, <2>1, <2>2 DEF Clone, Setup, StageFail, FixDone, Push, rowVars
<1>3. ASSUME NEW c \in Calls, NEW i \in Issues,
             Start(c, i) \/ Resume(c, i) \/ Abort(c, i)
      PROVE  RetriesMove
  BY <1>3 DEF Start, Resume, Abort, rowVars, RetriesMove
<1>4. ASSUME NEW c \in Calls, NEW r \in Runs, RecoverSelect(c, r)
      PROVE  RetriesMove
  BY <1>4 DEF RecoverSelect, rowVars, RetriesMove
<1>5. ASSUME NEW i \in Issues,
             ResumeActive(i) \/ Pause(i) \/ ClosePR(i) \/ FeedbackCancelled(i)
      PROVE  RetriesMove
  BY <1>5 DEF ResumeActive, Pause, ClosePR, FeedbackCancelled, rowVars, RetriesMove
<1>6. ASSUME NEW r \in Runs, NEW mode \in {"graceful", "cancel"}, RequestStop(r, mode)
      PROVE  RetriesMove
  BY <1>6 DEF RequestStop, rowVars, RetriesMove
<1>7. ASSUME NEW r \in Runs,
             \/ TerminateRun(r) \/ RecoverZombie(r) \/ Age(r)
             \/ BootRecover(r)
      PROVE  RetriesMove
  BY <1>7 DEF TerminateRun, RecoverZombie, Age, BootRecover, rowVars,
     RetriesMove
<1>8. ASSUME HaltAll \/ SweepOrphans \/ Crash \/ BootDone
      PROVE  RetriesMove
  BY <1>8 DEF HaltAll, SweepOrphans, Crash, BootDone, rowVars, RetriesMove
<1>9. CASE UNCHANGED vars
  BY <1>9 DEF vars, rowVars, RetriesMove
<1> QED
  BY <1>1, <1>2, <1>3, <1>4, <1>5, <1>6, <1>7, <1>8, <1>9 DEF Next, Step

(***************************************************************************)
(* RetriesBounded: a run is made retriable at most MAX_TRANSIENT_RETRIES   *)
(* times in every environment, duplicate executions included, because      *)
(* failPipeline compares the very count it is about to increase.           *)
(***************************************************************************)
THEOREM RetriesAlwaysBounded == Spec => []RetriesBounded
<1>1. Init => RetriesBounded
  BY RunnerAssumption DEF Init, RetriesBounded
<1>2. TypeInv /\ RetriesBounded /\ [Next]_vars => RetriesBounded'
  BY RetriesStep DEF RetriesBounded, RetriesMove, TypeInv
<1> QED
  BY <1>1, <1>2, TypeInvAlways, PTL DEF Spec

-----------------------------------------------------------------------------
(* Claims.                                                                 *)

\* Call c holds the claim of issue i.
Holds(c, i) == pc[c] \in Claimed /\ ctx[c].issue = i /\ ctx[c].run = activeRuns[i]

LEMMA ClaimStep ==
  ASSUME TypeInv, ClaimHeld, [Next]_vars
  PROVE  ClaimHeld'
<1>0. Shape
  BY StepShape
<1> SUFFICES ASSUME NEW i \in Issues, activeRuns'[i] # NoRun
             PROVE  \E c \in Calls : /\ pc'[c] \in Claimed
                                     /\ ctx'[c].issue = i
                                     /\ ctx'[c].run = activeRuns'[i]
  BY DEF ClaimHeld
<1>1. CASE activeRuns'[i] = activeRuns[i]
  <2>1. PICK d \in Calls : Holds(d, i)
    BY <1>1 DEF ClaimHeld, Holds
  <2>2. ASSUME NEW c \in Calls, CallMoves(c), c # d
        PROVE  pc'[d] = pc[d] /\ ctx'[d] = ctx[d]
    BY <2>2 DEF CallMoves
  <2>3. ASSUME NEW c \in Calls, GoOn(c)
        PROVE  /\ pc'[d] \in Claimed
               /\ ctx'[d].issue = ctx[d].issue /\ ctx'[d].run = ctx[d].run
    BY <2>1, <2>2, <2>3 DEF GoOn, Holds
  <2>4. ASSUME NEW c \in Calls, Ends(c)
        PROVE  pc'[d] = pc[d] /\ ctx'[d] = ctx[d]
    BY <1>1, <2>1, <2>2, <2>4 DEF Ends, Holds
  <2>5. ASSUME NEW c \in Calls, Claims(c) \/ Begins(c)
        PROVE  pc'[d] = pc[d] /\ ctx'[d] = ctx[d]
    BY <2>1, <2>2, <2>5 DEF Claims, Begins, Holds, Claimed, Executing
  <2>6. CASE Stays \/ Loses
    BY <1>1, <2>1, <2>6 DEF Stays, Loses, Holds
  <2>7. CASE Resets
    BY <2>7 DEF Resets
  <2> QED
    BY <1>0, <1>1, <2>1, <2>3, <2>4, <2>5, <2>6, <2>7 DEF Shape, Holds
<1>2. CASE activeRuns'[i] # activeRuns[i]
  <2>1. PICK c \in Calls : Claims(c)
    BY <1>0, <1>2 DEF Shape, GoOn, Ends, Begins, Stays, Loses, Resets,
                      DropClaim, TypeInv, TypeOK
  <2>2. ctx[c].issue = i /\ activeRuns'[i] = ctx'[c].run
    BY <1>2, <2>1 DEF Claims, TypeInv, TypeOK
  <2> QED
    BY <2>1, <2>2 DEF Claims
<1> QED
  BY <1>1, <1>2

(***************************************************************************)
(* ClaimHeld: no entry of activeRuns is ever leaked, in any environment:   *)
(* the call that made it, or one that claimed the same run, is in flight   *)
(* and its finally block will remove it.                                   *)
(***************************************************************************)
THEOREM ClaimAlwaysHeld == Spec => []ClaimHeld
<1>1. Init => ClaimHeld
  BY DEF Init, ClaimHeld
<1>2. TypeInv /\ ClaimHeld /\ [Next]_vars => ClaimHeld'
  BY ClaimStep
<1> QED
  BY <1>1, <1>2, TypeInvAlways, PTL DEF Spec

-----------------------------------------------------------------------------
(* Rows and issues that no call works for.                                 *)

\* No call in flight works for row r; for issue i.
AtRest(r) == \A c \in Calls : pc[c] # "idle" => ctx[c].run # r
Absent(i) == \A c \in Calls : pc[c] # "idle" => ctx[c].issue # i

\* What may become of a row at rest: it is inserted, resumed, recovered at boot
\* or by the tick, or terminated.
RestNext(s) ==
    CASE s = "none"                    -> {"queued"}
      [] s \in {"queued", "running"}   -> {"retriable", "failed"}
      [] s = "retriable"               -> {"paused", "failed"}
      [] s \in {"paused", "cancelled"} -> {"failed"}
      [] OTHER                         -> {}

RestMoves(r) == status'[r] = status[r] \/ status'[r] \in RestNext(status[r])

RestingRows == [][\A r \in Runs : AtRest(r) => RestMoves(r)]_vars

LEMMA OtherRow ==
  ASSUME TypeOK, NEW r \in Runs, NEW q, q # r, NEW s, SetStatus(q, s)
  PROVE  RestMoves(r)
  BY DEF SetStatus, RestMoves, TypeOK

LEMMA SameRows ==
  ASSUME UNCHANGED status, NEW r \in Runs
  PROVE  RestMoves(r)
  BY DEF RestMoves

LEMMA RestingStep ==
  ASSUME TypeInv, ClaimHeld, [Next]_vars, NEW r \in Runs, AtRest(r)
  PROVE  RestMoves(r)
<1> USE DEF rowVars
<1>0. TypeOK
  BY DEF TypeInv
<1>1. ASSUME NEW c \in Calls,
             \/ StartClassify(c) \/ StartClaim(c) \/ Cancelled(c)
             \/ StageStart(c) \/ StageDone(c) \/ LoopDone(c) \/ CloseRows(c)
             \/ Cleanup(c) \/ Release(c) \/ AbortUnclaim(c)
             \/ StageAgain(c) \/ FixStart(c)
      PROVE  RestMoves(r)
  BY <1>1, SameRows DEF StartClassify, StartClaim, Cancelled, StageStart, StageDone,
     LoopDone, CloseRows, Cleanup, Release, AbortUnclaim, StageAgain, FixStart
<1>2. ASSUME NEW c \in Calls, StartInsert(c) PROVE RestMoves(r)
  <2>1. PICK q \in Runs : status[q] = "none" /\ SetStatus(q, "queued")
    BY <1>2 DEF StartInsert
  <2> QED
    BY <1>0, <2>1, OtherRow DEF SetStatus, RestMoves, RestNext, TypeOK
<1>3. ASSUME NEW c \in Calls,
             \/ ResumeAccess(c) \/ JobBegin(c) \/ StageStop(c) \/ StageAwait(c)
             \/ Complete(c) \/ AbortRow(c) \/ RecoverMark(c)
      PROVE  RestMoves(r)
  <2>1. ctx[c].run # r
    BY <1>3 DEF AtRest, ResumeAccess, JobBegin, StageStop, StageAwait, Complete,
       AbortRow, RecoverMark
  <2>2. UNCHANGED status \/ \E s : SetStatus(ctx[c].run, s)
    BY <1>3 DEF ResumeAccess, JobBegin, StageStop, StageAwait, Complete, AbortRow,
       RecoverMark
  <2> QED
    BY <1>0, <2>1, <2>2, OtherRow, SameRows
<1>4. ASSUME NEW c \in Calls,
             Clone(c) \/ Setup(c) \/ StageFail(c) \/ FixDone(c) \/ Push(c)
      PROVE  RestMoves(r)
  <2>1. ctx[c].run # r
    BY <1>4 DEF AtRest, Clone, Setup, StageFail, FixDone, Push
  <2>2. CASE UNCHANGED status
    BY <2>2, SameRows
  <2>3. CASE \E k, context, transient : FailPipeline(c, k, context, transient)
    BY <1>0, <2>1, <2>3, FailPipelineRows, OtherRow
  <2> QED
    BY <1>4, <2>2, <2>3 DEF Clone, Setup, StageFail, FixDone, Push
<1>5. ASSUME NEW c \in Calls, ResumeSelect(c) PROVE RestMoves(r)
  <2>1. CASE UNCHANGED status
    BY <2>1, SameRows
  <2>2. CASE \E q \in Resumable(ctx[c].issue), s \in {"failed", "paused"} :
               SetStatus(q, s)
    <3>1. PICK q \in Runs, s \in {"failed", "paused"} :
            status[q] \in {"paused", "retriable"} /\ SetStatus(q, s)
      BY <2>2 DEF Resumable
    <3> QED
      BY <1>0, <3>1, OtherRow DEF SetStatus, RestMoves, RestNext, TypeOK
  <2> QED
    BY <1>5, <2>1, <2>2 DEF ResumeSelect
\* The row of a claim is not at rest.
<1>6. ASSUME NEW i \in Issues, activeRuns[i] # NoRun, NEW s, SetStatus(activeRuns[i], s)
      PROVE  RestMoves(r)
  <2>1. PICK c \in Calls : pc[c] \in Claimed /\ ctx[c].run = activeRuns[i]
    BY <1>6 DEF ClaimHeld
  <2>2. pc[c] # "idle"
    BY <2>1 DEF Claimed, Executing
  <2> QED
    BY <1>0, <1>6, <2>1, <2>2, OtherRow DEF AtRest
<1>7. ASSUME NEW c \in Calls, TickResume(c) PROVE RestMoves(r)
  <2>1. ctx[c].issue \in Issues
    BY <1>7 DEF TickResume, TypeInv, Known
  <2>2. \/ UNCHANGED status
        \/ activeRuns[ctx[c].issue] # NoRun /\ SetStatus(activeRuns[ctx[c].issue], "running")
    BY <1>7 DEF TickResume
  <2> QED
    BY <1>6, <2>1, <2>2, SameRows
<1>8. ASSUME NEW i \in Issues, ResumeActive(i) \/ Pause(i) PROVE RestMoves(r)
  BY <1>6, <1>8 DEF ResumeActive, Pause
<1>9. ASSUME NEW c \in Calls, NEW i \in Issues,
             Start(c, i) \/ Resume(c, i) \/ Abort(c, i)
      PROVE  RestMoves(r)
  BY <1>9, SameRows DEF Start, Resume, Abort
<1>10. ASSUME NEW c \in Calls, NEW q \in Runs, RecoverSelect(c, q) PROVE RestMoves(r)
  BY <1>10, SameRows DEF RecoverSelect
<1>11. ASSUME NEW i \in Issues, ClosePR(i) \/ FeedbackCancelled(i) PROVE RestMoves(r)
  BY <1>11, SameRows DEF ClosePR, FeedbackCancelled
<1>12. ASSUME NEW q \in Runs, NEW mode \in {"graceful", "cancel"}, RequestStop(q, mode)
      PROVE  RestMoves(r)
  BY <1>12, SameRows DEF RequestStop
<1>13. ASSUME NEW q \in Runs, TerminateRun(q) PROVE RestMoves(r)
  <2>1. status[q] \notin {"none", "completed", "aborted"} /\ SetStatus(q, "failed")
    BY <1>13 DEF TerminateRun
  <2> QED
    BY <1>0, <2>1, OtherRow
       DEF SetStatus, RestMoves, RestNext, TypeOK, Statuses, Terminal
<1>14. ASSUME NEW q \in Runs, RecoverZombie(q) \/ BootRecover(q) PROVE RestMoves(r)
  <2>1. status[q] \in {"running", "queued"}
    BY <1>14 DEF RecoverZombie, BootRecover, Interrupted
  <2>2. SetStatus(q, "failed") \/ SetStatus(q, "retriable")
    BY <1>14 DEF RecoverZombie, BootRecover
  <2> QED
    BY <1>0, <2>1, <2>2, OtherRow DEF SetStatus, RestMoves, RestNext, TypeOK
<1>15. ASSUME NEW q \in Runs, Age(q) PROVE RestMoves(r)
  BY <1>15, SameRows DEF Age
<1>16. ASSUME HaltAll \/ SweepOrphans \/ Crash \/ BootDone PROVE RestMoves(r)
  BY <1>16, SameRows DEF HaltAll, SweepOrphans, Crash, BootDone
<1>17. CASE UNCHANGED vars
  BY <1>17, SameRows DEF vars
<1> QED
  BY <1>1, <1>2, <1>3, <1>4, <1>5, <1>7, <1>8, <1>9, <1>10, <1>11, <1>12, <1>13,
     <1>14, <1>15, <1>16, <1>17 DEF Next, Step

(***************************************************************************)
(* RestingRows: in every environment (overlapping calls, operators who     *)
(* overwrite rows, zombie recovery, crashes) a row no call works for keeps *)
(* to a life cycle of its own.  A completed or aborted run stays what it   *)
(* is, a failed one stays failed, and a cancelled one is changed only by   *)
(* `ura admin terminate`: whatever else rewrites a finished row (resume,   *)
(* pause and abort do not look at its status) is a call for that very row, *)
(* or found it in activeRuns while such a call was still in flight.        *)
(***************************************************************************)
THEOREM RestingRowsKept == Spec => RestingRows
<1>1. TypeInv /\ ClaimHeld /\ [Next]_vars
        => [\A r \in Runs : AtRest(r) => RestMoves(r)]_vars
  BY RestingStep
<1> QED
  BY <1>1, TypeInvAlways, ClaimAlwaysHeld, PTL DEF Spec, RestingRows

-----------------------------------------------------------------------------
(* Issues that no call works for.                                          *)

\* What belongs to issue i: its claim, its branch and its worktrees.
Untouched(i) ==
    /\ activeRuns'[i] = NoRun
    /\ (i \in remote' <=> i \in remote) \/ i \in openPR \ openPR'
    /\ i \in openPR' => i \in openPR
    /\ \/ phase' = "booting"
       \/ \A r \in Runs : issueOf[r] = i => (r \in worktree' <=> r \in worktree)

IssuesApart == [][\A i \in Issues : Absent(i) => Untouched(i)]_vars

LEMMA AbsentUnclaimed ==
  ASSUME TypeInv, ClaimHeld, [Next]_vars, NEW i \in Issues, Absent(i)
  PROVE  activeRuns'[i] = NoRun
<1>1. activeRuns[i] = NoRun
  BY DEF Absent, ClaimHeld, Claimed, Executing
<1>2. SUFFICES ASSUME activeRuns'[i] # activeRuns[i] PROVE FALSE
  BY <1>1
<1>3. Shape
  BY StepShape
<1>4. PICK c \in Calls : Claims(c)
  BY <1>3, <1>1, <1>2 DEF Shape, GoOn, Ends, Begins, Stays, Loses, Resets, DropClaim,
     TypeInv, TypeOK
<1>5. ctx[c].issue = i /\ pc[c] # "idle"
  BY <1>2, <1>4 DEF Claims, TypeInv, TypeOK, Unclaimed
<1> QED
  BY <1>5 DEF Absent

\* A step that leaves branch, pull request and worktrees of the issue.
LEMMA HostKept ==
  ASSUME UNCHANGED hostVars, NEW i \in Issues, activeRuns'[i] = NoRun
  PROVE  Untouched(i)
  BY DEF hostVars, Untouched

LEMMA ApartStep ==
  ASSUME TypeInv, ClaimHeld, [Next]_vars, NEW i \in Issues, Absent(i)
  PROVE  Untouched(i)
<1>0. activeRuns'[i] = NoRun
  BY AbsentUnclaimed
<1>1. ASSUME NEW c \in Calls, StartClassify(c) PROVE Untouched(i)
  <2>1. ctx[c].issue # i
    BY <1>1 DEF Absent, StartClassify
  <2> QED
    BY <1>0, <1>1, <2>1 DEF StartClassify, Untouched, hostVars
<1>2. ASSUME NEW c \in Calls, Push(c) PROVE Untouched(i)
  <2>1. ctx[c].issue # i
    BY <1>2 DEF Absent, Push
  <2> QED
    BY <1>0, <1>2, <2>1 DEF Push, Untouched, hostVars
\* The worktrees a call removes or makes are those of its own issue.
<1>3. ASSUME NEW c \in Calls, Clone(c) \/ Cleanup(c) PROVE Untouched(i)
  <2>1. pc[c] \in {"clone", "cleanup"}
    BY <1>3 DEF Clone, Cleanup
  <2>2. ctx[c].issue # i /\ issueOf[ctx[c].run] = ctx[c].issue
    BY <2>1 DEF Absent, TypeInv, Known, RunOf, WithRun, PCs, Claimed, Executing, PreClaim
  <2>3. UNCHANGED <<remote, openPR>>
    BY <1>3 DEF Clone, Cleanup
  <2>4. ASSUME NEW r \in Runs, issueOf[r] = i PROVE r \in worktree' <=> r \in worktree
    <3>1. r # ctx[c].run /\ r \notin Siblings(c)
      BY <2>2, <2>4 DEF Siblings
    <3> QED
      BY <1>3, <3>1 DEF Clone, Cleanup
  <2> QED
    BY <1>0, <2>3, <2>4 DEF Untouched
<1>4. ASSUME NEW c \in Calls,
             \/ StartInsert(c) \/ StartClaim(c) \/ TickResume(c) \/ ResumeSelect(c)
             \/ ResumeAccess(c) \/ JobBegin(c) \/ Setup(c) \/ StageStop(c)
             \/ Cancelled(c) \/ StageAwait(c) \/ StageStart(c) \/ StageDone(c)
             \/ StageFail(c) \/ LoopDone(c) \/ FixDone(c) \/ Complete(c)
             \/ CloseRows(c) \/ Release(c) \/ AbortRow(c) \/ AbortUnclaim(c)
             \/ RecoverMark(c) \/ StageAgain(c) \/ FixStart(c)
      PROVE  Untouched(i)
  BY <1>0, <1>4, HostKept DEF StartInsert, StartClaim, TickResume, ResumeSelect,
     ResumeAccess, JobBegin, Setup, StageStop, Cancelled, StageAwait, StageStart,
     StageDone, StageFail, LoopDone, FixDone, Complete, CloseRows, Release, AbortRow,
     AbortUnclaim, RecoverMark, StageAgain, FixStart
<1>5. ASSUME NEW c \in Calls, NEW j \in Issues,
             Start(c, j) \/ Resume(c, j) \/ Abort(c, j)
      PROVE  Untouched(i)
  BY <1>0, <1>5, HostKept DEF Start, Resume, Abort
<1>6. ASSUME NEW c \in Calls, NEW r \in Runs, RecoverSelect(c, r) PROVE Untouched(i)
  BY <1>0, <1>6, HostKept DEF RecoverSelect
<1>7. ASSUME NEW j \in Issues, ResumeActive(j) \/ Pause(j) \/ FeedbackCancelled(j)
      PROVE  Untouched(i)
  BY <1>0, <1>7, HostKept DEF ResumeActive, Pause, FeedbackCancelled
<1>8. ASSUME NEW j \in Issues, ClosePR(j) PROVE Untouched(i)
  BY <1>0, <1>8 DEF ClosePR, Untouched
<1>9. ASSUME NEW r \in Runs, NEW mode \in {"graceful", "cancel"}, RequestStop(r, mode)
      PROVE  Untouched(i)
  BY <1>0, <1>9, HostKept DEF RequestStop
<1>10. ASSUME NEW r \in Runs,
              TerminateRun(r) \/ RecoverZombie(r) \/ Age(r) \/ BootRecover(r)
       PROVE  Untouched(i)
  BY <1>0, <1>10, HostKept DEF TerminateRun, RecoverZombie, Age, BootRecover
<1>11. ASSUME HaltAll \/ SweepOrphans \/ BootDone PROVE Untouched(i)
  BY <1>0, <1>11, HostKept DEF HaltAll, SweepOrphans, BootDone
<1>12. CASE Crash
  BY <1>0, <1>12 DEF Crash, Untouched
<1>13. CASE UNCHANGED vars
  BY <1>0, <1>13, HostKept DEF vars
<1> QED
  BY <1>1, <1>2, <1>3, <1>4, <1>5, <1>6, <1>7, <1>8, <1>9, <1>10, <1>11, <1>12, <1>13
     DEF Next, Step

(***************************************************************************)
(* IssuesApart: in every environment, what belongs to an issue no call     *)
(* works for is let alone by the calls for other issues: its claim stays   *)
(* free, its branch changes only as its pull request is closed, its        *)
(* worktrees go only with the disk.  Removal of stale worktrees, the late  *)
(* finally of an overwritten run and an abort reach no further than the    *)
(* issue they are for.                                                     *)
(***************************************************************************)
THEOREM IssuesKeptApart == Spec => IssuesApart
<1>1. TypeInv /\ ClaimHeld /\ [Next]_vars
        => [\A i \in Issues : Absent(i) => Untouched(i)]_vars
  BY ApartStep
<1> QED
  BY <1>1, TypeInvAlways, ClaimAlwaysHeld, PTL DEF Spec, IssuesApart

-----------------------------------------------------------------------------
(* Stage rows.                                                             *)

\* Of the calls, only c moves.
OnlyMoves(c) == \A d \in Calls \ {c} : pc'[d] = pc[d] /\ ctx'[d] = ctx[d]

\* A step opens no stage row.
OpensNone == \A r \in Runs : stageOpen'[r] \subseteq stageOpen[r]

\* The stage rows that call c leaves running are those of its present pass.
Owned(c) == \A r \in Runs :
    c \in stageOpen'[r] \ {Orphan} => pc'[c] \in {"agent", "fix"} /\ ctx'[c].run = r

LEMMA MoveOwned ==
  ASSUME TypeOK, StageRowsOwned, NEW c \in Calls, OnlyMoves(c), Owned(c),
         \A r \in Runs : stageOpen'[r] \ {c} \subseteq stageOpen[r]
  PROVE  StageRowsOwned'
  BY DEF TypeOK, StageRowsOwned, OnlyMoves, Owned

LEMMA ElsewhereOwned ==
  ASSUME TypeOK, StageRowsOwned, NEW c \in Calls, OnlyMoves(c), OpensNone,
         pc[c] \notin {"agent", "fix"}
  PROVE  StageRowsOwned'
<1>1. Owned(c)
  BY DEF StageRowsOwned, Owned, OpensNone
<1> QED
  BY <1>1, MoveOwned DEF OpensNone

LEMMA StayOwned ==
  ASSUME TypeOK, StageRowsOwned, UNCHANGED callVars, OpensNone
  PROVE  StageRowsOwned'
  BY DEF StageRowsOwned, OpensNone, callVars

\* The executor closes the row it opened.
LEMMA CloseOwned ==
  ASSUME TypeOK, StageRowsOwned, NEW c \in Calls, OnlyMoves(c), CloseStage(c),
         pc[c] \in {"agent", "fix"}
  PROVE  StageRowsOwned'
<1>1. \A r \in Runs : stageOpen'[r] \ {c} \subseteq stageOpen[r]
  BY DEF CloseStage, TypeOK
<1>2. \A r \in Runs : c \notin stageOpen'[r] \ {Orphan}
  BY DEF CloseStage, StageRowsOwned, TypeOK
<1> QED
  BY <1>1, <1>2, MoveOwned DEF Owned

\* A pass that begins opens its row.
LEMMA OpenOwned ==
  ASSUME TypeOK, StageRowsOwned, NEW c \in Calls, OnlyMoves(c),
         pc'[c] \in {"agent", "fix"}, ctx'[c].run = ctx[c].run,
         stageOpen' = [stageOpen EXCEPT ![ctx[c].run] = @ \cup {c}]
  PROVE  StageRowsOwned'
<1>1. \A r \in Runs : stageOpen'[r] \ {c} \subseteq stageOpen[r]
  BY DEF TypeOK
<1>2. \A r \in Runs : c \in stageOpen'[r] \ {Orphan} => ctx'[c].run = r
  BY DEF StageRowsOwned, TypeOK
<1> QED
  BY <1>1, <1>2, MoveOwned DEF Owned

LEMMA FinishMoves ==
  ASSUME TypeOK, NEW c \in Calls, Finish(c)
  PROVE  OnlyMoves(c)
  BY DEF TypeOK, Finish, OnlyMoves

LEMMA GotoMoves ==
  ASSUME TypeOK, NEW c \in Calls, NEW p, Goto(c, p)
  PROVE  OnlyMoves(c)
  BY DEF TypeOK, Goto, OnlyMoves

LEMMA FailPipelineMoves ==
  ASSUME TypeOK, NEW c \in Calls, NEW k, NEW context, NEW transient,
         FailPipeline(c, k, context, transient)
  PROVE  OnlyMoves(c)
  BY DEF TypeOK, FailPipeline, OnlyMoves

\* Every step that a call takes moves that call only.
CallStep(c) ==
    \/ Step(c) \/ FixStart(c) \/ StageAgain(c)
    \/ \E i \in Issues : Start(c, i) \/ Resume(c, i) \/ Abort(c, i)
    \/ \E r \in Runs : RecoverSelect(c, r)

LEMMA StepMoves ==
  ASSUME TypeOK, NEW c \in Calls, CallStep(c)
  PROVE  OnlyMoves(c)
<1>1. ASSUME \/ StartClassify(c) \/ StartClaim(c) \/ TickResume(c) \/ ResumeAccess(c)
             \/ Cancelled(c) \/ LoopDone(c) \/ CloseRows(c) \/ Cleanup(c)
             \/ Release(c) \/ AbortRow(c) \/ AbortUnclaim(c) \/ RecoverMark(c)
             \/ FixStart(c)
      PROVE  OnlyMoves(c)
  BY <1>1, FinishMoves, GotoMoves
     DEF StartClassify, StartClaim, TickResume, ResumeAccess, Cancelled, LoopDone,
         CloseRows, Cleanup, Release, AbortRow, AbortUnclaim, RecoverMark, FixStart
<1>2. ASSUME Clone(c) \/ Setup(c) \/ StageFail(c) \/ FixDone(c) \/ Push(c)
      PROVE  OnlyMoves(c)
  BY <1>2, GotoMoves, FailPipelineMoves DEF Clone, Setup, StageFail, FixDone, Push
<1>3. ASSUME \/ StageStop(c) \/ StageAwait(c) \/ StageStart(c) \/ StageDone(c)
             \/ Complete(c) \/ StageAgain(c) \/ StartInsert(c) \/ ResumeSelect(c)
             \/ JobBegin(c)
      PROVE  OnlyMoves(c)
  <2>1. CASE Finish(c)
    BY <2>1, FinishMoves
  <2>2. CASE StageStop(c) \/ StageAwait(c) \/ StageStart(c) \/ StageDone(c)
    BY <2>2 DEF StageStop, StageAwait, StageStart, StageDone, OnlyMoves, TypeOK
  <2>3. CASE Complete(c) \/ StageAgain(c) \/ StartInsert(c)
    BY <2>3 DEF Complete, StageAgain, StartInsert, callVars, OnlyMoves, TypeOK
  <2>4. CASE ~Finish(c) /\ (ResumeSelect(c) \/ JobBegin(c))
    <3>1. \E p, k : pc' = [pc EXCEPT ![c] = p] /\ ctx' = [ctx EXCEPT ![c] = k]
      BY <2>4 DEF ResumeSelect, JobBegin
    <3> QED
      BY <3>1 DEF OnlyMoves, TypeOK
  <2> QED
    BY <1>3, <2>1, <2>2, <2>3, <2>4
<1>4. ASSUME \/ \E i \in Issues : Start(c, i) \/ Resume(c, i) \/ Abort(c, i)
             \/ \E r \in Runs : RecoverSelect(c, r)
      PROVE  OnlyMoves(c)
  BY <1>4 DEF Start, Resume, Abort, RecoverSelect, OnlyMoves, TypeOK
<1> QED
  BY <1>1, <1>2, <1>3, <1>4 DEF CallStep, Step

LEMMA StageRowsStep ==
  ASSUME TypeInv, StageRowsOwned, [Next]_vars
  PROVE  StageRowsOwned'
<1>0. TypeOK
  BY DEF TypeInv
<1> USE <1>0
<1>1. ASSUME NEW c \in Calls,
             \/ StartClassify(c) \/ StartInsert(c) \/ StartClaim(c)
             \/ TickResume(c) \/ ResumeSelect(c) \/ ResumeAccess(c)
             \/ JobBegin(c) \/ Clone(c) \/ Setup(c) \/ StageStop(c)
             \/ Cancelled(c) \/ StageAwait(c) \/ LoopDone(c) \/ Push(c)
             \/ Complete(c) \/ CloseRows(c) \/ Cleanup(c) \/ Release(c)
             \/ AbortRow(c) \/ AbortUnclaim(c) \/ RecoverMark(c)
      PROVE  StageRowsOwned'
  <2>1. OnlyMoves(c)
    BY <1>1, StepMoves DEF CallStep, Step
  <2>2. OpensNone /\ pc[c] \notin {"agent", "fix"}
    BY <1>1 DEF StartClassify, StartInsert, StartClaim, TickResume,
       ResumeSelect, ResumeAccess, JobBegin, Clone, Setup, StageStop, Cancelled,
       StageAwait, LoopDone, Push, Complete, CloseRows, Cleanup, Release,
       AbortRow, AbortUnclaim, RecoverMark, coordVars, OpensNone, TypeOK
  <2> QED
    BY <2>1, <2>2, ElsewhereOwned
<1>2. ASSUME NEW c \in Calls, StageStart(c) PROVE StageRowsOwned'
  <2>1. OnlyMoves(c) /\ pc'[c] = "agent"
    BY <1>2, StepMoves DEF CallStep, Step, StageStart, TypeOK
  <2>2. ctx'[c].run = ctx[c].run
    BY <1>2 DEF StageStart, TypeOK, ContextType
  <2>3. stageOpen' = [stageOpen EXCEPT ![ctx[c].run] = stageOpen[ctx[c].run] \cup {c}]
    BY <1>2 DEF StageStart
  <2> QED
    BY <2>1, <2>2, <2>3, OpenOwned
<1>3. ASSUME NEW c \in Calls,
             StageDone(c) \/ StageFail(c) \/ FixDone(c)
      PROVE  StageRowsOwned'
  <2>1. OnlyMoves(c)
    BY <1>3, StepMoves DEF CallStep, Step
  <2>2. CloseStage(c) /\ pc[c] \in {"agent", "fix"}
    BY <1>3 DEF StageDone, StageFail, FixDone
  <2> QED
    BY <2>1, <2>2, CloseOwned
<1>4. ASSUME NEW c \in Calls, StageAgain(c) PROVE StageRowsOwned'
  <2>1. OnlyMoves(c) /\ pc'[c] = "agent" /\ ctx'[c].run = ctx[c].run
    BY <1>4, StepMoves DEF CallStep, StageAgain, callVars
  <2>2. stageOpen' = [stageOpen EXCEPT ![ctx[c].run] = stageOpen[ctx[c].run] \cup {c}]
    BY <1>4 DEF StageAgain
  <2> QED
    BY <2>1, <2>2, OpenOwned
<1>5. ASSUME NEW c \in Calls, FixStart(c) PROVE StageRowsOwned'
  <2>1. OnlyMoves(c) /\ pc'[c] = "fix" /\ ctx'[c].run = ctx[c].run
    BY <1>5, StepMoves DEF CallStep, FixStart, Goto, TypeOK
  <2>2. stageOpen' = [stageOpen EXCEPT ![ctx[c].run] = stageOpen[ctx[c].run] \cup {c}]
    BY <1>5 DEF FixStart
  <2> QED
    BY <2>1, <2>2, OpenOwned
<1>6. ASSUME NEW c \in Calls, NEW i \in Issues,
             Start(c, i) \/ Resume(c, i) \/ Abort(c, i)
      PROVE  StageRowsOwned'
  <2>1. OnlyMoves(c)
    BY <1>6, StepMoves DEF CallStep, Step
  <2>2. OpensNone /\ pc[c] \notin {"agent", "fix"}
    BY <1>6 DEF Start, Resume, Abort, coordVars, OpensNone, TypeOK, Idle
  <2> QED
    BY <2>1, <2>2, ElsewhereOwned
<1>7. ASSUME NEW c \in Calls, NEW r \in Runs,
             RecoverSelect(c, r)
      PROVE  StageRowsOwned'
  <2>1. OnlyMoves(c)
    BY <1>7, StepMoves DEF CallStep, Step
  <2>2. OpensNone /\ pc[c] \notin {"agent", "fix"}
    BY <1>7 DEF RecoverSelect, coordVars, OpensNone, TypeOK, Idle
  <2> QED
    BY <2>1, <2>2, ElsewhereOwned
<1>8. ASSUME NEW i \in Issues,
             ResumeActive(i) \/ Pause(i) \/ ClosePR(i) \/ FeedbackCancelled(i)
      PROVE  StageRowsOwned'
  <2>1. UNCHANGED callVars /\ OpensNone
    BY <1>8 DEF ResumeActive, Pause, ClosePR, FeedbackCancelled, coordVars, callVars, OpensNone,
       TypeOK
  <2> QED
    BY <2>1, StayOwned
<1>9. ASSUME NEW r \in Runs, NEW mode \in {"graceful", "cancel"},
             RequestStop(r, mode)
      PROVE  StageRowsOwned'
  <2>1. UNCHANGED callVars /\ OpensNone
    BY <1>9 DEF RequestStop, coordVars, callVars, OpensNone, TypeOK
  <2> QED
    BY <2>1, StayOwned
<1>10. ASSUME NEW r \in Runs,
             \/ TerminateRun(r) \/ RecoverZombie(r) \/ Age(r)
             \/ BootRecover(r)
      PROVE  StageRowsOwned'
  <2>1. UNCHANGED callVars /\ OpensNone
    BY <1>10 DEF TerminateRun, RecoverZombie, Age, BootRecover, coordVars,
       callVars, OpensNone, TypeOK
  <2> QED
    BY <2>1, StayOwned
<1>11. ASSUME HaltAll \/ SweepOrphans \/ BootDone
      PROVE  StageRowsOwned'
  <2>1. UNCHANGED callVars /\ OpensNone
    BY <1>11 DEF HaltAll, SweepOrphans, BootDone, coordVars, callVars,
       OpensNone, TypeOK
  <2> QED
    BY <2>1, StayOwned
<1>12. ASSUME Crash PROVE StageRowsOwned'
  <2>1. \A r \in Runs : stageOpen'[r] \subseteq {Orphan}
    BY <1>12 DEF Crash
  <2> QED
    BY <2>1 DEF StageRowsOwned
<1>13. CASE UNCHANGED vars
  BY <1>13 DEF vars, coordVars, callVars, StageRowsOwned
<1> QED
  BY <1>1, <1>2, <1>3, <1>4, <1>5, <1>6, <1>7, <1>8, <1>9, <1>10, <1>11,
     <1>12, <1>13 DEF Next, Step

(***************************************************************************)
(* StageRowsOwned: in every environment a stage row in status running is   *)
(* that of a pass now executing for its run, or of a dead process: every   *)
(* exit of a stage, and every kind of end of a run, closes its rows.       *)
(***************************************************************************)
THEOREM StageRowsAlwaysOwned == Spec => []StageRowsOwned
<1>1. Init => StageRowsOwned
  BY DEF Init, StageRowsOwned
<1>2. TypeInv /\ StageRowsOwned /\ [Next]_vars => StageRowsOwned'
  BY StageRowsStep
<1> QED
  BY <1>1, <1>2, TypeInvAlways, PTL DEF Spec

-----------------------------------------------------------------------------
(* Exclusion: when calls for one issue are serial up to the claim and      *)
(* nobody aborts or stops a run.                                           *)

Serial == ~OverlappingCalls /\ "abort" \notin Enabled /\ "stop" \notin Enabled

\* Two calls that have claimed one issue are the same call.
OneClaimed == \A c, d \in Calls :
    pc[c] \in Claimed /\ pc[d] \in Claimed /\ ctx[c].issue = ctx[d].issue => c = d

\* A call that has found its issue free and has not claimed it yet finds it
\* still free.
StillFree == \A c \in Calls :
    pc[c] \in Unclaimed => activeRuns[ctx[c].issue] = NoRun

NoneAborting == \A c \in Calls : pc[c] \notin Aborting \cup {"cancelling"}
NoneStopped == \A r \in Runs : stop[r] = "none"

Exclusive == /\ ClaimExclusive /\ OneClaimed /\ OneUnclaimed
             /\ StillFree /\ NoneAborting /\ NoneStopped

\* Only call c moves, and it keeps its issue and its run.
LEMMA CallMovesOnly ==
  ASSUME NEW c \in Calls, CallMoves(c)
  PROVE  \A d \in Calls \ {c} : pc'[d] = pc[d] /\ ctx'[d] = ctx[d]
  BY DEF CallMoves

\* A claim names a run of the issue.
LEMMA ClaimedRun ==
  ASSUME TypeInv, NEW c \in Calls, pc[c] \in Claimed
  PROVE  ctx[c].run \in Runs /\ ctx[c].run # NoRun /\ ctx[c].issue \in Issues
<1>1. pc[c] \in WithRun /\ pc[c] # "idle"
  BY DEF WithRun, PCs, Claimed, Executing
<1>2. ctx[c].run \in Runs /\ ctx[c].issue \in Issues
  BY <1>1 DEF TypeInv, Known, RunOf
<1> QED
  BY <1>2, RunnerAssumption DEF Runs, NoRun

LEMMA GoOnExclusive ==
  ASSUME TypeInv, Exclusive, NEW c \in Calls, GoOn(c), NoneStopped'
  PROVE  Exclusive'
<1>1. \A d \in Calls \ {c} : pc'[d] = pc[d] /\ ctx'[d] = ctx[d]
  BY CallMovesOnly DEF GoOn
<1>2. pc[c] # "cancelling" /\ UNCHANGED activeRuns
  BY DEF GoOn, Exclusive, NoneAborting
<1>3. pc'[c] \in Claimed => activeRuns[ctx[c].issue] = ctx'[c].run
  BY DEF GoOn, Exclusive, ClaimExclusive
<1>4. ClaimExclusive'
  BY <1>1, <1>2, <1>3 DEF GoOn, Exclusive, ClaimExclusive
<1>5. OneClaimed' /\ OneUnclaimed'
  BY <1>1 DEF GoOn, Exclusive, OneClaimed, OneUnclaimed
<1>6. StillFree'
  BY <1>1, <1>2 DEF GoOn, Exclusive, StillFree
<1>7. NoneAborting'
  <2>1. pc'[c] # "cancelling"
    <3>1. pc'[c] = "cancelling" => pc[c] \in Claimed /\ stop[ctx[c].run] # "none"
      BY DEF GoOn, Claimed, Executing
    <3> QED
      BY <3>1, ClaimedRun DEF Exclusive, NoneStopped
  <2> QED
    BY <1>1, <2>1 DEF GoOn, Exclusive, NoneAborting
<1> QED
  BY <1>4, <1>5, <1>6, <1>7 DEF Exclusive

LEMMA EndsExclusive ==
  ASSUME TypeInv, Exclusive, NEW c \in Calls, Ends(c), NoneStopped'
  PROVE  Exclusive'
<1>1. /\ \A d \in Calls \ {c} : pc'[d] = pc[d] /\ ctx'[d] = ctx[d]
      /\ pc'[c] = "idle" /\ pc[c] # "idle"
  BY CallMovesOnly DEF Ends
<1>2. "idle" \notin Claimed \cup PreClaim \cup Unclaimed \cup Aborting
  BY DEF Claimed, Executing, PreClaim, Unclaimed, Aborting
<1>3. UNCHANGED activeRuns \/ DropClaim(ctx[c].issue)
  BY DEF Ends
<1>4. \A d \in Calls : pc[d] \in Claimed /\ d # c =>
         activeRuns'[ctx[d].issue] = activeRuns[ctx[d].issue]
  <2> SUFFICES ASSUME NEW d \in Calls, pc[d] \in Claimed, d # c,
                      DropClaim(ctx[c].issue)
               PROVE  activeRuns'[ctx[d].issue] = activeRuns[ctx[d].issue]
    BY <1>3
  <2>1. CASE ctx[d].issue # ctx[c].issue
    BY <2>1, ClaimedRun DEF DropClaim, TypeInv, TypeOK
  <2>2. CASE ctx[d].issue = ctx[c].issue
    <3>1. pc[c] \notin Claimed
      BY <2>2 DEF Exclusive, OneClaimed
    <3>2. pc[c] = "select" \/ UNCHANGED activeRuns
      BY <3>1 DEF Ends, Exclusive, NoneAborting
    <3>3. pc[c] = "select" => activeRuns[ctx[c].issue] = NoRun
      BY DEF Exclusive, StillFree, Unclaimed
    <3> QED
      BY <2>2, <3>2, <3>3, ClaimedRun DEF DropClaim, TypeInv, TypeOK
  <2> QED
    BY <2>1, <2>2
<1>5. ClaimExclusive'
  BY <1>1, <1>2, <1>4 DEF Exclusive, ClaimExclusive
<1>6. OneClaimed' /\ OneUnclaimed' /\ NoneAborting'
  BY <1>1, <1>2 DEF Exclusive, OneClaimed, OneUnclaimed, NoneAborting
<1>7. StillFree'
  <2>1. \A i \in Issues : activeRuns[i] = NoRun => activeRuns'[i] = NoRun
    BY <1>3 DEF DropClaim, TypeInv, TypeOK
  <2>2. \A d \in Calls : pc[d] \in Unclaimed => ctx[d].issue \in Issues
    BY DEF TypeInv, Known, Unclaimed
  <2> QED
    BY <1>1, <1>2, <2>1, <2>2 DEF Exclusive, StillFree
<1> QED
  BY <1>5, <1>6, <1>7 DEF Exclusive

LEMMA ClaimsExclusive ==
  ASSUME TypeInv, Exclusive, NEW c \in Calls, Claims(c), NoneStopped'
  PROVE  Exclusive'
<1>1. \A d \in Calls \ {c} : pc'[d] = pc[d] /\ ctx'[d] = ctx[d]
  BY CallMovesOnly DEF Claims
<1>2. /\ pc[c] \in Unclaimed /\ pc[c] \in PreClaim
      /\ pc'[c] \notin PreClaim \cup Unclaimed \cup Aborting \cup {"cancelling"}
  BY DEF Claims, Unclaimed, PreClaim, Claimed, Executing, Aborting
<1>3. activeRuns[ctx[c].issue] = NoRun /\ ctx[c].issue \in Issues
  BY <1>2 DEF Exclusive, StillFree, TypeInv, Known, PreClaim
<1>4. \A d \in Calls : pc[d] \in Claimed => ctx[d].issue # ctx[c].issue
  BY <1>3, ClaimedRun DEF Exclusive, ClaimExclusive
<1>5. \A i \in Issues : activeRuns'[i] =
         IF i = ctx[c].issue THEN ctx'[c].run ELSE activeRuns[i]
  BY DEF Claims, TypeInv, TypeOK
<1>6. ClaimExclusive'
  <2>1. ASSUME NEW d \in Calls, d # c, pc'[d] \in Claimed
        PROVE  activeRuns'[ctx'[d].issue] = ctx'[d].run
    BY <1>1, <1>4, <1>5, <2>1, ClaimedRun DEF Exclusive, ClaimExclusive
  <2>2. activeRuns'[ctx'[c].issue] = ctx'[c].run
    BY <1>3, <1>5 DEF Claims
  <2> QED
    BY <2>1, <2>2 DEF ClaimExclusive
<1>7. OneClaimed'
  <2>1. \A d \in Calls \ {c} : pc'[d] \in Claimed => ctx'[d].issue # ctx'[c].issue
    BY <1>1, <1>4 DEF Claims
  <2> QED
    BY <1>1, <2>1 DEF Exclusive, OneClaimed
<1>8. OneUnclaimed' /\ NoneAborting'
  BY <1>1, <1>2 DEF Exclusive, OneUnclaimed, NoneAborting
<1>9. StillFree'
  <2>1. \A d \in Calls \ {c} : pc[d] \in Unclaimed =>
           ctx[d].issue # ctx[c].issue
    <3>1. \A d \in Calls : pc[d] \in Unclaimed \ PreClaim => FALSE
      BY DEF Unclaimed, PreClaim
    <3> QED
      BY <1>2, <3>1 DEF Exclusive, OneUnclaimed
  <2>2. \A d \in Calls : pc[d] \in Unclaimed => ctx[d].issue \in Issues
    BY DEF TypeInv, Known, Unclaimed
  <2> QED
    BY <1>1, <1>2, <1>5, <2>1, <2>2 DEF Exclusive, StillFree
<1> QED
  BY <1>6, <1>7, <1>8, <1>9 DEF Exclusive

LEMMA BeginsExclusive ==
  ASSUME Serial, TypeInv, Exclusive, NEW c \in Calls, Begins(c), NoneStopped'
  PROVE  Exclusive'
<1>1. \A d \in Calls \ {c} : pc'[d] = pc[d] /\ ctx'[d] = ctx[d]
  BY CallMovesOnly DEF Begins
<1>2. pc'[c] \in PreClaim /\ pc'[c] \notin Claimed \cup Aborting /\ UNCHANGED activeRuns
  BY DEF Begins, Serial, PreClaim, Claimed, Executing, Aborting
<1>3. \A d \in Calls : pc[d] \in PreClaim => ctx[d].issue # ctx'[c].issue
  BY <1>2 DEF Begins, MayCall, Serial
<1>4. ClaimExclusive' /\ OneClaimed'
  BY <1>1, <1>2 DEF Exclusive, ClaimExclusive, OneClaimed
<1>5. OneUnclaimed'
  BY <1>1, <1>2, <1>3 DEF Exclusive, OneUnclaimed
<1>6. StillFree'
  BY <1>1, <1>2 DEF Begins, Exclusive, StillFree
<1>7. NoneAborting'
  BY <1>1, <1>2 DEF Exclusive, NoneAborting, PreClaim
<1> QED
  BY <1>4, <1>5, <1>6, <1>7 DEF Exclusive

LEMMA ExclusiveStep ==
  ASSUME Serial, TypeInv, Exclusive, [Next]_vars
  PROVE  Exclusive'
<1>0. Shape
  BY StepShape
<1>1. NoneStopped'
  BY <1>0 DEF Shape, StopKept, Serial, Exclusive, NoneStopped
<1>2. CASE \E c \in Calls : GoOn(c) \/ Ends(c) \/ Claims(c) \/ Begins(c)
  BY <1>1, <1>2, GoOnExclusive, EndsExclusive, ClaimsExclusive, BeginsExclusive
<1>3. CASE Stays
  BY <1>1, <1>3 DEF Stays, Exclusive, ClaimExclusive, OneClaimed, OneUnclaimed,
                    StillFree, NoneAborting
<1>4. CASE Resets
  <2>1. "idle" \notin Claimed \cup PreClaim \cup Unclaimed \cup Aborting
    BY DEF Claimed, Executing, PreClaim, Unclaimed, Aborting
  <2> QED
    BY <1>1, <1>4, <2>1 DEF Resets, Exclusive, ClaimExclusive, OneClaimed,
                            OneUnclaimed, StillFree, NoneAborting
<1> QED
  BY <1>0, <1>2, <1>3, <1>4 DEF Shape, Loses, Serial

LEMMA ExclusiveAlways ==
  ASSUME Serial
  PROVE  Spec => []Exclusive
<1>1. Init => Exclusive
  BY DEF Init, Exclusive, ClaimExclusive, OneClaimed, OneUnclaimed, StillFree,
         NoneAborting, NoneStopped, Claimed, Executing, PreClaim, Unclaimed, Aborting
<1>2. TypeInv /\ Exclusive /\ [Next]_vars => Exclusive'
  BY ExclusiveStep
<1> QED
  BY <1>1, <1>2, TypeInvAlways, PTL DEF Spec

(***************************************************************************)
(* ClaimExclusive: as long as calls for one issue do not overlap before    *)
(* the claim and nobody aborts or stops a run, the entry of activeRuns is  *)
(* that of the one call that works for the issue, from its claim to the    *)
(* end of its job, so that two executions never share a branch.            *)
(***************************************************************************)
THEOREM ClaimsAlwaysExclusive ==
  ASSUME Serial
  PROVE  Spec => []ClaimExclusive
<1>1. Exclusive => ClaimExclusive
  BY DEF Exclusive
<1> QED
  BY <1>1, ExclusiveAlways, PTL

-----------------------------------------------------------------------------
(* Worktrees, in the same environments.                                    *)

\* The places of WorktreeKept.
Working == {"setup", "stage", "agent", "finish", "fix"}

\* A call that works in its worktree, or is queued to, has it on disk.
HasWorktree(c) ==
    /\ pc[c] \in Working => ctx[c].run \in worktree
    /\ pc[c] = "queued" /\ ~ctx[c].fresh => ctx[c].run \in worktree
    /\ pc[c] = "claim" => ctx[c].fresh

Ready == \A c \in Calls : HasWorktree(c)

\* HasWorktree in the next state.
WillHaveWorktree(c) ==
    /\ pc'[c] \in Working => ctx'[c].run \in worktree'
    /\ pc'[c] = "queued" /\ ~ctx'[c].fresh => ctx'[c].run \in worktree'
    /\ pc'[c] = "claim" => ctx'[c].fresh

LEMMA MoveReady ==
  ASSUME Ready, NEW c \in Calls, OnlyMoves(c), worktree \subseteq worktree',
         WillHaveWorktree(c)
  PROVE  Ready'
  BY DEF Ready, HasWorktree, OnlyMoves, WillHaveWorktree

\* A call that leaves for a place without a worktree.
LEMMA LeaveReady ==
  ASSUME Ready, NEW c \in Calls, OnlyMoves(c), UNCHANGED worktree,
         pc'[c] \notin Working \cup {"queued", "claim"}
  PROVE  Ready'
  BY MoveReady DEF WillHaveWorktree

\* A call that goes on in its worktree.
LEMMA WorkReady ==
  ASSUME Ready, NEW c \in Calls, OnlyMoves(c), UNCHANGED worktree,
         pc[c] \in Working, ctx'[c].run = ctx[c].run,
         pc'[c] \notin {"queued", "claim"}
  PROVE  Ready'
<1>1. WillHaveWorktree(c)
  BY DEF WillHaveWorktree, Ready, HasWorktree
<1> QED
  BY <1>1, MoveReady

\* A worktree is removed by a claimed call of its own issue only, so every
\* other claimed call keeps its own.
LEMMA SiblingsReady ==
  ASSUME TypeInv, OneClaimed, Ready, NEW c \in Calls, OnlyMoves(c),
         pc[c] \in Claimed,
         \A r \in worktree \ worktree' : issueOf[r] = ctx[c].issue,
         WillHaveWorktree(c)
  PROVE  Ready'
<1>1. ASSUME NEW d \in Calls \ {c}, pc[d] \in Claimed, ctx[d].run \in worktree
      PROVE  ctx[d].run \in worktree'
  <2>1. ctx[d].issue # ctx[c].issue
    BY <1>1 DEF OneClaimed
  <2>2. RunOf(ctx[d].run, ctx[d].issue)
    BY <1>1 DEF TypeInv, Known, WithRun, PCs, Claimed, Executing
  <2> QED
    BY <1>1, <2>1, <2>2 DEF RunOf
<1>2. Working \cup {"queued"} \subseteq Claimed
  BY DEF Working, Claimed, Executing
<1>3. \A d \in Calls \ {c} : WillHaveWorktree(d)
  BY <1>1, <1>2 DEF Ready, HasWorktree, WillHaveWorktree, OnlyMoves
<1> QED
  BY <1>3 DEF Ready, HasWorktree, WillHaveWorktree

LEMMA FailPipelineLeaves ==
  ASSUME TypeOK, NEW c \in Calls, NEW k, NEW context, NEW transient,
         FailPipeline(c, k, context, transient)
  PROVE  pc'[c] \in {"cleanup", "ending"}
  BY DEF TypeOK, FailPipeline

LEMMA ReadyStep ==
  ASSUME TypeInv, OneClaimed, Ready, [Next]_vars
  PROVE  Ready'
<1>0. TypeOK
  BY DEF TypeInv
<1> USE <1>0
<1>1. ASSUME NEW c \in Calls,
             \/ StartClassify(c) \/ TickResume(c) \/ ResumeSelect(c)
             \/ Cancelled(c) \/ CloseRows(c) \/ Release(c) \/ AbortRow(c)
             \/ AbortUnclaim(c) \/ RecoverMark(c) \/ StageStop(c)
             \/ StageAwait(c) \/ Complete(c)
      PROVE  Ready'
  <2>1. OnlyMoves(c)
    BY <1>1, StepMoves DEF CallStep, Step
  <2>2. pc'[c] \in {"idle", "insert", "select", "access", "cleanup", "unclaim",
                   "resume", "cancelling", "ending"}
    <3>1. CASE \/ StartClassify(c) \/ TickResume(c) \/ ResumeSelect(c)
               \/ Cancelled(c) \/ CloseRows(c) \/ Release(c)
      BY <3>1 DEF StartClassify, TickResume, ResumeSelect, Cancelled, CloseRows,
         Release, Goto, Finish, TypeOK
    <3>2. CASE \/ AbortRow(c) \/ AbortUnclaim(c) \/ RecoverMark(c)
               \/ StageStop(c) \/ StageAwait(c) \/ Complete(c)
      BY <3>2 DEF AbortRow, AbortUnclaim, RecoverMark, StageStop, StageAwait,
         Complete, Goto, Finish, TypeOK
    <3> QED
      BY <1>1, <3>1, <3>2
  <2>3. pc'[c] \notin Working \cup {"queued", "claim"}
    BY <2>2 DEF Working
  <2> QED
    BY <1>1, <2>1, <2>3, LeaveReady DEF StartClassify, TickResume, ResumeSelect,
       Cancelled, CloseRows, Release, AbortRow, AbortUnclaim, RecoverMark,
       StageStop, StageAwait, Complete, hostVars
<1>2. ASSUME NEW c \in Calls, StartInsert(c) PROVE Ready'
  <2>1. OnlyMoves(c) /\ pc'[c] = "claim"
    BY <1>2, StepMoves DEF CallStep, Step, StartInsert, TypeOK
  <2>2. ctx'[c].fresh
    BY <1>2 DEF StartInsert, TypeOK, ContextType
  <2>3. WillHaveWorktree(c)
    BY <2>1, <2>2 DEF WillHaveWorktree, Working
  <2> QED
    BY <1>2, <2>1, <2>3, MoveReady DEF StartInsert, hostVars
<1>3. ASSUME NEW c \in Calls, StartClaim(c) PROVE Ready'
  <2>1. OnlyMoves(c) /\ pc'[c] = "queued" /\ ctx'[c].fresh
    BY <1>3, StepMoves DEF CallStep, Step, StartClaim, Goto, TypeOK, Ready, HasWorktree
  <2>2. WillHaveWorktree(c)
    BY <2>1 DEF WillHaveWorktree, Working
  <2> QED
    BY <1>3, <2>1, <2>2, MoveReady DEF StartClaim, hostVars
<1>4. ASSUME NEW c \in Calls, ResumeAccess(c) PROVE Ready'
  <2>1. OnlyMoves(c)
    BY <1>4, StepMoves DEF CallStep, Step, ResumeAccess
  <2>2. UNCHANGED worktree
    BY <1>4 DEF ResumeAccess, hostVars
  <2>3. \/ pc'[c] = "queued" /\ ctx'[c].run \in worktree
        \/ pc'[c] = "idle"
    BY <1>4 DEF ResumeAccess, Goto, Finish, TypeOK
  <2>4. WillHaveWorktree(c)
    BY <2>2, <2>3 DEF WillHaveWorktree, Working
  <2> QED
    BY <2>1, <2>2, <2>4, MoveReady
<1>5. ASSUME NEW c \in Calls, JobBegin(c) PROVE Ready'
  <2>1. OnlyMoves(c) /\ UNCHANGED worktree
    BY <1>5, StepMoves DEF CallStep, Step, JobBegin, hostVars, OnlyMoves, TypeOK
  <2>2. CASE Finish(c)
    <3>1. pc'[c] = "idle"
      BY <2>2 DEF Finish, TypeOK
    <3> QED
      BY <2>1, <3>1, LeaveReady DEF Working
  <2>3. CASE /\ pc' = [pc EXCEPT ![c] = IF ctx[c].fresh THEN "clone" ELSE "stage"]
             /\ ctx' = [ctx EXCEPT ![c].mem = "running"]
    <3>1. ctx'[c].run = ctx[c].run
      BY <2>3 DEF TypeOK, ContextType
    <3>2. pc'[c] = "clone" \/ (pc'[c] = "stage" /\ ctx[c].run \in worktree)
      BY <1>5, <2>3 DEF JobBegin, TypeOK, Ready, HasWorktree
    <3>3. WillHaveWorktree(c)
      BY <2>1, <3>1, <3>2 DEF WillHaveWorktree, Working
    <3> QED
      BY <2>1, <3>3, MoveReady
  <2> QED
    BY <1>5, <2>2, <2>3 DEF JobBegin
<1>6. ASSUME NEW c \in Calls, Clone(c) PROVE Ready'
  <2>1. OnlyMoves(c) /\ pc[c] \in Claimed
    BY <1>6, StepMoves DEF CallStep, Step, Clone, Claimed, Executing
  <2>2. PICK gone \in {{}, Siblings(c)} :
          \/ /\ worktree' = (worktree \ gone) \cup {ctx[c].run}
             /\ Goto(c, "setup")
          \/ /\ FailPipeline(c, 0, FALSE, FALSE)
             /\ worktree' = worktree \ gone
    BY <1>6 DEF Clone
  <2>3. \A r \in worktree \ worktree' : issueOf[r] = ctx[c].issue
    BY <2>2 DEF Siblings
  <2>4. \/ pc'[c] = "setup" /\ ctx'[c].run \in worktree'
        \/ pc'[c] \in {"cleanup", "ending"}
    BY <2>2, FailPipelineLeaves DEF Goto, TypeOK
  <2>5. WillHaveWorktree(c)
    BY <2>4 DEF WillHaveWorktree, Working
  <2> QED
    BY <2>1, <2>3, <2>5, SiblingsReady
<1>7. ASSUME NEW c \in Calls, Setup(c) PROVE Ready'
  <2>1. OnlyMoves(c) /\ UNCHANGED worktree /\ pc[c] \in Working
    BY <1>7, StepMoves DEF CallStep, Step, Setup, hostVars, Working
  <2>2. CASE Goto(c, "stage")
    <3>1. pc'[c] \notin {"queued", "claim"} /\ ctx'[c].run = ctx[c].run
      BY <2>2 DEF Goto, TypeOK
    <3> QED
      BY <2>1, <3>1, WorkReady
  <2>3. CASE \E k, context, transient : FailPipeline(c, k, context, transient)
    <3>1. pc'[c] \in {"cleanup", "ending"}
      BY <2>3, FailPipelineLeaves
    <3> QED
      BY <2>1, <3>1, LeaveReady DEF Working
  <2> QED
    BY <1>7, <2>2, <2>3 DEF Setup
<1>8. ASSUME NEW c \in Calls,
             StageStart(c) \/ StageDone(c) \/ LoopDone(c) \/ FixStart(c)
      PROVE  Ready'
  <2>1. OnlyMoves(c) /\ pc[c] \in Working
    BY <1>8, StepMoves DEF CallStep, Step, StageStart, StageDone, LoopDone,
       FixStart, Working
  <2>2. pc'[c] \notin {"queued", "claim"} /\ ctx'[c].run = ctx[c].run
    BY <1>8 DEF StageStart, StageDone, LoopDone, FixStart, Goto, TypeOK,
       ContextType
  <2> QED
    BY <1>8, <2>1, <2>2, WorkReady DEF StageStart, StageDone, LoopDone,
       FixStart, hostVars
<1>9. ASSUME NEW c \in Calls,
             StageFail(c)
      PROVE  Ready'
  <2>1. OnlyMoves(c)
    BY <1>9, StepMoves DEF CallStep, Step
  <2>2. pc'[c] \notin Working \cup {"queued", "claim"}
    BY <1>9, FailPipelineLeaves DEF StageFail, Working, TypeOK
  <2> QED
    BY <1>9, <2>1, <2>2, LeaveReady DEF StageFail, hostVars
<1>10. ASSUME NEW c \in Calls, FixDone(c) PROVE Ready'
  <2>1. OnlyMoves(c) /\ UNCHANGED worktree /\ pc[c] \in Working
    BY <1>10, StepMoves DEF CallStep, Step, FixDone, hostVars, Working
  <2>2. CASE Goto(c, "finish")
    <3>1. pc'[c] \notin {"queued", "claim"} /\ ctx'[c].run = ctx[c].run
      BY <2>2 DEF Goto, TypeOK
    <3> QED
      BY <2>1, <3>1, WorkReady
  <2>3. CASE \E k, context, transient : FailPipeline(c, k, context, transient)
    <3>1. pc'[c] \in {"cleanup", "ending"}
      BY <2>3, FailPipelineLeaves
    <3> QED
      BY <2>1, <3>1, LeaveReady DEF Working
  <2> QED
    BY <1>10, <2>2, <2>3 DEF FixDone
<1>11. ASSUME NEW c \in Calls, Push(c) PROVE Ready'
  <2>1. OnlyMoves(c) /\ UNCHANGED worktree
    BY <1>11, StepMoves DEF CallStep, Step, Push, hostVars
  <2>2. pc'[c] \in {"pushed", "cleanup", "ending"}
    BY <1>11, FailPipelineLeaves DEF Push, Goto, TypeOK
  <2> QED
    BY <2>1, <2>2, LeaveReady DEF Working
<1>12. ASSUME NEW c \in Calls, Cleanup(c) PROVE Ready'
  <2>1. /\ OnlyMoves(c) /\ pc'[c] = "release" /\ pc[c] \in Claimed
        /\ worktree \ {ctx[c].run} \subseteq worktree'
    BY <1>12, StepMoves DEF CallStep, Step, Cleanup, Goto, TypeOK, Claimed, Executing
  <2>2. issueOf[ctx[c].run] = ctx[c].issue
    BY <2>1 DEF TypeInv, Known, RunOf, WithRun, PCs, Claimed, Executing
  <2>3. WillHaveWorktree(c)
    BY <2>1 DEF WillHaveWorktree, Working
  <2> QED
    BY <2>1, <2>2, <2>3, SiblingsReady
<1>13. ASSUME NEW c \in Calls, StageAgain(c) PROVE Ready'
  BY <1>13 DEF StageAgain, callVars, hostVars, Ready, HasWorktree
<1>14. ASSUME NEW c \in Calls, NEW i \in Issues,
             Start(c, i) \/ Resume(c, i) \/ Abort(c, i)
      PROVE  Ready'
  <2>1. OnlyMoves(c)
    BY <1>14, StepMoves DEF CallStep, Step
  <2>2. pc'[c] \notin Working \cup {"queued", "claim"}
    BY <1>14 DEF Start, Resume, Abort, Working, TypeOK
  <2> QED
    BY <1>14, <2>1, <2>2, LeaveReady DEF Start, Resume, Abort, hostVars
<1>15. ASSUME NEW c \in Calls, NEW r \in Runs,
             RecoverSelect(c, r)
      PROVE  Ready'
  <2>1. OnlyMoves(c)
    BY <1>15, StepMoves DEF CallStep, Step
  <2>2. pc'[c] \notin Working \cup {"queued", "claim"}
    BY <1>15 DEF RecoverSelect, Working, TypeOK
  <2> QED
    BY <1>15, <2>1, <2>2, LeaveReady DEF RecoverSelect, hostVars
<1>16. ASSUME NEW i \in Issues,
             ResumeActive(i) \/ Pause(i) \/ ClosePR(i) \/ FeedbackCancelled(i)
      PROVE  Ready'
  BY <1>16 DEF ResumeActive, Pause, ClosePR, FeedbackCancelled, callVars, hostVars, Ready,
     HasWorktree
<1>17. ASSUME NEW r \in Runs, NEW mode \in {"graceful", "cancel"}, RequestStop(r, mode)
      PROVE  Ready'
  BY <1>17 DEF RequestStop, callVars, hostVars, Ready, HasWorktree
<1>18. ASSUME NEW r \in Runs,
             \/ TerminateRun(r) \/ RecoverZombie(r) \/ Age(r)
             \/ BootRecover(r)
      PROVE  Ready'
  BY <1>18 DEF TerminateRun, RecoverZombie, Age, BootRecover, callVars,
     hostVars, Ready, HasWorktree
<1>19. ASSUME HaltAll \/ SweepOrphans \/ BootDone
      PROVE  Ready'
  BY <1>19 DEF HaltAll, SweepOrphans, BootDone, callVars, hostVars, Ready,
     HasWorktree
<1>20. ASSUME Crash PROVE Ready'
  BY <1>20 DEF Crash, Ready, HasWorktree, Working
<1>21. CASE UNCHANGED vars
  BY <1>21 DEF vars, callVars, hostVars, Ready, HasWorktree
<1> QED
  BY <1>1, <1>2, <1>3, <1>4, <1>5, <1>6, <1>7, <1>8, <1>9, <1>10, <1>11,
     <1>12, <1>13, <1>14, <1>15, <1>16, <1>17, <1>18, <1>19, <1>20, <1>21
     DEF Next, Step

(***************************************************************************)
(* WorktreeKept: in the same environments, and whatever else happens, the  *)
(* worktree of an execution stays on disk from its setup to its push: the  *)
(* only cleanup that can delete it is its own.                             *)
(***************************************************************************)
THEOREM WorktreeAlwaysKept ==
  ASSUME Serial
  PROVE  Spec => []WorktreeKept
<1>1. Init => Ready
  BY DEF Init, Ready, HasWorktree, Working
<1>2. TypeInv /\ Exclusive /\ Ready /\ [Next]_vars => Ready'
  BY ReadyStep DEF Exclusive
<1>3. Ready => WorktreeKept
  BY DEF Ready, HasWorktree, Working, WorktreeKept
<1> QED
  BY <1>1, <1>2, <1>3, TypeInvAlways, ExclusiveAlways, PTL DEF Spec
-----------------------------------------------------------------------------
(* The life cycle of a row, where besides nobody pauses or terminates a    *)
(* run from outside and the tick takes no run for a zombie.                *)

Unattended == Serial /\ Enabled \cap {"pause", "terminate", "zombie"} = {}

\* Places of a call whose row says "running".
Going == {"clone", "setup", "stage", "agent", "finish", "fix", "pushed"}

\* Places of a call that relies on the status of its row.
Relying == {"claim", "access", "queued", "recover"} \cup Going

\* The status s of its row suits a call at p.
Fits(p, s) ==
    /\ p = "claim" => s = "queued"
    /\ p \in {"access", "queued"} => s \in {"queued", "paused", "running"}
    /\ p \in Going => s = "running"
    /\ p = "recover" => s = "retriable"

StatusFits == \A c \in Calls : Fits(pc[c], status[ctx[c].run])

\* A row has no resume payload before its job has begun.
NoPayloadYet == \A r \in Runs : status[r] \in {"none", "queued"} => index[r] = NoPayload

\* No call is in flight while the server boots.
NoneBooting == phase = "booting" => \A c \in Calls : pc[c] = "idle"

StatusInv == StatusFits /\ NoPayloadYet /\ NoneBooting

\* What LifeCycle says of one step.
RowsMove == \A r \in Runs : \/ status'[r] = status[r]
                            \/ status'[r] \in NextStatus[status[r]]
                            \/ ResumedInMemory(r)

\* A row may be given status s.
MayBecome(r, s) == s = status[r] \/ s \in NextStatus[status[r]]

Progress == RowsMove /\ StatusFits' /\ NoPayloadYet'

LEMMA NextStatuses ==
  /\ NextStatus["none"] = {"queued"}
  /\ NextStatus["queued"] = {"running", "failed"}
  /\ NextStatus["running"] = {"paused", "retriable", "failed", "completed"}
  /\ NextStatus["paused"] = {"running", "failed"}
  /\ NextStatus["retriable"] = {"paused", "failed"}
<1>1. {"none", "queued", "running", "paused", "retriable"} \subseteq Statuses
  BY DEF Statuses
<1> QED
  BY <1>1 DEF NextStatus

LEMMA RelyingPlaces ==
  /\ Going \subseteq Claimed /\ {"access", "queued"} \subseteq Claimed
  /\ {"claim", "recover"} \subseteq PreClaim
  /\ "claim" \in Unclaimed
  /\ \A p \in PreClaim : p \notin Claimed
  /\ Relying \subseteq WithRun
  /\ \A p \in Relying : p # "idle"
  BY DEF Going, Relying, Claimed, Executing, PreClaim, Unclaimed, WithRun, PCs

LEMMA RelyingRun ==
  ASSUME TypeInv, NEW c \in Calls, pc[c] \in Relying
  PROVE  /\ ctx[c].run \in Runs /\ status[ctx[c].run] # "none"
         /\ issueOf[ctx[c].run] = ctx[c].issue /\ ctx[c].issue \in Issues
<1>1. pc[c] \in WithRun /\ pc[c] # "idle"
  BY RelyingPlaces
<1> QED
  BY <1>1 DEF TypeInv, Known, RunOf

\* Two calls that rely on the status of their rows have different rows.
LEMMA RelyingApart ==
  ASSUME TypeInv, Exclusive, StatusFits,
         NEW c \in Calls, NEW d \in Calls \ {c},
         pc[c] \in Relying, pc[d] \in Relying
  PROVE  ctx[c].run # ctx[d].run
<1> SUFFICES ASSUME ctx[c].run = ctx[d].run PROVE FALSE
  OBVIOUS
<1>1. ctx[c].issue = ctx[d].issue
  BY RelyingRun
<1>2. ASSUME pc[c] \in Claimed, pc[d] \in Claimed PROVE FALSE
  BY <1>1, <1>2 DEF Exclusive, OneClaimed
<1>3. ASSUME pc[c] \in PreClaim, pc[d] \in PreClaim PROVE FALSE
  BY <1>1, <1>3 DEF Exclusive, OneUnclaimed
<1>4. ASSUME NEW e \in {c, d}, NEW f \in {c, d}, pc[e] \in PreClaim, pc[f] \in Claimed
      PROVE FALSE
  <2>1. ctx[e].issue = ctx[f].issue /\ ctx[e].run = ctx[f].run
    BY <1>1
  <2>2. CASE pc[e] = "claim"
    <3>1. activeRuns[ctx[e].issue] = NoRun
      BY <2>2, RelyingPlaces DEF Exclusive, StillFree
    <3>2. activeRuns[ctx[f].issue] = ctx[f].run /\ ctx[f].run # NoRun
      BY <1>4, ClaimedRun DEF Exclusive, ClaimExclusive
    <3> QED
      BY <2>1, <3>1, <3>2
  <2>3. CASE pc[e] = "recover"
    <3>1. status[ctx[e].run] = "retriable"
      BY <2>3 DEF StatusFits, Fits
    <3>2. pc[f] \in {"access", "queued"} \cup Going
      BY <1>4, RelyingPlaces DEF Relying
    <3>3. status[ctx[f].run] \in {"queued", "paused", "running"}
      BY <3>2 DEF StatusFits, Fits
    <3> QED
      BY <2>1, <3>1, <3>3
  <2> QED
    BY <1>4, <2>2, <2>3, RelyingPlaces DEF Relying
<1> QED
  BY <1>2, <1>3, <1>4, RelyingPlaces DEF Relying

\* Nothing but a relying place asks anything of the status.
LEMMA FitsAnywhere ==
  ASSUME NEW p, NEW s, p \notin Relying
  PROVE  Fits(p, s)
  BY DEF Fits, Relying

\* A call moves and no row is written.
LEMMA MoveFits ==
  ASSUME TypeOK, StatusInv, NEW c \in Calls, OnlyMoves(c),
         UNCHANGED <<status, index>>, Fits(pc'[c], status[ctx'[c].run])
  PROVE  Progress
<1>1. StatusFits'
  BY DEF StatusInv, StatusFits, OnlyMoves
<1>2. RowsMove /\ NoPayloadYet'
  BY DEF RowsMove, StatusInv, NoPayloadYet
<1> QED
  BY <1>1, <1>2 DEF Progress

\* A call moves to where nothing is asked of its row, and no row is written.
LEMMA MoveAway ==
  ASSUME TypeOK, StatusInv, NEW c \in Calls, OnlyMoves(c),
         UNCHANGED <<status, index>>, pc'[c] \notin Relying
  PROVE  Progress
  BY MoveFits, FitsAnywhere

\* A call moves and writes a row no other call relies on.
LEMMA MoveWrites ==
  ASSUME TypeOK, StatusInv, NEW c \in Calls, OnlyMoves(c),
         NEW r \in Runs, NEW s, SetStatus(r, s), MayBecome(r, s),
         s \in {"none", "queued"} => index'[r] = NoPayload,
         \A q \in Runs \ {r} : index'[q] = index[q],
         \A d \in Calls \ {c} : pc[d] \in Relying => ctx[d].run # r,
         Fits(pc'[c], status'[ctx'[c].run])
  PROVE  Progress
<1>1. status'[r] = s /\ \A q \in Runs \ {r} : status'[q] = status[q]
  BY DEF SetStatus, TypeOK
<1>2. RowsMove
  BY <1>1 DEF RowsMove, MayBecome
<1>3. NoPayloadYet'
  BY <1>1 DEF StatusInv, NoPayloadYet
<1>4. ASSUME NEW d \in Calls \ {c} PROVE Fits(pc'[d], status'[ctx'[d].run])
  <2>1. pc'[d] = pc[d] /\ ctx'[d] = ctx[d]
    BY DEF OnlyMoves
  <2>2. CASE pc[d] \in Relying
    <3>1. status'[ctx[d].run] = status[ctx[d].run]
      BY <2>2 DEF SetStatus, TypeOK
    <3> QED
      BY <2>1, <3>1 DEF StatusInv, StatusFits
  <2> QED
    BY <2>1, <2>2, FitsAnywhere
<1>5. StatusFits'
  BY <1>4 DEF StatusFits
<1> QED
  BY <1>2, <1>3, <1>5 DEF Progress

\* A call that relies on its row moves and writes it.
LEMMA MoveWritesOwn ==
  ASSUME TypeInv, Exclusive, StatusInv, NEW c \in Calls, OnlyMoves(c),
         pc[c] \in Relying,
         NEW s, s \notin {"none", "queued"},
         SetStatus(ctx[c].run, s), MayBecome(ctx[c].run, s),
         \A q \in Runs \ {ctx[c].run} : index'[q] = index[q],
         \/ pc'[c] \notin Relying
         \/ ctx'[c].run = ctx[c].run /\ Fits(pc'[c], s)
  PROVE  Progress
<1>1. ctx[c].run \in Runs /\ TypeOK
  BY RelyingRun DEF TypeInv
<1>2. \A d \in Calls \ {c} : pc[d] \in Relying => ctx[d].run # ctx[c].run
  BY RelyingApart DEF StatusInv
<1>3. status'[ctx[c].run] = s
  BY <1>1 DEF SetStatus, TypeOK
<1>4. Fits(pc'[c], status'[ctx'[c].run])
  BY <1>3, FitsAnywhere
<1> QED
  BY <1>1, <1>2, <1>4, MoveWrites

\* failPipeline ends the reliance of its call.
LEMMA FailWrites ==
  ASSUME TypeInv, Exclusive, StatusInv, NEW c \in Calls, OnlyMoves(c),
         pc[c] \in Going, NEW k, NEW context, NEW transient,
         FailPipeline(c, k, context, transient)
  PROVE  Progress
<1>1. pc[c] \in Relying /\ status[ctx[c].run] = "running"
  BY DEF Relying, StatusInv, StatusFits, Fits
<1>2. pc'[c] \notin Relying
  BY FailPipelineLeaves DEF TypeInv, Relying, Going
<1>3. \A q \in Runs \ {ctx[c].run} : index'[q] = index[q]
  BY DEF FailPipeline, TypeInv, TypeOK
<1>4. PICK s \in {"retriable", "failed"} : SetStatus(ctx[c].run, s)
  BY FailPipelineRows
<1>5. MayBecome(ctx[c].run, s) /\ s \notin {"none", "queued"}
  BY <1>1, NextStatuses DEF MayBecome
<1> QED
  BY <1>1, <1>2, <1>3, <1>4, <1>5, MoveWritesOwn

\* The row of an active issue is set running, and no call before its claim
\* relies on a row of that issue any more.
LEMMA RerunFits ==
  ASSUME TypeInv, Exclusive, StatusInv, NEW i \in Issues, activeRuns[i] # NoRun,
         SetStatus(activeRuns[i], "running"), UNCHANGED index,
         \A d \in Calls :
            \/ pc'[d] \notin Relying
            \/ /\ pc'[d] = pc[d] /\ ctx'[d] = ctx[d]
               /\ pc[d] \in PreClaim => ctx[d].issue # i
  PROVE  Progress
<1> DEFINE r == activeRuns[i]
<1>1. r \in Runs /\ issueOf[r] = i /\ TypeOK
  BY DEF TypeInv, Known, RunOf
<1>2. status'[r] = "running" /\ \A q \in Runs \ {r} : status'[q] = status[q]
  BY <1>1 DEF SetStatus, TypeOK
<1>3. RowsMove
  BY <1>2 DEF RowsMove, ResumedInMemory
<1>4. NoPayloadYet'
  BY <1>2 DEF StatusInv, NoPayloadYet
<1>5. ASSUME NEW d \in Calls PROVE Fits(pc'[d], status'[ctx'[d].run])
  <2>1. CASE pc'[d] \notin Relying
    BY <2>1, FitsAnywhere
  <2>2. CASE pc'[d] \in Relying
    <3>1. /\ pc'[d] = pc[d] /\ ctx'[d] = ctx[d] /\ pc[d] \in Relying
          /\ pc[d] \in PreClaim => ctx[d].issue # i
      BY <2>2
    <3>2. ctx[d].run \in Runs /\ issueOf[ctx[d].run] = ctx[d].issue
      BY <3>1, RelyingRun
    <3>3. Fits(pc[d], status[ctx[d].run])
      BY DEF StatusInv, StatusFits
    <3>4. CASE ctx[d].run # r
      BY <1>2, <3>1, <3>2, <3>3, <3>4
    <3>5. CASE ctx[d].run = r
      <4>1. pc[d] \notin PreClaim
        BY <1>1, <3>1, <3>2, <3>5
      <4>2. pc[d] \in {"access", "queued"} \cup Going
        BY <3>1, <4>1, RelyingPlaces DEF Relying
      <4>3. Fits(pc[d], "running")
        BY <4>2, RelyingPlaces DEF Fits, Going
      <4> QED
        BY <1>2, <3>1, <3>5, <4>3
    <3> QED
      BY <3>4, <3>5
  <2> QED
    BY <2>1, <2>2
<1>6. StatusFits'
  BY <1>5 DEF StatusFits
<1> QED
  BY <1>3, <1>4, <1>6 DEF Progress

\* The row of a call before its claim or before its job is not "none".
LEMMA BeginsWithRow ==
  ASSUME TypeInv, Exclusive, StatusInv, NEW c \in Calls, NEW p \in Relying, pc[c] = p
  PROVE  Fits(p, status[ctx[c].run]) /\ RunOf(ctx[c].run, ctx[c].issue)
<1>1. Fits(p, status[ctx[c].run])
  BY DEF StatusInv, StatusFits
<1>2. pc[c] \in WithRun
  BY RelyingPlaces
<1> QED
  BY <1>1, <1>2 DEF TypeInv, Known

LEMMA StartsProgress ==
  ASSUME TypeInv, Exclusive, StatusInv, NEW c \in Calls,
         \/ StartClassify(c) \/ StartInsert(c) \/ StartClaim(c)
         \/ \E i \in Issues : Start(c, i) \/ Resume(c, i)
         \/ \E r \in Runs : RecoverSelect(c, r)
  PROVE  Progress
<1>0. TypeOK /\ OnlyMoves(c)
  BY StepMoves DEF TypeInv, CallStep, Step
<1> USE <1>0
<1>1. ASSUME \/ StartClassify(c)
             \/ \E i \in Issues : Start(c, i) \/ Resume(c, i)
      PROVE  Progress
  <2>1. pc'[c] \in {"idle", "insert", "classify", "select"} /\ UNCHANGED <<status, index>>
    BY <1>1 DEF StartClassify, Start, Resume, Goto, Finish, rowVars, TypeOK
  <2>2. pc'[c] \notin Relying
    BY <2>1 DEF Relying, Going
  <2> QED
    BY <2>1, <2>2, MoveAway
<1>2. CASE StartInsert(c)
  <2>1. PICK r \in Runs :
          /\ status[r] = "none" /\ SetStatus(r, "queued")
          /\ ctx' = [ctx EXCEPT ![c].run = r, ![c].fresh = TRUE]
    BY <1>2 DEF StartInsert
  <2>2. /\ pc'[c] = "claim" /\ UNCHANGED index
        /\ ctx'[c].run = r
    <3>1. pc'[c] = "claim" /\ UNCHANGED index
      BY <1>2 DEF StartInsert, TypeOK
    <3>2. ctx'[c].run = r
      BY <2>1 DEF TypeOK, ContextType
    <3> QED
      BY <3>1, <3>2
  <2>3. index'[r] = NoPayload
    BY <2>1, <2>2 DEF StatusInv, NoPayloadYet
  <2>4. MayBecome(r, "queued")
    BY <2>1, NextStatuses DEF MayBecome
  <2>5. \A d \in Calls \ {c} : pc[d] \in Relying => ctx[d].run # r
    BY <2>1, RelyingRun
  <2>6. status'[ctx'[c].run] = "queued"
    BY <2>1, <2>2 DEF SetStatus, TypeOK
  <2>7. Fits(pc'[c], status'[ctx'[c].run])
    BY <2>2, <2>6 DEF Fits, Going
  <2> QED
    BY <2>1, <2>2, <2>3, <2>4, <2>5, <2>7, MoveWrites
<1>3. CASE StartClaim(c)
  <2>1. /\ pc[c] = "claim" /\ pc'[c] = "queued" /\ ctx'[c] = ctx[c]
        /\ UNCHANGED <<status, index>>
    BY <1>3 DEF StartClaim, Goto, rowVars, TypeOK
  <2>2. status[ctx[c].run] = "queued"
    BY <2>1 DEF StatusInv, StatusFits, Fits
  <2>3. Fits(pc'[c], status[ctx'[c].run])
    BY <2>1, <2>2 DEF Fits, Going
  <2> QED
    BY <2>1, <2>3, MoveFits
<1>4. ASSUME NEW r \in Runs, RecoverSelect(c, r) PROVE Progress
  <2>1. /\ status[r] = "retriable" /\ pc'[c] = "recover"
        /\ ctx'[c] = [NoCtx EXCEPT !.issue = issueOf[r], !.run = r, !.retry = retries[r]]
        /\ UNCHANGED <<status, index>>
    BY <1>4 DEF RecoverSelect, rowVars, TypeOK
  <2>2. ctx'[c].run = r
    BY <2>1 DEF NoCtx
  <2>3. Fits(pc'[c], status[ctx'[c].run])
    BY <2>1, <2>2 DEF Fits, Going
  <2> QED
    BY <2>1, <2>3, MoveFits
<1> QED
  BY <1>1, <1>2, <1>3, <1>4

LEMMA ResumesProgress ==
  ASSUME TypeInv, Exclusive, StatusInv, NEW c \in Calls,
         \/ TickResume(c) \/ ResumeSelect(c) \/ ResumeAccess(c) \/ RecoverMark(c)
  PROVE  Progress
<1>0. TypeOK /\ OnlyMoves(c)
  BY StepMoves DEF TypeInv, CallStep, Step
<1> USE <1>0
<1>1. CASE TickResume(c)
  <2>1. pc[c] = "resume" /\ UNCHANGED index /\ ctx[c].issue \in Issues
    BY <1>1 DEF TickResume, TypeInv, Known
  <2>2. CASE activeRuns[ctx[c].issue] # NoRun
    <3>1. SetStatus(activeRuns[ctx[c].issue], "running") /\ Finish(c)
      BY <1>1, <2>2 DEF TickResume
    <3>2. pc'[c] \notin Relying
      BY <3>1 DEF Finish, TypeOK, Relying, Going
    <3>3. \A d \in Calls \ {c} : pc[d] \in PreClaim => ctx[d].issue # ctx[c].issue
      BY <2>1 DEF Exclusive, OneUnclaimed, PreClaim
    <3>4. \A d \in Calls \ {c} : pc'[d] = pc[d] /\ ctx'[d] = ctx[d]
      BY DEF OnlyMoves
    <3> QED
      BY <2>1, <2>2, <3>1, <3>2, <3>3, <3>4, RerunFits
  <2>3. CASE activeRuns[ctx[c].issue] = NoRun
    <3>1. pc'[c] = "select" /\ UNCHANGED <<status, index>>
      BY <1>1, <2>1, <2>3 DEF TickResume, Goto, TypeOK
    <3>2. pc'[c] \notin Relying
      BY <3>1 DEF Relying, Going
    <3> QED
      BY <3>1, <3>2, MoveAway
  <2> QED
    BY <2>2, <2>3
<1>2. CASE ResumeSelect(c)
  <2>1. pc[c] = "select" /\ UNCHANGED index
    BY <1>2 DEF ResumeSelect, rowVars
  <2>2. CASE Finish(c) /\ UNCHANGED rowVars
    <3>1. pc'[c] \notin Relying
      BY <2>2 DEF Finish, TypeOK, Relying, Going
    <3> QED
      BY <2>2, <3>1, MoveAway DEF rowVars
  <2>3. CASE \E r \in Resumable(ctx[c].issue) :
               \/ SetStatus(r, "failed") /\ Finish(c)
               \/ /\ SetStatus(r, "paused")
                  /\ pc' = [pc EXCEPT ![c] = "access"]
                  /\ ctx'[c].run = r
    <3>1. PICK r \in Runs :
            /\ issueOf[r] = ctx[c].issue /\ status[r] \in {"paused", "retriable"}
            /\ \/ SetStatus(r, "failed") /\ Finish(c)
               \/ /\ SetStatus(r, "paused")
                  /\ pc' = [pc EXCEPT ![c] = "access"]
                  /\ ctx'[c].run = r
      BY <2>3 DEF Resumable
    <3>2. ASSUME NEW d \in Calls \ {c}, pc[d] \in Relying, ctx[d].run = r PROVE FALSE
      <4>1. ctx[d].issue = ctx[c].issue
        BY <3>1, <3>2, RelyingRun
      <4>2. pc[d] \notin PreClaim
        BY <2>1, <4>1 DEF Exclusive, OneUnclaimed, PreClaim
      <4>3. pc[d] \notin Claimed
        <5>1. activeRuns[ctx[c].issue] = NoRun
          BY <2>1 DEF Exclusive, StillFree, Unclaimed
        <5> QED
          BY <4>1, <5>1, ClaimedRun DEF Exclusive, ClaimExclusive
      <4> QED
        BY <3>2, <4>2, <4>3, RelyingPlaces DEF Relying
    <3>3. CASE SetStatus(r, "failed") /\ Finish(c)
      <4>1. pc'[c] \notin Relying
        BY <3>3 DEF Finish, TypeOK, Relying, Going
      <4>2. MayBecome(r, "failed")
        BY <3>1, NextStatuses DEF MayBecome
      <4> QED
        BY <2>1, <3>2, <3>3, <4>1, <4>2, FitsAnywhere, MoveWrites
    <3>4. CASE /\ SetStatus(r, "paused")
               /\ pc' = [pc EXCEPT ![c] = "access"]
               /\ ctx'[c].run = r
      <4>1. pc'[c] = "access" /\ status'[ctx'[c].run] = "paused"
        BY <3>4 DEF SetStatus, TypeOK
      <4>2. Fits(pc'[c], status'[ctx'[c].run])
        BY <4>1 DEF Fits, Going
      <4>3. MayBecome(r, "paused")
        BY <3>1, NextStatuses DEF MayBecome
      <4> QED
        BY <2>1, <3>2, <3>4, <4>2, <4>3, MoveWrites
    <3> QED
      BY <3>1, <3>3, <3>4
  <2>4. ASSUME NEW r \in Resumable(ctx[c].issue),
               ctx' = [ctx EXCEPT ![c].run = r, ![c].next = index[r] + 1,
                                  ![c].retry = retries[r]]
        PROVE  ctx'[c].run = r
    BY <2>4 DEF TypeOK, ContextType
  <2> QED
    BY <1>2, <2>2, <2>3, <2>4 DEF ResumeSelect
<1>3. CASE ResumeAccess(c)
  <2>1. pc[c] = "access" /\ UNCHANGED index /\ pc[c] \in Relying
    BY <1>3 DEF ResumeAccess, Relying
  <2>2. status[ctx[c].run] \in {"queued", "paused", "running"}
    BY <2>1 DEF StatusInv, StatusFits, Fits
  <2>3. CASE Goto(c, "queued") /\ UNCHANGED status
    <3>1. pc'[c] = "queued" /\ ctx'[c] = ctx[c]
      BY <2>3 DEF Goto, TypeOK
    <3>2. Fits(pc'[c], status[ctx'[c].run])
      BY <2>2, <3>1 DEF Fits, Going
    <3> QED
      BY <2>1, <2>3, <3>2, MoveFits
  <2>4. CASE SetStatus(ctx[c].run, "failed") /\ Finish(c)
    <3>1. pc'[c] \notin Relying
      BY <2>4 DEF Finish, TypeOK, Relying, Going
    <3>2. MayBecome(ctx[c].run, "failed")
      BY <2>2, NextStatuses DEF MayBecome
    <3> QED
      BY <2>1, <2>4, <3>1, <3>2, MoveWritesOwn
  <2> QED
    BY <1>3, <2>3, <2>4 DEF ResumeAccess
<1>4. CASE RecoverMark(c)
  <2>1. pc[c] = "recover" /\ UNCHANGED index /\ pc[c] \in Relying
    BY <1>4 DEF RecoverMark, Relying
  <2>2. status[ctx[c].run] = "retriable"
    BY <2>1 DEF StatusInv, StatusFits, Fits
  <2>3. PICK s \in {"failed", "paused"} : SetStatus(ctx[c].run, s)
    BY <1>4 DEF RecoverMark
  <2>4. MayBecome(ctx[c].run, s)
    BY <2>2, NextStatuses DEF MayBecome
  <2>5. pc'[c] \in {"idle", "resume"}
    BY <1>4 DEF RecoverMark, Goto, Finish, TypeOK
  <2>6. pc'[c] \notin Relying
    BY <2>5 DEF Relying, Going
  <2> QED
    BY <2>1, <2>3, <2>4, <2>6, MoveWritesOwn
<1> QED
  BY <1>1, <1>2, <1>3, <1>4

\* A call that goes on executing needs its row as it is.
LEMMA GoingOnProgress ==
  ASSUME TypeInv, StatusInv, NEW c \in Calls, OnlyMoves(c),
         UNCHANGED status, UNCHANGED index \/ index' = [index EXCEPT ![ctx[c].run] = -1],
         pc[c] \in Going, ctx'[c].run = ctx[c].run, pc'[c] \in Going \/ pc'[c] \notin Relying
  PROVE  Progress
<1>1. status[ctx[c].run] = "running"
  BY DEF StatusInv, StatusFits, Fits
<1>2. StatusFits'
  <2>1. Fits(pc'[c], "running")
    BY FitsAnywhere DEF Fits, Going
  <2> QED
    BY <1>1, <2>1 DEF StatusInv, StatusFits, OnlyMoves
<1>3. \A r \in Runs : status[r] # "running" => index'[r] = index[r]
  BY <1>1 DEF TypeInv, TypeOK
<1>4. RowsMove /\ NoPayloadYet'
  BY <1>3 DEF RowsMove, StatusInv, NoPayloadYet
<1> QED
  BY <1>2, <1>4 DEF Progress

LEMMA ExecutesProgress ==
  ASSUME TypeInv, Exclusive, StatusInv, NEW c \in Calls,
         \/ JobBegin(c) \/ Clone(c) \/ Setup(c) \/ StageAwait(c) \/ StageStart(c)
         \/ StageDone(c) \/ StageFail(c) \/ LoopDone(c) \/ FixDone(c) \/ Push(c)
         \/ Complete(c) \/ StageAgain(c) \/ FixStart(c)
  PROVE  Progress
<1>0. TypeOK /\ OnlyMoves(c)
  BY StepMoves DEF TypeInv, CallStep, Step
<1> USE <1>0
<1>1. CASE JobBegin(c)
  <2>1. pc[c] = "queued" /\ UNCHANGED index /\ pc[c] \in Relying
    BY <1>1 DEF JobBegin, Relying
  <2>2. CASE Finish(c) /\ UNCHANGED status
    <3>1. pc'[c] \notin Relying
      BY <2>2 DEF Finish, TypeOK, Relying, Going
    <3> QED
      BY <2>1, <2>2, <3>1, MoveAway
  <2>3. CASE /\ SetStatus(ctx[c].run, "running")
             /\ pc' = [pc EXCEPT ![c] = IF ctx[c].fresh THEN "clone" ELSE "stage"]
             /\ ctx' = [ctx EXCEPT ![c].mem = "running"]
    <3>1. pc'[c] \in {"clone", "stage"} /\ ctx'[c].run = ctx[c].run
      BY <2>3 DEF TypeOK, ContextType
    <3>2. Fits(pc'[c], "running")
      BY <3>1 DEF Fits, Going
    <3>3. status[ctx[c].run] \in {"queued", "paused", "running"}
      BY <2>1 DEF StatusInv, StatusFits, Fits
    <3>4. MayBecome(ctx[c].run, "running")
      BY <3>3, NextStatuses DEF MayBecome
    <3> QED
      BY <2>1, <2>3, <3>1, <3>2, <3>4, MoveWritesOwn
  <2> QED
    BY <1>1, <2>2, <2>3 DEF JobBegin
<1>2. ASSUME \/ Clone(c) \/ Setup(c) \/ StageFail(c) \/ FixDone(c) \/ Push(c)
      PROVE  Progress
  <2>1. pc[c] \in Going
    BY <1>2 DEF Clone, Setup, StageFail, FixDone, Push, Going
  <2>2. CASE \E k, context, transient : FailPipeline(c, k, context, transient)
    BY <2>1, <2>2, FailWrites
  <2>3. CASE /\ \E p \in Going : Goto(c, p)
             /\ UNCHANGED status
             /\ UNCHANGED index \/ index' = [index EXCEPT ![ctx[c].run] = -1]
    <3>1. pc'[c] \in Going /\ ctx'[c].run = ctx[c].run
      BY <2>3 DEF Goto, TypeOK
    <3> QED
      BY <2>1, <2>3, <3>1, GoingOnProgress
  <2>4. {"setup", "stage", "finish", "pushed"} \subseteq Going
    BY DEF Going
  <2> QED
    BY <1>2, <2>2, <2>3, <2>4 DEF Clone, Setup, StageFail, FixDone, Push, rowVars
<1>3. ASSUME \/ StageStart(c) \/ StageDone(c) \/ LoopDone(c) \/ StageAgain(c) \/ FixStart(c)
      PROVE  Progress
  <2>1. pc[c] \in Going /\ UNCHANGED <<status, index>>
    BY <1>3 DEF StageStart, StageDone, LoopDone, StageAgain, FixStart, rowVars, Going
  <2>2. pc'[c] \in Going
    BY <1>3 DEF StageStart, StageDone, LoopDone, StageAgain, FixStart, Goto, callVars,
       TypeOK, Going
  <2>3. ctx'[c].run = ctx[c].run
    BY <1>3 DEF StageStart, StageDone, LoopDone, StageAgain, FixStart, Goto, callVars,
       TypeOK, ContextType
  <2> QED
    BY <2>1, <2>2, <2>3, GoingOnProgress
<1>4. ASSUME StageAwait(c) \/ Complete(c) PROVE Progress
  <2>1. pc[c] \in Relying /\ pc[c] \in Going
    BY <1>4 DEF StageAwait, Complete, Relying, Going
  <2>2. status[ctx[c].run] = "running"
    BY <2>1 DEF StatusInv, StatusFits, Fits
  <2>3. PICK s \in {"paused", "completed"} : SetStatus(ctx[c].run, s)
    BY <1>4 DEF StageAwait, Complete
  <2>4. MayBecome(ctx[c].run, s) /\ s \notin {"none", "queued"}
    BY <2>2, NextStatuses DEF MayBecome
  <2>5. pc'[c] \notin Relying
    BY <1>4 DEF StageAwait, Complete, Relying, Going, TypeOK
  <2>6. \A q \in Runs \ {ctx[c].run} : index'[q] = index[q]
    BY <1>4 DEF StageAwait, Complete, TypeOK
  <2> QED
    BY <2>1, <2>3, <2>4, <2>5, <2>6, MoveWritesOwn
<1> QED
  BY <1>1, <1>2, <1>3, <1>4

LEMMA LeavesProgress ==
  ASSUME TypeInv, StatusInv, NEW c \in Calls,
         CloseRows(c) \/ Cleanup(c) \/ Release(c)
  PROVE  Progress
<1>1. TypeOK /\ OnlyMoves(c)
  BY StepMoves DEF TypeInv, CallStep, Step
<1>2. pc'[c] \in {"cleanup", "release", "idle"} /\ UNCHANGED <<status, index>>
  BY <1>1 DEF CloseRows, Cleanup, Release, Goto, Finish, rowVars, TypeOK
<1>3. pc'[c] \notin Relying
  BY <1>2 DEF Relying, Going
<1> QED
  BY <1>1, <1>2, <1>3, MoveAway

\* No call moves and no row is written.
LEMMA StillProgress ==
  ASSUME StatusInv, UNCHANGED <<status, index, pc, ctx>>
  PROVE  Progress
  BY DEF Progress, RowsMove, StatusInv, StatusFits, NoPayloadYet

\* At boot no call relies on a row, and a row still queued has no payload, so
\* that it is failed, never made retriable.
LEMMA BootProgress ==
  ASSUME TypeInv, StatusInv, NEW r \in Runs, BootRecover(r)
  PROVE  Progress
<1>1. \A c \in Calls : pc'[c] = "idle"
  BY DEF BootRecover, StatusInv, NoneBooting, callVars
<1>2. StatusFits'
  <2>1. "idle" \notin Relying
    BY RelyingPlaces
  <2> QED
    BY <1>1, <2>1, FitsAnywhere DEF StatusFits
<1>3. PICK s \in {"retriable", "failed"} :
        SetStatus(r, s) /\ (s = "retriable" => Transcripts(r) # {FALSE})
  BY DEF BootRecover
<1>4. status[r] \in {"running", "queued"} /\ UNCHANGED index
  BY DEF BootRecover, Interrupted
<1>5. status[r] = "queued" => s = "failed"
  BY <1>3 DEF StatusInv, NoPayloadYet, Transcripts
<1>6. MayBecome(r, s)
  BY <1>4, <1>5, NextStatuses DEF MayBecome
<1>7. status'[r] = s /\ \A q \in Runs \ {r} : status'[q] = status[q]
  BY <1>3 DEF SetStatus, TypeInv, TypeOK
<1>8. RowsMove
  BY <1>6, <1>7 DEF RowsMove, MayBecome
<1>9. NoPayloadYet'
  BY <1>4, <1>7 DEF StatusInv, NoPayloadYet
<1> QED
  BY <1>2, <1>8, <1>9 DEF Progress

\* No call is made while the server boots, and none is left from before.
LEMMA NoneBootingStep ==
  ASSUME TypeInv, NoneBooting, [Next]_vars
  PROVE  NoneBooting'
<1>0. TypeOK
  BY DEF TypeInv
<1>1. ASSUME NEW c \in Calls, CallStep(c) PROVE NoneBooting'
  <2>1. UNCHANGED phase /\ (pc[c] # "idle" \/ phase = "up")
    BY <1>1 DEF CallStep, Step, StartClassify, StartInsert, StartClaim, TickResume,
       ResumeSelect, ResumeAccess, JobBegin, Clone, Setup, StageStop, Cancelled,
       StageAwait, StageStart, StageDone, StageFail, LoopDone, FixDone, Push, Complete,
       CloseRows, Cleanup, Release, AbortRow, AbortUnclaim, RecoverMark, StageAgain,
       FixStart, Start, Resume, Abort, RecoverSelect, Idle, procVars
  <2> QED
    BY <1>0, <2>1 DEF NoneBooting, TypeOK
<1>2. ASSUME Crash PROVE NoneBooting'
  BY <1>2 DEF Crash, NoneBooting
<1>3. ASSUME BootDone PROVE NoneBooting'
  BY <1>3 DEF BootDone, NoneBooting
<1>4. CASE UNCHANGED <<pc, phase>>
  BY <1>4 DEF NoneBooting
<1>5. ASSUME NEW i \in Issues,
             ResumeActive(i) \/ Pause(i) \/ ClosePR(i) \/ FeedbackCancelled(i)
      PROVE  UNCHANGED <<pc, phase>>
  BY <1>5 DEF ResumeActive, Pause, ClosePR, FeedbackCancelled, callVars, procVars
<1>6. ASSUME NEW r \in Runs, NEW mode \in {"graceful", "cancel"}, RequestStop(r, mode)
      PROVE  UNCHANGED <<pc, phase>>
  BY <1>6 DEF RequestStop, callVars, procVars
<1>7. ASSUME NEW r \in Runs,
             TerminateRun(r) \/ RecoverZombie(r) \/ Age(r) \/ BootRecover(r)
      PROVE  UNCHANGED <<pc, phase>>
  BY <1>7 DEF TerminateRun, RecoverZombie, Age, BootRecover, callVars, procVars
<1>8. ASSUME HaltAll \/ SweepOrphans \/ UNCHANGED vars PROVE UNCHANGED <<pc, phase>>
  BY <1>8 DEF HaltAll, SweepOrphans, vars, callVars, procVars
<1> QED
  BY <1>1, <1>2, <1>3, <1>4, <1>5, <1>6, <1>7, <1>8 DEF Next, CallStep

LEMMA LifeStep ==
  ASSUME Unattended, TypeInv, Exclusive, StatusInv, [Next]_vars
  PROVE  Progress
<1>0. Serial /\ {"pause", "terminate", "zombie", "abort", "stop"} \cap Enabled = {}
  BY DEF Unattended, Serial
<1>1. ASSUME NEW c \in Calls,
             \/ StartClassify(c) \/ StartInsert(c) \/ StartClaim(c)
             \/ \E i \in Issues : Start(c, i) \/ Resume(c, i)
             \/ \E r \in Runs : RecoverSelect(c, r)
      PROVE  Progress
  BY <1>1, StartsProgress
<1>2. ASSUME NEW c \in Calls,
             TickResume(c) \/ ResumeSelect(c) \/ ResumeAccess(c) \/ RecoverMark(c)
      PROVE  Progress
  BY <1>2, ResumesProgress
<1>3. ASSUME NEW c \in Calls,
             \/ JobBegin(c) \/ Clone(c) \/ Setup(c) \/ StageAwait(c) \/ StageStart(c)
             \/ StageDone(c) \/ StageFail(c) \/ LoopDone(c) \/ FixDone(c) \/ Push(c)
             \/ Complete(c) \/ StageAgain(c) \/ FixStart(c)
      PROVE  Progress
  BY <1>3, ExecutesProgress
<1>4. ASSUME NEW c \in Calls, CloseRows(c) \/ Cleanup(c) \/ Release(c)
      PROVE  Progress
  BY <1>4, LeavesProgress
<1>5. ASSUME NEW c \in Calls,
             \/ StageStop(c) \/ Cancelled(c) \/ AbortRow(c) \/ AbortUnclaim(c)
             \/ \E i \in Issues : Abort(c, i)
      PROVE  Progress
  <2>1. CASE StageStop(c)
    <3>1. pc[c] \in Claimed /\ stop[ctx[c].run] # "none"
      BY <2>1 DEF StageStop, Claimed, Executing
    <3> QED
      BY <3>1, ClaimedRun DEF Exclusive, NoneStopped
  <2>2. CASE Cancelled(c) \/ AbortRow(c) \/ AbortUnclaim(c)
    BY <2>2 DEF Cancelled, AbortRow, AbortUnclaim, Exclusive, NoneAborting, Aborting
  <2>3. CASE \E i \in Issues : Abort(c, i)
    BY <1>0, <2>3 DEF Abort
  <2> QED
    BY <1>5, <2>1, <2>2, <2>3
<1>6. ASSUME NEW i \in Issues, ResumeActive(i) PROVE Progress
  <2>1. /\ activeRuns[i] # NoRun /\ SetStatus(activeRuns[i], "running")
        /\ UNCHANGED <<index, pc, ctx>>
    BY <1>6 DEF ResumeActive, callVars
  <2>2. \A d \in Calls : pc[d] \in PreClaim => ctx[d].issue # i
    BY <1>0, <1>6 DEF ResumeActive, MayCall, Serial
  <2> QED
    BY <2>1, <2>2, RerunFits
<1>7. ASSUME NEW i \in Issues, Pause(i) \/ ClosePR(i) \/ FeedbackCancelled(i)
      PROVE  Progress
  <2>1. ClosePR(i)
    BY <1>0, <1>7 DEF Pause, FeedbackCancelled
  <2> QED
    BY <2>1, StillProgress DEF ClosePR, rowVars, callVars
<1>8. ASSUME NEW r \in Runs, NEW mode \in {"graceful", "cancel"}, RequestStop(r, mode)
      PROVE  Progress
  BY <1>0, <1>8 DEF RequestStop
<1>9. ASSUME NEW r \in Runs, TerminateRun(r) \/ RecoverZombie(r) \/ Age(r)
      PROVE  Progress
  <2>1. Age(r)
    BY <1>0, <1>9 DEF TerminateRun, RecoverZombie
  <2> QED
    BY <2>1, StillProgress DEF Age, callVars
<1>10. ASSUME NEW r \in Runs, BootRecover(r) PROVE Progress
  BY <1>10, BootProgress
<1>11. ASSUME HaltAll \/ SweepOrphans \/ BootDone \/ UNCHANGED vars PROVE Progress
  <2>1. UNCHANGED <<status, index, pc, ctx>>
    BY <1>0, <1>11 DEF HaltAll, SweepOrphans, BootDone, vars, rowVars, callVars
  <2> QED
    BY <2>1, StillProgress
<1>12. ASSUME Crash PROVE Progress
  <2>1. (\A c \in Calls : pc'[c] = "idle") /\ UNCHANGED <<status, index>>
    BY <1>12 DEF Crash, rowVars
  <2>2. StatusFits'
    <3>1. "idle" \notin Relying
      BY RelyingPlaces
    <3> QED
      BY <2>1, <3>1, FitsAnywhere DEF StatusFits
  <2> QED
    BY <2>1, <2>2 DEF Progress, RowsMove, StatusInv, NoPayloadYet
<1> QED
  BY <1>1, <1>2, <1>3, <1>4, <1>5, <1>6, <1>7, <1>8, <1>9, <1>10, <1>11, <1>12
     DEF Next, Step

(***************************************************************************)
(* LifeCycle: unattended, whatever the interleaving of starts, resumes,    *)
(* ticks and crashes, every write of a row moves it along the life cycle   *)
(* of a run, and none brings a finished run back, but for the resume of an *)
(* issue that is active in memory.  Every write but that one is made by    *)
(* the one call that relies on the row, which still has the status the     *)
(* call left it with.                                                      *)
(***************************************************************************)
THEOREM RowsFollowLifeCycle ==
  ASSUME Unattended
  PROVE  Spec => LifeCycle
<1>1. Init => StatusInv
  <2>1. "idle" \notin Relying
    BY RelyingPlaces
  <2>2. Init => StatusFits
    BY <2>1, FitsAnywhere DEF Init, StatusFits
  <2>3. Init => NoPayloadYet /\ NoneBooting
    BY DEF Init, NoPayloadYet, NoneBooting
  <2> QED
    BY <2>2, <2>3 DEF StatusInv
<1>2. TypeInv /\ Exclusive /\ StatusInv /\ [Next]_vars => StatusInv' /\ RowsMove
  BY LifeStep, NoneBootingStep DEF StatusInv, Progress
<1>3. Serial
  BY DEF Unattended
<1>4. Spec => [][RowsMove]_vars
  BY <1>1, <1>2, <1>3, TypeInvAlways, ExclusiveAlways, PTL DEF Spec
<1> QED
  BY <1>4 DEF LifeCycle, RowsMove
=============================================================================
