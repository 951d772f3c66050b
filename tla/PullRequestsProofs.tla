------------------------- MODULE PullRequestsProofs -------------------------
(***************************************************************************)
(* Theorems about FeedbackPipeline, and about PullRequests, its            *)
(* surroundings, that hold for every set of comments and pull requests,    *)
(* every number of runs, stages, restarts and check events, and every      *)
(* choice of the pull requests on which comments race.                     *)
(*                                                                         *)
(* The types of FeedbackPipeline are inductive with RunInv, what a run     *)
(* knows of itself at each place: a stage is left while it is in one, it   *)
(* has pushed only after the push, it is cancelled only after the stop     *)
(* check, its active_work row is gone after the finally of the pipeline.   *)
(* StepShape then sorts the steps by what they do to the entries;          *)
(* EntryHeld follows from the shapes, and OnePerPR with StartsAlone: of    *)
(* the comments on an undisturbed pull request one at most is between its  *)
(* acceptance and its claim.                                               *)
(*                                                                         *)
(* Each step of PullRequests is one of FeedbackPipeline or leaves it       *)
(* alone, so what is proved of the one holds in the other as well.  The    *)
(* record of a merge is never false because of MarkInv: a handler that was *)
(* answered yes, and every event that tells of a merge, come after it, and *)
(* nothing opens a merged pull request again.                              *)
(***************************************************************************)
EXTENDS PullRequests, FiniteSetTheorems, TLAPS

-----------------------------------------------------------------------------
(* The feedback pipeline by itself.                                        *)

AfterPush == {"pushed", "ending", "cleanup", "release", "done", "dead"}
AfterCancel == {"cancelling", "ending", "cleanup", "release", "done", "dead"}

RunInv == \A r \in Runs :
    /\ pc[r] = "agent" => next[r] < NumStages
    /\ pc[r] = "cancelling" => mem[r] = "cancelled"
    /\ mem[r] = "cancelled" => pc[r] \in AfterCancel
    /\ r \in pushed => pc[r] \in AfterPush /\ mem[r] # "cancelled"
    /\ r \in activeWork => pc[r] \in (Executing \ {"cleanup"}) \cup {"dead"}

TypeInv == TypeOK /\ RunInv

USE DEF Terminal, Statuses

LEMMA PCsAre ==
  /\ PCs = {"unused", "done", "dead", "insert", "claim", "queued", "release",
            "clone", "setup", "stage", "agent", "push", "pushed",
            "cancelling", "ending", "cleanup"}
  /\ Executing \subseteq PCs /\ Claimed \subseteq PCs
  /\ Executing = {"clone", "setup", "stage", "agent", "push", "pushed",
                  "cancelling", "ending", "cleanup"}
  BY DEF PCs, Starting, Claimed, Executing

LEMMA RunsAre == Runs \subseteq Nat /\ NoRun \notin Runs /\ NumStages \in Nat
  BY FeedbackAssumption DEF Runs, NoRun

-----------------------------------------------------------------------------
(* Types.                                                                  *)

LEMMA InitType == Init => TypeInv
<1> SUFFICES ASSUME Init PROVE TypeInv
  OBVIOUS
<1>1. (CHOOSE c \in Comments : TRUE) \in Comments
  BY FeedbackAssumption
<1>2. TypeOK
  BY <1>1, PCsAre, FeedbackAssumption DEF Init, TypeOK
<1>3. RunInv
  BY DEF Init, RunInv
<1> QED
  BY <1>2, <1>3 DEF TypeInv

\* What failPipeline writes.
LEMMA FailType ==
  ASSUME TypeOK, NEW r \in Runs, FailPipeline(r)
  PROVE  /\ pc' = [pc EXCEPT ![r] = "ending"] /\ pc' \in [Runs -> PCs]
         /\ mem' = [mem EXCEPT ![r] = "failed"]
         /\ mem' \in [Runs -> Statuses \ {"none"}]
         /\ status' \in [Runs -> Statuses]
  BY PCsAre DEF FailPipeline, SetStatus, Goto, TypeOK

LEMMA StepType ==
  ASSUME TypeInv, NEW r \in Runs, Step(r)
  PROVE  TypeOK'
<1> USE PCsAre, RunsAre DEF TypeInv, TypeOK, Goto, SetStatus, memVars, runVars,
                            rowVars, hostVars, procVars
<1>1. CASE Insert(r)
  BY <1>1 DEF Insert
<1>2. CASE Claim(r)
  BY <1>2 DEF Claim
<1>3. CASE JobBegin(r) /\ activeFeedbackRuns[PR(r)] = NoRun
  BY <1>3 DEF JobBegin
<1>16. CASE JobBegin(r) /\ activeFeedbackRuns[PR(r)] # NoRun
  <2>1. Begin(r) /\ UNCHANGED <<memVars, comment, next, hostVars, procVars>>
    BY <1>16 DEF JobBegin
  <2>2. mem' \in [Runs -> Statuses \ {"none"}] /\ status' \in [Runs -> Statuses]
    BY <2>1 DEF Begin
  <2>3. pc' \in [Runs -> PCs] /\ activeWork' \subseteq Runs
    BY <2>1 DEF Begin
  <2> QED
    BY <2>1, <2>2, <2>3
<1>4. CASE Clone(r)
  <2>1. worktree' \subseteq Runs
    BY <1>4 DEF Clone, Siblings
  <2> QED
    BY <1>4, <2>1, FailType DEF Clone
<1>5. CASE Setup(r)
  BY <1>5, FailType DEF Setup
<1>6. CASE StageStop(r)
  BY <1>6 DEF StageStop, CancelRow
<1>7. CASE Cancelled(r)
  BY <1>7 DEF Cancelled, Frees
<1>8. CASE StageStart(r)
  BY <1>8 DEF StageStart
<1>9. CASE StageDone(r)
  <2>1. next[r] + 1 \in 0..NumStages
    BY <1>9 DEF StageDone, RunInv
  <2> QED
    BY <1>9, <2>1, FailType DEF StageDone
<1>10. CASE LoopDone(r)
  BY <1>10 DEF LoopDone
<1>11. CASE Push(r)
  BY <1>11, FailType DEF Push
<1>12. CASE Complete(r)
  BY <1>12 DEF Complete
<1>13. CASE Ending(r)
  BY <1>13 DEF Ending
<1>14. CASE Cleanup(r)
  BY <1>14 DEF Cleanup
<1>15. CASE Release(r)
  BY <1>15 DEF Release, Frees
<1> QED
  BY <1>1, <1>2, <1>3, <1>4, <1>5, <1>6, <1>7, <1>8, <1>9, <1>10, <1>11,
     <1>12, <1>13, <1>14, <1>15, <1>16 DEF Step

LEMMA OtherType ==
  ASSUME TypeInv, [Next]_vars
  PROVE  TypeOK'
<1> USE PCsAre, RunsAre DEF TypeInv, TypeOK, Goto, SetStatus, memVars, runVars,
                            rowVars, hostVars, procVars
<1>1. CASE \E c \in Comments, r \in Runs : Deliver(c, r)
  BY <1>1 DEF Deliver, Accept
<1>2. CASE \E c \in Comments : Expire(c)
  BY <1>2 DEF Expire
<1>3. CASE \E r \in Runs : Step(r)
  BY <1>3, StepType
<1>4. CASE \E r \in Runs : RequestStop(r)
  BY <1>4 DEF RequestStop
<1>5. CASE \E r \in Runs : TerminateRun(r)
  BY <1>5 DEF TerminateRun
<1>6. CASE \E r \in Runs : BootRecover(r)
  BY <1>6 DEF BootRecover
<1>7. CASE HaltAll
  <2> DEFINE S == {activeFeedbackRuns[p] : p \in PRs} \ {NoRun}
  <2>3. \A p \in PRs : activeFeedbackRuns[p] \in Runs \cup {NoRun}
    OBVIOUS
  <2>4. S \subseteq Runs
    BY ONLY <2>3
  <2>5. stop' = stop \cup S
    BY <1>7 DEF HaltAll
  <2> HIDE DEF S
  <2>1. stop' \subseteq Runs
    BY <2>4, <2>5
  <2>2. UNCHANGED <<dedup, activeFeedbackRuns, runVars, rowVars, hostVars, procVars>>
    BY <1>7 DEF HaltAll
  <2> QED
    BY <2>1, <2>2
<1>8. CASE Crash
  BY <1>8, FeedbackAssumption DEF Crash
<1>9. CASE BootDone
  BY <1>9 DEF BootDone
<1>10. CASE UNCHANGED vars
  BY <1>10 DEF vars
<1> QED
  BY <1>1, <1>2, <1>3, <1>4, <1>5, <1>6, <1>7, <1>8, <1>9, <1>10 DEF Next

-----------------------------------------------------------------------------
(* What a run knows of itself.                                             *)

LEMMA StepRun ==
  ASSUME TypeInv, NEW r \in Runs, Step(r)
  PROVE  RunInv'
<1> USE PCsAre, RunsAre DEF TypeInv, TypeOK, RunInv, AfterPush, AfterCancel, Goto,
                            SetStatus, memVars, runVars, rowVars, hostVars, procVars
<1>1. CASE Insert(r)
  BY <1>1 DEF Insert
<1>2. CASE Claim(r)
  BY <1>2 DEF Claim
<1>3. CASE JobBegin(r)
  BY <1>3 DEF JobBegin, Begin
<1>4. CASE Clone(r)
  BY <1>4, FailType DEF Clone
<1>5. CASE Setup(r)
  BY <1>5, FailType DEF Setup
<1>6. CASE StageStop(r)
  BY <1>6 DEF StageStop, CancelRow
<1>7. CASE Cancelled(r)
  BY <1>7 DEF Cancelled
<1>8. CASE StageStart(r)
  BY <1>8 DEF StageStart, More
<1>9. CASE StageDone(r)
  BY <1>9, FailType DEF StageDone
<1>10. CASE LoopDone(r)
  BY <1>10 DEF LoopDone
<1>11. CASE Push(r)
  BY <1>11, FailType DEF Push
<1>12. CASE Complete(r)
  BY <1>12 DEF Complete
<1>13. CASE Ending(r)
  BY <1>13 DEF Ending
<1>14. CASE Cleanup(r)
  BY <1>14 DEF Cleanup
<1>15. CASE Release(r)
  BY <1>15 DEF Release
<1> QED
  BY <1>1, <1>2, <1>3, <1>4, <1>5, <1>6, <1>7, <1>8, <1>9, <1>10, <1>11,
     <1>12, <1>13, <1>14, <1>15 DEF Step

LEMMA NextRun ==
  ASSUME TypeInv, [Next]_vars
  PROVE  RunInv'
<1> USE PCsAre, RunsAre DEF TypeInv, TypeOK, RunInv, AfterPush, AfterCancel, Goto,
                            SetStatus, memVars, runVars, rowVars, hostVars, procVars
<1>1. CASE \E c \in Comments, r \in Runs : Deliver(c, r)
  <2>1. PICK c \in Comments, r \in Runs : Deliver(c, r)
    BY <1>1
  <2>2. /\ pc[r] = "unused" /\ pc' = [pc EXCEPT ![r] = "insert"]
        /\ UNCHANGED <<next, mem, pushed, activeWork>>
    BY <2>1 DEF Deliver, Handled, Accept
  <2> QED
    BY <2>2
<1>2. CASE \E c \in Comments : Expire(c)
  BY <1>2 DEF Expire
<1>3. CASE \E r \in Runs : Step(r)
  BY <1>3, StepRun
<1>4. CASE \E r \in Runs : RequestStop(r)
  BY <1>4 DEF RequestStop
<1>5. CASE \E r \in Runs : TerminateRun(r)
  BY <1>5 DEF TerminateRun
<1>6. CASE \E r \in Runs : BootRecover(r)
  BY <1>6 DEF BootRecover
<1>7. CASE HaltAll
  BY <1>7 DEF HaltAll
<1>8. CASE Crash
  BY <1>8 DEF Crash
<1>9. CASE BootDone
  BY <1>9 DEF BootDone
<1>10. CASE UNCHANGED vars
  BY <1>10 DEF vars
<1> QED
  BY <1>1, <1>2, <1>3, <1>4, <1>5, <1>6, <1>7, <1>8, <1>9, <1>10 DEF Next

LEMMA TypeInvAlways == Spec => []TypeInv
<1>1. TypeInv /\ [Next]_vars => TypeInv'
  BY OtherType, NextRun DEF TypeInv
<1> QED
  BY InitType, <1>1, PTL DEF Spec

(***************************************************************************)
(* The variables keep their types.                                         *)
(***************************************************************************)
THEOREM TypeCorrect == Spec => []TypeOK
  BY TypeInvAlways, PTL DEF TypeInv

(***************************************************************************)
(* No exit of the pipeline leaves an active_work row behind.               *)
(***************************************************************************)
THEOREM WorkRowsAlwaysOwned == Spec => []WorkRowsOwned
<1>1. TypeInv => WorkRowsOwned
  BY DEF TypeInv, TypeOK, RunInv, WorkRowsOwned
<1> QED
  BY <1>1, TypeInvAlways, PTL

(***************************************************************************)
(* A run that takes the way of a stop has pushed nothing.                  *)
(***************************************************************************)
THEOREM CancelledNeverPushed == Spec => []CancelledNotPushed
<1>1. TypeInv => CancelledNotPushed
  BY DEF TypeInv, RunInv, CancelledNotPushed
<1> QED
  BY <1>1, TypeInvAlways, PTL

-----------------------------------------------------------------------------
(* The shapes of steps, as far as the entries are concerned.               *)

\* Nobody is accepted, claims, or lets go of its entry: every run stays
\* before its claim or behind it, or it ends unclaimed.
Stays(r) ==
    \/ pc'[r] = pc[r]
    \/ pc[r] \in Starting /\ pc'[r] \in Starting
    \/ pc[r] \in Claimed /\ pc'[r] \in Claimed
    \/ pc[r] = "queued" /\ activeFeedbackRuns[PR(r)] = NoRun /\ pc'[r] = "done"

Kept ==
    /\ UNCHANGED <<activeFeedbackRuns, comment>>
    /\ \A r \in Runs : Stays(r)
    /\ \A r \in Runs : mem[r] = "cancelled" => mem'[r] = "cancelled"

Shape ==
    \/ Kept
    \/ \E c \in Comments, r \in Runs : Deliver(c, r)
    \/ \E r \in Runs : Claim(r) \/ Cancelled(r) \/ Release(r)
    \/ Crash

LEMMA StepShape ==
  ASSUME TypeInv, [Next]_vars
  PROVE  Shape
<1> USE PCsAre, RunsAre DEF TypeInv, TypeOK, RunInv, AfterCancel, Claimed, Starting,
                            Executing, Stays, Goto,
                            SetStatus, memVars, runVars, rowVars, hostVars, procVars
<1>1. CASE \E c \in Comments, r \in Runs : Deliver(c, r)
  BY <1>1 DEF Shape
<1>2. ASSUME NEW c \in Comments, Expire(c) PROVE Kept
  BY <1>2 DEF Expire, Kept
<1>3. ASSUME NEW r \in Runs, Step(r) PROVE Shape
  <2>1. ASSUME FailPipeline(r), pc[r] \in Executing \ {"cancelling", "ending", "cleanup"},
               UNCHANGED <<activeFeedbackRuns, comment>>
        PROVE  Kept
    BY <2>1, FailType DEF Kept
  <2>2. CASE Insert(r)
    BY <2>2 DEF Insert, Kept, Shape
  <2>3. CASE JobBegin(r)
    <3>1. UNCHANGED <<activeFeedbackRuns, comment>> /\ pc[r] = "queued"
      BY <2>3 DEF JobBegin
    <3>2. CASE activeFeedbackRuns[PR(r)] = NoRun
      BY <2>3, <3>1, <3>2 DEF JobBegin, Kept, Shape
    <3>3. CASE activeFeedbackRuns[PR(r)] # NoRun
      BY <2>3, <3>1, <3>3 DEF JobBegin, Begin, Kept, Shape
    <3> QED
      BY <3>2, <3>3
  <2>4. CASE Clone(r)
    BY <2>1, <2>4 DEF Clone, Kept, Shape
  <2>5. CASE Setup(r)
    BY <2>1, <2>5 DEF Setup, Kept, Shape
  <2>6. CASE StageStop(r)
    BY <2>6 DEF StageStop, CancelRow, Kept, Shape
  <2>7. CASE StageStart(r)
    BY <2>7 DEF StageStart, Kept, Shape
  <2>8. CASE StageDone(r)
    BY <2>1, <2>8 DEF StageDone, Kept, Shape
  <2>9. CASE LoopDone(r)
    BY <2>9 DEF LoopDone, Kept, Shape
  <2>10. CASE Push(r)
    BY <2>1, <2>10 DEF Push, Kept, Shape
  <2>11. CASE Complete(r)
    BY <2>11 DEF Complete, Kept, Shape
  <2>12. CASE Ending(r)
    BY <2>12 DEF Ending, Kept, Shape
  <2>13. CASE Cleanup(r)
    BY <2>13 DEF Cleanup, Kept, Shape
  <2>14. CASE Claim(r) \/ Cancelled(r) \/ Release(r)
    BY <2>14 DEF Shape
  <2> QED
    BY <1>3, <2>2, <2>3, <2>4, <2>5, <2>6, <2>7, <2>8, <2>9, <2>10, <2>11,
       <2>12, <2>13, <2>14 DEF Step
<1>4. ASSUME NEW r \in Runs, RequestStop(r) PROVE Kept
  BY <1>4 DEF RequestStop, Kept
<1>5. ASSUME NEW r \in Runs, TerminateRun(r) PROVE Kept
  BY <1>5 DEF TerminateRun, Kept
<1>6. ASSUME NEW r \in Runs, BootRecover(r) PROVE Kept
  BY <1>6 DEF BootRecover, Kept
<1>7. CASE HaltAll
  BY <1>7 DEF HaltAll, Kept, Shape
<1>8. CASE Crash
  BY <1>8 DEF Shape
<1>9. CASE BootDone
  BY <1>9 DEF BootDone, Kept, Shape
<1>10. CASE UNCHANGED vars
  BY <1>10 DEF vars, Kept, Shape
<1> QED
  BY <1>1, <1>2, <1>3, <1>4, <1>5, <1>6, <1>7, <1>8, <1>9, <1>10 DEF Next, Shape

-----------------------------------------------------------------------------
(* The entry of a pull request.                                            *)

(***************************************************************************)
(* The run an entry names is in flight, for that very pull request.        *)
(***************************************************************************)
THEOREM EntryAlwaysHeld == Spec => []EntryHeld
<1> USE RunsAre DEF EntryHeld, TypeInv, TypeOK, PR
<1>1. Init => EntryHeld
  BY DEF Init
<1>2. TypeInv /\ EntryHeld /\ [Next]_vars => EntryHeld'
  <2> SUFFICES ASSUME TypeInv, EntryHeld, [Next]_vars PROVE EntryHeld'
    OBVIOUS
  <2>1. CASE Kept
    <3> SUFFICES ASSUME NEW p \in PRs, activeFeedbackRuns[p] # NoRun
                 PROVE  /\ pc'[activeFeedbackRuns[p]] \in Claimed
                        /\ PR(activeFeedbackRuns[p]) = p
      BY <2>1 DEF Kept
    <3> DEFINE q == activeFeedbackRuns[p]
    <3>1. q \in Runs /\ pc[q] \in Claimed /\ PR(q) = p
      OBVIOUS
    <3>2. Stays(q)
      BY <2>1, <3>1 DEF Kept
    <3>3. pc'[q] \in Claimed
      BY <3>1, <3>2 DEF Stays, Starting, Claimed, Executing
    <3> QED
      BY <3>1, <3>3
  <2>2. ASSUME NEW c \in Comments, NEW r \in Runs, Deliver(c, r) PROVE EntryHeld'
    BY <2>2 DEF Deliver, Handled, Accept, Goto, Claimed, Executing
  <2>3. ASSUME NEW r \in Runs, Claim(r) PROVE EntryHeld'
    BY <2>3, FeedbackAssumption DEF Claim, Goto, Claimed
  <2>4. ASSUME NEW r \in Runs, Cancelled(r) PROVE EntryHeld'
    BY <2>4 DEF Cancelled, Frees, Goto, Claimed, Executing
  <2>5. ASSUME NEW r \in Runs, Release(r) PROVE EntryHeld'
    BY <2>5 DEF Release, Frees, Goto
  <2>6. CASE Crash
    BY <2>6 DEF Crash
  <2> QED
    BY StepShape, <2>1, <2>2, <2>3, <2>4, <2>5, <2>6 DEF Shape
<1> QED
  BY <1>1, <1>2, TypeInvAlways, PTL DEF Spec

\* Before its claim, a run of an undisturbed pull request finds no entry and
\* no other run that is about to claim.
StartsAlone ==
    \A r \in Runs : Undisturbed(PR(r)) /\ pc[r] \in Starting =>
        /\ activeFeedbackRuns[PR(r)] = NoRun
        /\ \A q \in Runs : PR(q) = PR(r) /\ pc[q] \in Starting => q = r

EntryInv == TypeInv /\ StartsAlone /\ OnePerPR

\* A pull request that has been disturbed stays so.
LEMMA StaysDisturbed ==
  ASSUME TypeInv, Shape, NEW p, Undisturbed(p)'
  PROVE  Undisturbed(p)
<1> USE DEF Undisturbed, TypeInv, TypeOK, RunInv, AfterCancel, PR
<1>1. CASE Kept
  BY <1>1 DEF Kept
<1>2. ASSUME NEW c \in Comments, NEW r \in Runs, Deliver(c, r) PROVE Undisturbed(p)
  BY <1>2 DEF Deliver, Handled, Accept
<1>3. ASSUME NEW r \in Runs, Claim(r) \/ Cancelled(r) \/ Release(r)
      PROVE  Undisturbed(p)
  BY <1>3 DEF Claim, Cancelled, Release
<1>4. CASE Crash
  BY <1>4 DEF Crash
<1> QED
  BY <1>1, <1>2, <1>3, <1>4 DEF Shape

LEMMA NextEntry ==
  ASSUME EntryInv, [Next]_vars
  PROVE  (StartsAlone /\ OnePerPR)'
<1> USE RunsAre DEF EntryInv, TypeInv, TypeOK, Starting, PR
<1>0. TypeInv /\ Shape
  BY StepShape
<1>1. CASE Kept
  <2>1. \A r \in Runs : Undisturbed(PR(r))' => Undisturbed(PR(r))
    BY <1>0, <1>1, StaysDisturbed DEF Kept
  <2>2. \A r \in Runs : pc'[r] \in Starting => pc[r] \in Starting
    BY <1>1 DEF Kept, Stays, Claimed, Executing
  <2>3. \A r \in Runs : pc'[r] \in Claimed => pc[r] \in Claimed
    BY <1>1 DEF Kept, Stays, Claimed, Executing
  <2>4. StartsAlone'
    BY <1>1, <2>1, <2>2 DEF StartsAlone, Kept
  <2>5. OnePerPR'
    BY <1>1, <2>1, <2>3 DEF OnePerPR, Kept
  <2> QED
    BY <2>4, <2>5
<1>2. ASSUME NEW c \in Comments, NEW r \in Runs, Deliver(c, r)
      PROVE  (StartsAlone /\ OnePerPR)'
  <2>1. /\ pc[r] = "unused" /\ pc' = [pc EXCEPT ![r] = "insert"]
        /\ comment' = [comment EXCEPT ![r] = c]
        /\ activeFeedbackRuns' = activeFeedbackRuns
        /\ activeFeedbackRuns[PrOf[c]] = NoRun
        /\ \/ PrOf[c] \in Racing
           \/ \A q \in Runs : ~(pc[q] \in Starting /\ PR(q) = PrOf[c])
    BY <1>2 DEF Deliver, Handled, Accept, Goto
  <2>2. \A p : Undisturbed(p)' => Undisturbed(p)
    BY <1>0, StaysDisturbed
  <2>3. StartsAlone'
    BY <2>1, <2>2 DEF StartsAlone, Undisturbed
  <2>4. OnePerPR'
    BY <2>1, <2>2 DEF OnePerPR, Claimed, Executing
  <2> QED
    BY <2>3, <2>4
<1>3. ASSUME NEW r \in Runs, Claim(r) PROVE (StartsAlone /\ OnePerPR)'
  <2>1. /\ pc[r] \in Starting /\ pc' = [pc EXCEPT ![r] = "queued"]
        /\ comment' = comment
        /\ activeFeedbackRuns' = [activeFeedbackRuns EXCEPT ![PR(r)] = r]
        /\ PR(r) \in PRs
    BY <1>3, FeedbackAssumption DEF Claim, Goto
  <2>2. \A p : Undisturbed(p)' => Undisturbed(p)
    BY <1>0, StaysDisturbed
  <2>3. StartsAlone'
    BY <2>1, <2>2 DEF StartsAlone
  <2>4. OnePerPR'
    BY <2>1, <2>2 DEF OnePerPR, StartsAlone
  <2> QED
    BY <2>3, <2>4
<1>4. ASSUME NEW r \in Runs, Cancelled(r) PROVE (StartsAlone /\ OnePerPR)'
  <2>1. /\ pc[r] = "cancelling" /\ pc' = [pc EXCEPT ![r] = "ending"]
        /\ comment' = comment /\ mem' = mem
        /\ activeFeedbackRuns' = [activeFeedbackRuns EXCEPT ![PR(r)] = NoRun]
        /\ PR(r) \in PRs
    BY <1>4, FeedbackAssumption DEF Cancelled, Goto, Frees
  <2>2. ~Undisturbed(PR(r))' /\ mem[r] = "cancelled"
    BY <2>1 DEF Undisturbed, RunInv
  <2>3. \A p : Undisturbed(p)' => Undisturbed(p)
    BY <1>0, StaysDisturbed
  <2>4. StartsAlone'
    BY <2>1, <2>2, <2>3 DEF StartsAlone
  <2>5. OnePerPR'
    BY <2>1, <2>2, <2>3 DEF OnePerPR
  <2> QED
    BY <2>4, <2>5
<1>5. ASSUME NEW r \in Runs, Release(r) PROVE (StartsAlone /\ OnePerPR)'
  <2>1. /\ pc[r] = "release" /\ pc' = [pc EXCEPT ![r] = "done"]
        /\ comment' = comment /\ mem' = mem
        /\ activeFeedbackRuns' = [activeFeedbackRuns EXCEPT ![PR(r)] = NoRun]
        /\ PR(r) \in PRs /\ pc[r] \in Claimed
    BY <1>5, FeedbackAssumption DEF Release, Goto, Frees, Claimed
  <2>2. \A p : Undisturbed(p)' => Undisturbed(p)
    BY <1>0, StaysDisturbed
  <2>3. StartsAlone'
    BY <2>1, <2>2 DEF StartsAlone
  <2>4. OnePerPR'
    BY <2>1, <2>2 DEF OnePerPR, Claimed, Executing
  <2> QED
    BY <2>3, <2>4
<1>6. CASE Crash
  BY <1>6 DEF Crash, StartsAlone, OnePerPR, Claimed, Executing
<1> QED
  BY <1>0, <1>1, <1>2, <1>3, <1>4, <1>5, <1>6 DEF Shape

LEMMA EntryInvAlways == Spec => []EntryInv
<1>1. Init => StartsAlone /\ OnePerPR
  BY DEF Init, StartsAlone, OnePerPR, Starting, Claimed, Executing
<1>2. EntryInv /\ [Next]_vars => EntryInv'
  <2> SUFFICES ASSUME EntryInv, [Next]_vars PROVE EntryInv'
    OBVIOUS
  <2>1. TypeInv'
    BY OtherType, NextRun DEF EntryInv, TypeInv
  <2>2. (StartsAlone /\ OnePerPR)'
    BY NextEntry
  <2> QED
    BY <2>1, <2>2 DEF EntryInv
<1> QED
  BY InitType, <1>1, <1>2, PTL DEF Spec, EntryInv

(***************************************************************************)
(* On an undisturbed pull request a run that is queued or executing is the *)
(* one the entry names.                                                    *)
(***************************************************************************)
THEOREM AlwaysOnePerPR == Spec => []OnePerPR
  BY EntryInvAlways, PTL DEF EntryInv

-----------------------------------------------------------------------------
(* The worktree.                                                           *)

InUse == {"setup", "stage", "agent", "push"}

\* A run comes into use with its worktree on disk; a worktree in use goes
\* only when a run clones that has the same pull request.
WorktreeShape ==
    /\ \A r \in Runs : pc[r] \in InUse => comment'[r] = comment[r]
    /\ \A r \in Runs : pc'[r] \in InUse => pc[r] \in InUse \/ r \in worktree'
    /\ \A r \in Runs : r \in worktree /\ pc'[r] \in InUse =>
        r \in worktree' \/ \E q \in Runs : PR(q) = PR(r) /\ pc[q] = "clone" /\ q # r

LEMMA StepWorktree ==
  ASSUME TypeInv, [Next]_vars
  PROVE  WorktreeShape
<1> USE PCsAre, RunsAre DEF TypeInv, TypeOK, InUse, Goto, SetStatus, memVars, runVars,
                            rowVars, hostVars, procVars
<1>1. ASSUME NEW c \in Comments, NEW r \in Runs, Deliver(c, r) PROVE WorktreeShape
  BY <1>1 DEF Deliver, Handled, Accept, WorktreeShape
<1>2. ASSUME NEW c \in Comments, Expire(c) PROVE WorktreeShape
  BY <1>2 DEF Expire, WorktreeShape
<1>3. ASSUME NEW r \in Runs, Step(r) PROVE WorktreeShape
  <2>1. CASE Insert(r) \/ Claim(r)
    BY <2>1 DEF Insert, Claim, WorktreeShape
  <2>2. CASE JobBegin(r)
    BY <2>2 DEF JobBegin, Begin, WorktreeShape
  <2>3. CASE Clone(r)
    BY <2>3, FailType DEF Clone, Siblings, WorktreeShape
  <2>4. CASE Setup(r)
    BY <2>4, FailType DEF Setup, WorktreeShape
  <2>5. CASE StageStop(r) \/ Cancelled(r)
    BY <2>5 DEF StageStop, CancelRow, Cancelled, WorktreeShape
  <2>6. CASE StageStart(r) \/ LoopDone(r)
    BY <2>6 DEF StageStart, LoopDone, WorktreeShape
  <2>7. CASE StageDone(r)
    BY <2>7, FailType DEF StageDone, WorktreeShape
  <2>8. CASE Push(r)
    BY <2>8, FailType DEF Push, WorktreeShape
  <2>9. CASE Complete(r) \/ Ending(r)
    BY <2>9 DEF Complete, Ending, WorktreeShape
  <2>10. CASE Cleanup(r)
    BY <2>10 DEF Cleanup, WorktreeShape
  <2>11. CASE Release(r)
    BY <2>11 DEF Release, WorktreeShape
  <2> QED
    BY <1>3, <2>1, <2>2, <2>3, <2>4, <2>5, <2>6, <2>7, <2>8, <2>9, <2>10, <2>11
       DEF Step
<1>4. ASSUME NEW r \in Runs, RequestStop(r) PROVE WorktreeShape
  BY <1>4 DEF RequestStop, WorktreeShape
<1>5. ASSUME NEW r \in Runs, TerminateRun(r) PROVE WorktreeShape
  BY <1>5 DEF TerminateRun, WorktreeShape
<1>6. ASSUME NEW r \in Runs, BootRecover(r) PROVE WorktreeShape
  BY <1>6 DEF BootRecover, WorktreeShape
<1>7. CASE HaltAll
  BY <1>7 DEF HaltAll, WorktreeShape
<1>8. CASE Crash
  BY <1>8 DEF Crash, WorktreeShape
<1>9. CASE BootDone
  BY <1>9 DEF BootDone, WorktreeShape
<1>10. CASE UNCHANGED vars
  BY <1>10 DEF vars, WorktreeShape
<1> QED
  BY <1>1, <1>2, <1>3, <1>4, <1>5, <1>6, <1>7, <1>8, <1>9, <1>10 DEF Next

(***************************************************************************)
(* On an undisturbed pull request the worktree of a run stays on disk from *)
(* its creation to the push: a run that clones is claimed, and the entry   *)
(* names one run only.                                                     *)
(***************************************************************************)
THEOREM WorktreeAlwaysInUse == Spec => []WorktreeInUse
<1>1. Init => WorktreeInUse
  BY DEF Init, WorktreeInUse
<1>2. EntryInv /\ WorktreeInUse /\ [Next]_vars => WorktreeInUse'
  <2> SUFFICES ASSUME EntryInv, WorktreeInUse, [Next]_vars,
                      NEW r \in Runs, Undisturbed(PR(r))', pc'[r] \in InUse
               PROVE  r \in worktree'
    BY DEF WorktreeInUse, InUse
  <2>1. WorktreeShape /\ Shape /\ TypeInv
    BY StepWorktree, StepShape DEF EntryInv
  <2>2. CASE pc[r] \notin InUse
    BY <2>1, <2>2 DEF WorktreeShape
  <2>3. CASE pc[r] \in InUse
    <3>1. PR(r)' = PR(r)
      BY <2>1, <2>3 DEF WorktreeShape, PR
    <3>2. Undisturbed(PR(r))
      BY <2>1, <3>1, StaysDisturbed
    <3>3. r \in worktree
      BY <2>3, <3>2 DEF WorktreeInUse, InUse
    <3>4. ASSUME NEW q \in Runs, PR(q) = PR(r), pc[q] = "clone" PROVE q = r
      BY <2>3, <3>2, <3>4 DEF EntryInv, OnePerPR, Claimed, Executing, InUse
    <3> QED
      BY <2>1, <3>3, <3>4 DEF WorktreeShape
  <2> QED
    BY <2>2, <2>3
<1> QED
  BY <1>1, <1>2, EntryInvAlways, PTL DEF Spec

HIDE DEF Terminal, Statuses

-----------------------------------------------------------------------------
(* What holds of its surroundings.                                         *)

PrInv == TypeInv /\ PullRequestsTypeOK

MarkInv ==
    /\ MarkedMeansMerged
    /\ \A e \in Events : event[e].at = "merged" => merged[event[e].pr] # "open"
    /\ \A p \in PRs : closed[p] # "none" => merged[p] # "open"

-----------------------------------------------------------------------------
(* The feedback pipeline in its surroundings.                              *)

LEMMA StepIsFeedback == [PullRequestsNext]_allVars => [Next]_vars
<1> SUFFICES ASSUME [PullRequestsNext]_allVars PROVE [Next]_vars
  OBVIOUS
<1>1. CASE FeedbackStep
  BY <1>1 DEF FeedbackStep, Next
<1>2. CASE Died
  BY <1>2 DEF Died, Next
<1>3. CASE UNCHANGED allVars
  BY <1>3 DEF allVars
<1>4. ASSUME NEW e \in Events, Handling(e) \/ \E p \in PRs : CheckEvent(e, p)
      PROVE  UNCHANGED vars
  BY <1>4 DEF Handling, Fetch, Check, MergeByServer, Record, CheckEvent
<1>5. ASSUME NEW p \in PRs, Telling(p) \/ Redeliver(p) \/ Lose(p) \/ MergeByPeople(p) \/ ChecksPass(p)
      PROVE  UNCHANGED vars
  BY <1>5 DEF Telling, ReadMerged, TellMerged, Redeliver, Lose, MergeByPeople, ChecksPass
<1> QED
  BY <1>1, <1>2, <1>3, <1>4, <1>5 DEF PullRequestsNext

\* Whatever merges, check events and deliveries surround it, the feedback pipeline does
\* what FeedbackPipeline says: none of the handlers of PullRequests touches its state.
THEOREM ComposesFeedback == PullRequestsSpec => Spec
<1>1. PullRequestsInit => Init
  BY DEF PullRequestsInit
<1> QED
  BY <1>1, StepIsFeedback, PTL DEF PullRequestsSpec, Spec

\* Whatever surrounds it, an undisturbed pull request has one run at a time, its worktree
\* stays while the run uses it, and no entry outlives its run.
THEOREM FeedbackKept == PullRequestsSpec => [](OnePerPR /\ WorktreeInUse /\ EntryHeld)
  BY ComposesFeedback, AlwaysOnePerPR, WorktreeAlwaysInUse, EntryAlwaysHeld, PTL

-----------------------------------------------------------------------------
(* Types.                                                                  *)

LEMMA HeadType ==
  ASSUME TypeOK, NEW p \in PRs
  PROVE  Head(p) \in 0..MaxRuns
<1> DEFINE S == {r \in pushed : PR(r) = p}
<1>1. S \in SUBSET (1..MaxRuns) /\ MaxRuns \in Nat
  BY FeedbackAssumption DEF TypeOK, Runs
<1> HIDE DEF S
<1>2. IsFiniteSet(1..MaxRuns) /\ Cardinality(1..MaxRuns) = MaxRuns
  BY <1>1, FS_Interval
<1>3. IsFiniteSet(S) /\ Cardinality(S) <= MaxRuns
  BY <1>1, <1>2, FS_Subset
<1>4. Cardinality(S) \in Nat
  BY <1>3, FS_CardinalityType
<1> QED
  BY <1>1, <1>3, <1>4 DEF Head, S

LEMMA IdleType ==
  ASSUME PRs # {}
  PROVE  /\ Idle("unused") \in Handler /\ Idle("done") \in Handler
         /\ Idle("unused").at = "unused" /\ Idle("done").at = "done"
<1>1. (CHOOSE p \in PRs : TRUE) \in PRs /\ 0 \in 0..MaxRuns
  BY FeedbackAssumption
<1> QED
  BY <1>1 DEF Idle, Handler

LEMMA SomePR == PRs # {}
  BY FeedbackAssumption

LEMMA PrInit == PullRequestsInit => PrInv /\ MarkInv
<1> SUFFICES ASSUME PullRequestsInit PROVE PrInv /\ MarkInv
  OBVIOUS
<1>1. TypeInv
  BY InitType DEF PullRequestsInit
<1>2. event \in [Events -> Handler] /\ \A e \in Events : event[e].at = "unused"
  BY IdleType, SomePR DEF PullRequestsInit
<1>3. PullRequestsTypeOK
  BY <1>2 DEF PullRequestsInit, PullRequestsTypeOK
<1> QED
  BY <1>1, <1>2, <1>3 DEF PrInv, MarkInv, MarkedMeansMerged, PullRequestsInit

\* A handler moves to another place, and nothing else of it changes.
LEMMA AtType ==
  ASSUME PullRequestsTypeOK, NEW e \in Events, NEW s, At(e, s),
         s \in {"unused", "found", "fetched", "eligible", "merged", "refused", "done"}
  PROVE  /\ event' \in [Events -> Handler]
         /\ event'[e].at = s /\ event'[e].pr = event[e].pr
         /\ \A f \in Events : f # e => event'[f] = event[f]
  BY DEF PullRequestsTypeOK, At, Handler

\* Every action of the check events keeps the types and MarkInv.
LEMMA HandlingMarks ==
  ASSUME PrInv, MarkInv, NEW e \in Events, Handling(e)
  PROVE  PullRequestsTypeOK' /\ MarkInv'
<1> USE DEF PrInv, MarkInv, MarkedMeansMerged
<1> DEFINE p == event[e].pr
<1>0. event[e] \in Handler /\ p \in PRs
  BY DEF PullRequestsTypeOK, Handler
<1>1. CASE Fetch(e)
  <2>1. CASE event' = [event EXCEPT ![e].at = "fetched", ![e].head = Head(p)]
    <3>1. Head(p) \in 0..MaxRuns
      BY <1>0, HeadType DEF TypeInv
    <3>2. event' \in [Events -> Handler]
      <4>1. [event[e] EXCEPT !.at = "fetched", !.head = Head(p)] \in Handler
        BY <1>0, <3>1 DEF Handler
      <4>2. event \in [Events -> Handler]
        BY DEF PullRequestsTypeOK
      <4>3. event' = [event EXCEPT ![e] = [event[e] EXCEPT !.at = "fetched", !.head = Head(p)]]
        BY <2>1
      <4> QED
        BY <4>1, <4>2, <4>3
    <3>3. \A f \in Events : event'[f].at = "merged" => event[f].at = "merged" /\ event'[f] = event[f]
      BY <1>0, <2>1 DEF PullRequestsTypeOK, Handler
    <3> QED
      BY <1>1, <3>2, <3>3 DEF Fetch, PullRequestsTypeOK
  <2>2. CASE At(e, "refused")
    BY <1>1, <2>2, AtType DEF Fetch, PullRequestsTypeOK
  <2> QED
    BY <1>1, <2>1, <2>2 DEF Fetch
<1>2. CASE Check(e)
  <2>1. CASE At(e, "eligible")
    BY <1>2, <2>1, AtType DEF Check, PullRequestsTypeOK
  <2>2. CASE At(e, "refused")
    BY <1>2, <2>2, AtType DEF Check, PullRequestsTypeOK
  <2> QED
    BY <1>2, <2>1, <2>2 DEF Check
<1>3. CASE MergeByServer(e)
  <2>1. PICK s \in {"merged", "refused"} : At(e, s)
    BY <1>3 DEF MergeByServer
  <2>2. /\ event' \in [Events -> Handler]
        /\ event'[e].at = s /\ event'[e].pr = p
        /\ \A f \in Events : f # e => event'[f] = event[f]
    BY <2>1, AtType
  <2>3. CASE /\ merged' = [merged EXCEPT ![p] = "server"]
             /\ closed' = [closed EXCEPT ![p] = "sent"]
    <3>1. \A q \in PRs : merged[q] # "open" => merged'[q] # "open"
      BY <1>0, <2>3 DEF PullRequestsTypeOK
    <3>2. merged'[p] # "open" /\ \A q \in PRs : q # p => closed'[q] = closed[q]
      BY <1>0, <2>3 DEF PullRequestsTypeOK
    <3>3. \A m \in marked : m[1] \in PRs
      BY DEF PullRequestsTypeOK
    <3>4. UNCHANGED <<vars, green, originalRun, told, marked>>
      BY <1>3 DEF MergeByServer
    <3>5. \A f \in Events : event[f].pr \in PRs
      BY DEF PullRequestsTypeOK, Handler
    <3>6. PullRequestsTypeOK'
      BY <1>0, <2>2, <2>3, <3>4 DEF PullRequestsTypeOK
    <3> QED
      BY <1>0, <2>2, <3>1, <3>2, <3>3, <3>4, <3>5, <3>6
  <2>4. CASE At(e, "refused") /\ UNCHANGED <<merged, closed>>
    <3>1. event'[e].at = "refused"
      BY <2>4, AtType
    <3>2. UNCHANGED <<vars, green, originalRun, told, marked>>
      BY <1>3 DEF MergeByServer
    <3> QED
      BY <2>2, <2>4, <3>1, <3>2 DEF PullRequestsTypeOK
  <2> QED
    BY <1>3, <2>3, <2>4 DEF MergeByServer
<1>4. CASE Record(e)
  <2>1. /\ event' = [event EXCEPT ![e] = Idle("done")] /\ UNCHANGED <<vars, merged, green, closed, originalRun, told>>
    BY <1>4 DEF Record
  <2>2. event' \in [Events -> Handler]
        /\ \A f \in Events : event'[f].at = "merged" => event[f].at = "merged" /\ event'[f] = event[f]
    BY <2>1, IdleType, SomePR DEF PullRequestsTypeOK
  <2>3. \A m \in marked' : m \in marked \/ (m = <<p, event[e].row>> /\ event[e].at = "merged")
    BY <1>4 DEF Record, Recorded
  <2>4. marked' \subseteq PRs \X (Runs \cup {ParentRow})
    BY <1>0, <2>3 DEF PullRequestsTypeOK, Handler
  <2>5. MarkedMeansMerged'
    BY <2>1, <2>3
  <2> QED
    BY <2>1, <2>2, <2>4, <2>5 DEF PullRequestsTypeOK
<1> QED
  BY <1>1, <1>2, <1>3, <1>4 DEF Handling

LEMMA CheckEventMarks ==
  ASSUME PrInv, MarkInv, NEW e \in Events, NEW p \in PRs, CheckEvent(e, p)
  PROVE  PullRequestsTypeOK' /\ MarkInv'
<1> USE DEF PrInv, MarkInv, MarkedMeansMerged
<1>1. PICK row \in Found(p) :
         event' = [event EXCEPT ![e] = [at |-> "found", pr |-> p, row |-> row, head |-> 0]]
  BY DEF CheckEvent
<1>2. row \in Runs \cup {ParentRow} /\ 0 \in 0..MaxRuns
  BY <1>1, FeedbackAssumption DEF Found
<1>3. event' \in [Events -> Handler]
      /\ \A f \in Events : event'[f].at = "merged" => event[f].at = "merged" /\ event'[f] = event[f]
  BY <1>1, <1>2 DEF PullRequestsTypeOK, Handler
<1> QED
  BY <1>3 DEF CheckEvent, PullRequestsTypeOK

\* The events that tell of merges, and the people.
LEMMA TellingMarks ==
  ASSUME PrInv, MarkInv, NEW p \in PRs,
         Telling(p) \/ Redeliver(p) \/ Lose(p) \/ MergeByPeople(p) \/ ChecksPass(p)
  PROVE  PullRequestsTypeOK' /\ MarkInv'
<1> USE DEF PrInv, MarkInv, MarkedMeansMerged, ClosedAt
<1>1. CASE ReadMerged(p)
  BY <1>1 DEF ReadMerged, Found, PullRequestsTypeOK
<1>2. CASE TellMerged(p)
  <2>1. marked' = marked \cup {<<p, originalRun[p]>>}
    BY <1>2 DEF TellMerged
  <2>2. originalRun[p] \in Runs \cup {ParentRow} /\ merged[p] # "open"
    BY <1>2 DEF TellMerged, PullRequestsTypeOK
  <2>3. marked' \subseteq PRs \X (Runs \cup {ParentRow})
    BY <2>1, <2>2 DEF PullRequestsTypeOK
  <2> QED
    BY <1>2, <2>1, <2>2, <2>3 DEF TellMerged, PullRequestsTypeOK
<1>3. CASE Redeliver(p) \/ Lose(p)
  BY <1>3 DEF Redeliver, Lose, PullRequestsTypeOK
<1>4. CASE MergeByPeople(p)
  <2>1. /\ \A q \in PRs : merged[q] # "open" => merged'[q] # "open"
        /\ merged'[p] # "open" /\ \A q \in PRs : q # p => closed'[q] = closed[q]
    BY <1>4 DEF MergeByPeople, PullRequestsTypeOK
  <2>2. (\A m \in marked : m[1] \in PRs) /\ (\A f \in Events : event[f].pr \in PRs)
    BY DEF PullRequestsTypeOK, Handler
  <2>3. UNCHANGED <<vars, green, event, originalRun, told, marked>>
    BY <1>4 DEF MergeByPeople
  <2>4. PullRequestsTypeOK'
    BY <1>4, <2>3 DEF MergeByPeople, PullRequestsTypeOK
  <2> QED
    BY <2>1, <2>2, <2>3, <2>4
<1>5. CASE ChecksPass(p)
  <2>1. Head(p) \in 0..MaxRuns
    BY HeadType DEF TypeInv
  <2> QED
    BY <1>5, <2>1 DEF ChecksPass, PullRequestsTypeOK
<1> QED
  BY <1>1, <1>2, <1>3, <1>4, <1>5 DEF Telling

LEMMA PrStep ==
  ASSUME PrInv, MarkInv, [PullRequestsNext]_allVars
  PROVE  PrInv' /\ MarkInv'
<1>1. TypeInv'
  BY StepIsFeedback, OtherType, NextRun DEF PrInv, TypeInv
<1>2. CASE FeedbackStep \/ UNCHANGED allVars
  <2>1. UNCHANGED prVars
    BY <1>2 DEF FeedbackStep, allVars
  <2> QED
    BY <1>1, <2>1 DEF prVars, PrInv, PullRequestsTypeOK, MarkInv, MarkedMeansMerged
<1>3. CASE Died
  <2>1. event' \in [Events -> Handler]
        /\ \A e \in Events : event'[e].at = "merged" => event[e].at = "merged" /\ event'[e] = event[e]
    BY <1>3, IdleType, SomePR DEF Died, PrInv, PullRequestsTypeOK
  <2>2. closed' \in [PRs -> {"none", "sent", "read", "done", "lost"}]
        /\ \A p \in PRs : closed'[p] # "none" => closed[p] # "none"
    BY <1>3 DEF Died, PrInv, PullRequestsTypeOK
  <2>3. /\ originalRun' \in [PRs -> Runs \cup {ParentRow}]
        /\ UNCHANGED <<merged, green, told, marked>>
    BY <1>3 DEF Died
  <2> QED
    BY <1>1, <2>1, <2>2, <2>3 DEF PrInv, PullRequestsTypeOK, MarkInv, MarkedMeansMerged
<1>4. ASSUME NEW e \in Events, Handling(e) \/ \E p \in PRs : CheckEvent(e, p)
      PROVE  PrInv' /\ MarkInv'
  BY <1>1, <1>4, HandlingMarks, CheckEventMarks DEF PrInv
<1>5. ASSUME NEW p \in PRs, Telling(p) \/ Redeliver(p) \/ Lose(p) \/ MergeByPeople(p) \/ ChecksPass(p)
      PROVE  PrInv' /\ MarkInv'
  BY <1>1, <1>5, TellingMarks DEF PrInv
<1> QED
  BY <1>2, <1>3, <1>4, <1>5 DEF PullRequestsNext

\* auto_merged of any row says true only of a pull request that is merged, although the
\* handlers of check events, of merge events and of their redelivery overwrite each other.
THEOREM AlwaysMarkedMeansMerged == PullRequestsSpec => []MarkedMeansMerged
<1>1. PullRequestsSpec => [](PrInv /\ MarkInv)
  BY PrInit, PrStep, PTL DEF PullRequestsSpec
<1> QED
  BY <1>1, PTL DEF MarkInv
=============================================================================
