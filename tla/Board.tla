------------------------------- MODULE Board -------------------------------
(***************************************************************************)
(* The Linear board and the runs of its issues, as the parts that meet on  *)
(* it see them: the notifier of the runner (notifier/linear.ts) and the PM *)
(* agent move issues, Linear reports a move as a webhook                   *)
(* (webhook/handler.ts), and the webhook starts or pauses a run.           *)
(*                                                                         *)
(* A run is reduced to its row and its place in memory: PipelineRunner and *)
(* Execution model what happens inside.  Webhooks are delivered late, in   *)
(* any order, or not at all.                                               *)
(***************************************************************************)
EXTENDS Naturals, Integers, FiniteSets, Sequences

CONSTANTS
    Issues,
    Routed,       \* the issues with a pipeline and a repository: the others get no run
    Triggers,     \* the states of the board whose webhooks start or pause a run
    Threshold     \* maxConsecutiveFailures

ASSUME BoardAssumption ==
    /\ IsFiniteSet(Issues) /\ Routed \subseteq Issues
    /\ Triggers \subseteq {"Todo", "Blocked"} /\ Threshold \in Nat \ {0}

VARIABLES
    issue,     \* at Linear: the state and the needs-design label
    run,       \* the newest row, its execution, the leading failed rows
    hooks      \* webhooks on their way; bound: one of a kind for an issue

boardVars == <<issue, run, hooks>>

\* "Other": In Review, Done, Canceled, of which nothing is expected.
States == {"Triage", "Backlog", "Todo", "In Progress", "Blocked", "Other"}

\* completed rows: with an open pull request, merged by the runner, without either.
Shipped == {"pr", "merged", "completed"}
Rows == {"none", "running", "paused", "failed"} \cup Shipped   \* a retriable row counts as paused

BoardTypeOK ==
    /\ issue \in [Issues -> [state : States, tagged : BOOLEAN]]
    /\ run \in [Issues -> [row : Rows, streak : 0..Threshold,
                           phase : {"idle", "queued", "working", "ending"}]]
    /\ hooks \subseteq Issues \X {"Todo", "Blocked"}

\* What is left on a board: an issue that waits for a repository, one that was moved
\* back after its merge, one given up after its runs had failed.
Standing == {<<"Todo", "none", 0>>, <<"In Progress", "merged", 0>>, <<"Other", "failed", Threshold>>}

BoardInit ==
    /\ \E f \in [Issues -> {<<"Triage", "none", 0>>} \cup Standing] :
         /\ \A i \in Routed : f[i] \in {<<"Triage", "none", 0>>, <<"Todo", "none", 0>>}
         /\ \A i \in Issues \ Routed : f[i] \in Standing
         /\ issue = [i \in Issues |-> [state |-> f[i][1], tagged |-> FALSE]]
         /\ run = [i \in Issues |-> [row |-> f[i][2], streak |-> f[i][3], phase |-> "idle"]]
    /\ hooks = {}

----------------------------------------------------------------------------
(* Linear: a change of the state is reported (triggerMap).                  *)

Move(i, s) ==
    /\ issue' = [issue EXCEPT ![i].state = s]
    /\ hooks' = IF issue[i].state # s THEN hooks \cup ({i} \X ({s} \cap Triggers))
                ELSE hooks

\* transitionState: errors are logged.
TryMove(i, s) == Move(i, s) \/ UNCHANGED <<issue, hooks>>

----------------------------------------------------------------------------
(* The failed rows.                                                         *)

Broken(i) == run[i].streak >= Threshold

\* The newest row becomes failed.  Rows behind a completed one are not kept.
Failing(i) ==
    CASE run[i].row = "failed" -> {run[i].streak}
      [] run[i].row \in Shipped -> 1..Threshold
      [] run[i].row \notin Shipped \cup {"failed"} ->
            {IF Broken(i) THEN Threshold ELSE run[i].streak + 1}

\* The newest row becomes paused: it is no longer one of the terminal rows.
Unended(i) ==
    CASE run[i].row = "failed" /\ Broken(i) -> {Threshold - 1, Threshold}
      [] run[i].row = "failed" /\ ~Broken(i) -> {run[i].streak - 1}
      [] run[i].row \in Shipped -> 0..Threshold
      [] run[i].row \notin Shipped \cup {"failed"} -> {run[i].streak}

----------------------------------------------------------------------------
(* The runner.                                                              *)

\* start: a duplicate is skipped, and so is an issue whose branch has an open
\* pull request; a branch without one is deleted (branch-classifier.ts).
Startable(i) == run[i].phase = "idle" /\ run[i].row # "pr"
StartRun(i) ==
    run' = IF Startable(i)
           THEN [run EXCEPT ![i].row = "running", ![i].phase = "queued"] ELSE run

\* resume, approved or by the recovery of the tick.
ResumeRun(i) ==
    /\ run[i].phase = "idle" /\ run[i].row = "paused"
    /\ run' = [run EXCEPT ![i].row = "running", ![i].phase = "queued"]
    /\ UNCHANGED <<issue, hooks>>

\* The job begins: onPipelineStart.
BeginRun(i) ==
    /\ run[i].phase = "queued"
    /\ run' = [run EXCEPT ![i].phase = "working"]
    /\ TryMove(i, "In Progress")

\* The run is over; the issue stays active in memory until the job's finally.
Ends(i, row, streaks) ==
    /\ run[i].phase = "working"
    /\ \E n \in streaks : run' = [run EXCEPT ![i] = [row |-> row, streak |-> n, phase |-> "ending"]]

\* failPipeline for good, with onPipelineFailed.
FailRun(i) == Ends(i, "failed", Failing(i)) /\ TryMove(i, "Blocked")

\* The run is completed: onPipelineComplete.
CompleteRun(i) ==
    \/ \E row \in {"pr", "merged"} : Ends(i, row, {0}) /\ TryMove(i, "Other")
    \/ Ends(i, "completed", {0}) /\ UNCHANGED <<issue, hooks>>

\* The run waits: for an approval, with onHumanReviewNeeded, for its next try, or
\* because a pause reached it.
WaitRun(i) == Ends(i, "paused", Unended(i)) /\ TryMove(i, "Other")

ReleaseRun(i) ==
    /\ run[i].phase = "ending"
    /\ run' = [run EXCEPT ![i].phase = "idle"]
    /\ UNCHANGED <<issue, hooks>>

\* pause: it writes the row of the run in memory, whatever that row says.
PauseRun(i) ==
    IF run[i].phase = "idle" THEN UNCHANGED run
    ELSE \E n \in Unended(i) : run' = [run EXCEPT ![i].row = "paused", ![i].streak = n]

----------------------------------------------------------------------------
(* The webhook of Linear.  The budget may refuse a start.                   *)

Deliver(i, s) ==
    /\ <<i, s>> \in hooks /\ hooks' = hooks \ {<<i, s>>}
    /\ \/ s = "Todo" /\ i \in Routed /\ StartRun(i)
       \/ s = "Blocked" /\ PauseRun(i)
       \/ UNCHANGED run
    /\ UNCHANGED issue

\* A human, /pm assign or an automation of Linear moves the issue.
HumanMove(i, s) == issue[i].state # "Triage" /\ Move(i, s) /\ UNCHANGED run
=============================================================================
