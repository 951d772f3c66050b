-------------------------- MODULE ExecutionProofs --------------------------
(***************************************************************************)
(* Theorems about Execution that hold for every list of stages, every      *)
(* iteration count, budget and policy, any number of crashes, of rivals'   *)
(* visits and of closed connections.                                       *)
(*                                                                         *)
(* The types are inductive with PlaceInv, what the runner knows of the     *)
(* pass at each place: a stage in work is a stage of the list, a handoff   *)
(* is taken from a completed pass only, the deep-review loop runs only     *)
(* with both of its stages configured, a stream that creates a session has *)
(* registered it.  On it rest five invariants, one for each property:      *)
(* LockInv (who holds the lock), SessionInv (which session the row means), *)
(* ResolveInv and DraftInv (what the draft flag and rebaseConflict         *)
(* remember of passes that are over) and BudgetInv (where the budget has   *)
(* been compared since tokens were last added).                            *)
(***************************************************************************)
EXTENDS Execution, TLAPS

\* What holds of the pass, and of the indices into the stages, at each place.
PlaceInv ==
    /\ at = "pass" => pass \in Calls \cup Results
    /\ at = "idle" => pass = NoPass
    /\ at \in {"ralph", "validate", "settle"} => pass \in Results /\ pass.at = "completed"
    /\ at = "counted" => pass \in Results
    /\ at \in {"ralph", "counted", "validate", "settle"} => next <= Final
    /\ at = "pass" /\ pass.purpose \in {"main", "ralph", "retry", "validation"} =>
         next <= Final
    /\ at = "fix" => fixAt \in FixStages
    /\ at = "pass" /\ pass.purpose = "fix" =>
         fixAt \in FixStages /\ pass.stage = Stages[fixAt]
    /\ at = "pass" /\ pass.purpose \in {"deepImplement", "deepReview"} => Reviewable
    /\ at = "providers" => Reviewable
    /\ pass.at = "stream" /\ pass.shape = "create" => session \in registered

\* The part of TypeOK about the variables of Execution itself.
OuterTypeOK ==
    /\ holder \in OwnPool \cup {Rival, Free} /\ depth \in 0..2
    /\ (holder = Free) = (depth = 0)
    /\ rival \in BOOLEAN /\ conflict \in BOOLEAN
    /\ prUrl \in BOOLEAN /\ merged \in BOOLEAN
    /\ pr \in {"none", "draft", "ready"}
    /\ crashes \in 0..MaxCrashes /\ rivals \in 0..MaxRivals /\ lost \in 0..MaxLost

TypeInv == ExecTypeOK /\ LoopTypeOK /\ OuterTypeOK /\ PlaceInv

----------------------------------------------------------------------------
(* The constants, and the operators of the model.                           *)

LEMMA StagesAre ==
  /\ Final \in Nat /\ Final > 0
  /\ \A n \in 1..Final : Stages[n] \in StageNames
  /\ "implement" \in StageNames /\ "review" \in StageNames
  /\ MaxSessions \in Nat /\ MaxSessions > 0
  /\ \A n \in FixStages : n \in 1..Final
  BY LoopAssumption, SessionAssumption DEF Final, FixStages

LEMMA PositionIs ==
  /\ \A n \in 1..Final : Position(Stages[n]) \in 1..Final
  /\ Reviewable => Position("implement") \in 1..Final /\ Position("review") \in 1..Final
  BY DEF Position, Reviewable

\* What executeStage() starts with.
LEMMA BeginType ==
  ASSUME ExecTypeOK, NEW p \in Purposes, NEW s \in StageNames, NEW b \in BOOLEAN,
         Begin(p, s, b)
  PROVE  /\ ExecTypeOK' /\ pass' \in Calls
         /\ pass'.purpose = p /\ pass'.stage = s /\ pass'.at = "preflight"
<1>1. pass' \in Calls
  BY DEF Begin, Calls, ClaimsFirst, ExecTypeOK, Shapes
<1>2. initiated' \in BOOLEAN
  BY DEF Begin, ExecTypeOK
<1> QED
  BY <1>1, <1>2 DEF Begin, ExecTypeOK

\* What failPipeline leaves.
LEMMA FailType ==
  ASSUME LoopTypeOK, NEW s \in 1..Final, NEW t, Fail(s, t)
  PROVE  /\ pass' = NoPass /\ at' = "idle"
         /\ status' \in {"running", "retriable", "failed", "completed"}
         /\ retries' \in 0..MaxTransientRetries
         /\ saved' \in [handoff : Handoffs, next : 1..Len(Stages)]
  BY LoopAssumption DEF Fail, LoopTypeOK, Final

----------------------------------------------------------------------------
(* The executor.                                                            *)

LEMMA FailedType ==
  ASSUME pass \in Calls, NEW t \in BOOLEAN, NEW c \in 0..1
  PROVE  /\ Failed(t, c) \in Results
         /\ Failed(t, c).at = "failed" /\ Failed(t, c).purpose = pass.purpose
         /\ Failed(t, c).stage = pass.stage
  BY DEF Failed, Calls, Results

LEMMA CompletedType ==
  ASSUME pass \in Calls, NEW f \in Findings
  PROVE  /\ Completed(f) \in Results
         /\ Completed(f).at = "completed" /\ Completed(f).purpose = pass.purpose
         /\ Completed(f).stage = pass.stage
  BY DEF Completed, Calls, Results

\* What a step of the executor does to the pass.
LEMMA ExecShape ==
  ASSUME ExecTypeOK, at = "pass" => pass \in Calls \cup Results, at = "pass",
         pass.at = "stream" /\ pass.shape = "create" => session \in registered,
         ExecNext
  PROVE  /\ ExecTypeOK' /\ pass' \in Calls \cup Results
         /\ pass'.purpose = pass.purpose /\ pass'.stage = pass.stage
         /\ pass'.at = "stream" /\ pass'.shape = "create" => session' \in registered'
         /\ pass \in Calls
<1> USE DEF ExecTypeOK
<1>0. pass.at \in {"preflight", "stream"} => pass \in Calls
  BY DEF Results
<1>1. CASE PreflightFails
  <2>1. PICK t \in BOOLEAN : pass' = Failed(t, 0)
    BY <1>1 DEF PreflightFails
  <2>2. pass \in Calls
    BY <1>0, <1>1 DEF PreflightFails
  <2> QED
    BY <1>1, <2>1, <2>2, FailedType DEF PreflightFails
<1>2. CASE OpenStream
  <2> DEFINE shape == ResolveSession(pass.stage)
  <2>1. pass \in Calls /\ pass' = [pass EXCEPT !.at = "stream", !.shape = shape]
    BY <1>0, <1>2 DEF OpenStream
  <2>2. shape \in Shapes /\ (shape = "create" => session # 0)
    BY DEF ResolveSession, Shapes
  <2>3. pass' \in Calls /\ pass'.shape = shape /\ pass'.purpose = pass.purpose
        /\ pass'.stage = pass.stage
    BY <2>1, <2>2 DEF Calls
  <2>4. registered' = registered \cup (IF shape = "create" THEN {session} ELSE {})
        /\ UNCHANGED <<session, initiated, rowSession, transcripts, minted>>
    BY <1>2 DEF OpenStream
  <2> QED
    BY <2>1, <2>2, <2>3, <2>4, StagesAre
<1>3. CASE StreamStalls
  <2>1. PICK t \in BOOLEAN : pass' = Failed(t, 0)
    BY <1>3 DEF StreamStalls
  <2>2. pass \in Calls
    BY <1>0, <1>3 DEF StreamStalls
  <2> QED
    BY <1>3, <2>1, <2>2, FailedType DEF StreamStalls
<1>4. CASE StreamFails
  <2>1. PICK t \in BOOLEAN : pass' = Failed(t, 1)
    BY <1>4 DEF StreamFails
  <2>2. pass \in Calls
    BY <1>0, <1>4 DEF StreamFails
  <2> QED
    BY <1>4, <2>1, <2>2, FailedType DEF StreamFails, WritesTranscript
<1>5. CASE StreamEnds
  <2>1. PICK f \in Findings : pass' = Completed(f)
    BY <1>5 DEF StreamEnds, FindingsOf, Findings
  <2>2. pass \in Calls
    BY <1>0, <1>5 DEF StreamEnds
  <2> QED
    BY <1>5, <2>1, <2>2, CompletedType DEF StreamEnds, WritesTranscript
<1>6. CASE Collide
  <2>2. pass \in Calls
    BY <1>0, <1>6 DEF Collide
  <2>3. PICK t \in BOOLEAN : pass' = Failed(t, 0)
    BY <1>6 DEF Collide
  <2>4. minted + 1 \in 0..MaxSessions
    BY <1>6, StagesAre DEF Collide
  <2>5. pass' \in Results /\ pass'.at = "failed" /\ pass'.purpose = pass.purpose
        /\ pass'.stage = pass.stage
    BY <2>2, <2>3, FailedType
  <2> QED
    BY <1>6, <2>2, <2>4, <2>5 DEF Collide
<1> QED
  BY <1>1, <1>2, <1>3, <1>4, <1>5, <1>6 DEF ExecNext

LEMMA InFlightType ==
  ASSUME TypeInv, InFlight
  PROVE  TypeInv'
<1>1. ExecTypeOK /\ LoopTypeOK /\ at = "pass" /\ ExecNext
      /\ UNCHANGED <<loopVars, lockVars, prVars, rival, faultVars>>
  BY DEF TypeInv, InFlight
<1>2. /\ ExecTypeOK' /\ pass' \in Calls \cup Results
      /\ pass'.purpose = pass.purpose /\ pass'.stage = pass.stage
      /\ pass'.at = "stream" /\ pass'.shape = "create" => session' \in registered'
  BY <1>1, ExecShape DEF TypeInv, PlaceInv
<1>3. LoopTypeOK' /\ OuterTypeOK'
  BY <1>1 DEF TypeInv, LoopTypeOK, OuterTypeOK, loopVars, lockVars, prVars, faultVars
<1>4. PlaceInv'
  BY <1>1, <1>2 DEF TypeInv, PlaceInv, loopVars, FixStages, Final
<1> QED
  BY <1>2, <1>3, <1>4 DEF TypeInv

----------------------------------------------------------------------------
(* The loops.                                                               *)

LEMMA PassIs ==
  ASSUME pass \in Calls \cup Results
  PROVE  /\ pass.purpose \in Purposes /\ pass.stage \in StageNames
         /\ pass.first \in BOOLEAN /\ pass # NoPass
         /\ pass.at \in {"completed", "failed"} => pass \in Results
         /\ pass \in Results => pass.cost \in 0..1 /\ pass.at \in {"completed", "failed"}
         /\ pass \in Results /\ pass.at # "failed" => pass.findings \in Findings
         /\ pass \in Results => pass.at # "stream"
  BY DEF Calls, Results, NoPass

\* What the steps of the loops leave alone.
LEMMA OuterFrame ==
  ASSUME OuterTypeOK, UNCHANGED <<lockVars, prVars, rival, faultVars>>
  PROVE  OuterTypeOK'
  BY DEF OuterTypeOK, lockVars, prVars, faultVars

LEMMA KeptType ==
  ASSUME ExecTypeOK, UNCHANGED Kept, pass' \in {NoPass} \cup Calls \cup Results
  PROVE  ExecTypeOK'
  BY DEF ExecTypeOK, Kept

\* Any pass that the loops or the push section start.
LEMMA StartType ==
  ASSUME TypeInv, NEW p \in Purposes, NEW s \in StageNames, NEW b \in BOOLEAN,
         StartPass(p, s, b),
         p \in {"main", "ralph", "retry", "validation"} => next' <= Final,
         p = "fix" => fixAt' \in FixStages /\ s = Stages[fixAt'],
         p \in {"deepImplement", "deepReview"} => Reviewable
  PROVE  /\ ExecTypeOK' /\ PlaceInv' /\ at' = "pass"
         /\ pass' \in Calls /\ pass'.purpose = p /\ pass'.at = "preflight"
<1>1. /\ ExecTypeOK' /\ pass' \in Calls /\ at' = "pass"
      /\ pass'.purpose = p /\ pass'.stage = s /\ pass'.at = "preflight"
  BY BeginType DEF TypeInv, StartPass
<1> QED
  BY <1>1 DEF PlaceInv, FixStages, Reviewable, Final

\* A pass of the stage loop.
LEMMA StageStartType ==
  ASSUME TypeInv, NEW p \in {"main", "ralph", "retry", "validation"},
         NEW s \in StageNames, \E b \in BOOLEAN : StartPass(p, s, b), next' <= Final
  PROVE  ExecTypeOK' /\ PlaceInv' /\ at' = "pass"
<1>1. /\ p \in Purposes /\ p # "fix" /\ p \notin {"deepImplement", "deepReview"}
  BY DEF Purposes
<1>2. PICK b \in BOOLEAN : StartPass(p, s, b)
  OBVIOUS
<1> QED
  BY <1>1, <1>2, StartType

LEMMA FailsType ==
  ASSUME TypeInv, NEW s \in 1..Final, NEW t, Fail(s, t), UNCHANGED Kept
  PROVE  /\ ExecTypeOK' /\ PlaceInv' /\ at' = "idle" /\ pass' = NoPass
         /\ status' \in {"running", "retriable", "failed", "completed"}
         /\ retries' \in 0..MaxTransientRetries
         /\ saved' \in [handoff : Handoffs, next : 1..Len(Stages)]
<1>1. /\ pass' = NoPass /\ at' = "idle"
      /\ status' \in {"running", "retriable", "failed", "completed"}
      /\ retries' \in 0..MaxTransientRetries
      /\ saved' \in [handoff : Handoffs, next : 1..Len(Stages)]
  BY FailType DEF TypeInv
<1>2. ExecTypeOK'
  BY <1>1, KeptType DEF TypeInv
<1> QED
  BY <1>1, <1>2 DEF PlaceInv, NoPass

LEMMA GotoType ==
  ASSUME TypeInv, NEW p, Goto(p), UNCHANGED Kept
  PROVE  /\ ExecTypeOK' /\ at' = p /\ UNCHANGED <<pass, status, retries, saved>>
         /\ pass.at = "stream" /\ pass.shape = "create" => session' \in registered'
<1>1. at' = p /\ UNCHANGED <<pass, status, retries, saved>>
  BY DEF Goto
<1> QED
  BY <1>1, KeptType DEF TypeInv, ExecTypeOK, PlaceInv, Kept

\* A pass of one purpose or another that has ended.
LEMMA EndedIs ==
  ASSUME TypeInv, at = "pass", NEW p, Ended(p)
  PROVE  /\ pass \in Results /\ pass.purpose = p /\ pass.cost \in 0..1
         /\ pass.at \in {"completed", "failed"}
         /\ pass.at # "failed" => pass.at = "completed" /\ pass.findings \in Findings
         /\ counted + pass.cost \in Nat
<1>1. pass \in Results /\ pass.purpose = p /\ pass.at \in {"completed", "failed"}
  BY PassIs DEF TypeInv, PlaceInv, Ended
<1>2. counted \in Nat
  BY DEF TypeInv, LoopTypeOK
<1> QED
  BY <1>1, <1>2, PassIs

\* The loop over the stages: one step per action.
LEMMA StageLoopType ==
  ASSUME TypeInv,
         \/ StageBegins \/ RalphStarts \/ RalphChecks \/ RalphReimplemented
         \/ StageRetried \/ StageCounted \/ StageJudged \/ Validated \/ Revalidated
         \/ StageSettles
  PROVE  ExecTypeOK' /\ LoopTypeOK' /\ PlaceInv'
<1>0. PlaceInv /\ ExecTypeOK /\ LoopTypeOK
  BY DEF TypeInv
<1> USE StagesAre
<1>a. next <= Final => next \in 1..Final /\ Current \in StageNames
  BY <1>0 DEF LoopTypeOK, Final, Current
<1>1. CASE StageBegins
  <2>1. /\ at = "stage" /\ next \in 1..Final /\ Current \in StageNames
        /\ StartPass("main", Current, FALSE) /\ mainFirst' = ClaimsFirst /\ round' = 0
        /\ UNCHANGED <<status, next, fixAt, found, handoff, ralph, counted, saved,
                       retries, verdict, draft>>
    BY <1>a, <1>1 DEF StageBegins
  <2>2. ExecTypeOK' /\ PlaceInv' /\ at' = "pass"
    <3>1. next' <= Final
      BY <2>1
    <3>2. \E b \in BOOLEAN : StartPass("main", Current, b)
      BY <2>1
    <3> QED
      BY <2>1, <3>1, <3>2, StageStartType
  <2>3. LoopTypeOK'
    BY <1>0, <2>1, <2>2 DEF LoopTypeOK, LoopPoints, ClaimsFirst
  <2> QED
    BY <2>2, <2>3
<1>2. CASE RalphStarts
  <2>1. at = "pass" /\ pass \in Results /\ pass.at = "completed" /\ pass.purpose = "main"
        /\ counted' \in Nat
    BY <1>2, EndedIs DEF RalphStarts, RalphDue
  <2>2. /\ Goto("ralph") /\ ralph' = "gaps" /\ round' = 1
        /\ UNCHANGED <<next, local, handoff, verdict, draft, Kept>>
    BY <1>2 DEF RalphStarts
  <2>3. LoopTypeOK'
    BY <1>0, <2>1, <2>2, GotoType DEF LoopTypeOK, LoopPoints, local, RalphAnswers
  <2>4. PlaceInv'
    BY <1>0, <2>1, <2>2, GotoType DEF PlaceInv, Final, local
  <2> QED
    BY <2>2, <2>3, <2>4, GotoType
<1>3. CASE RalphChecks
  <2>1. /\ at = "ralph" /\ pass \in Results /\ next \in 1..Final
        /\ UNCHANGED <<next, local, handoff, counted, draft>>
        /\ verdict' \in RalphAnswers /\ ralph' \in RalphAnswers
    BY <1>0, <1>a, <1>3 DEF RalphChecks, PlaceInv, RalphAnswers
  <2>2. CASE Goto("counted") /\ UNCHANGED <<round, Kept>>
    <3>1. LoopTypeOK'
      BY <1>0, <2>1, <2>2, GotoType DEF LoopTypeOK, LoopPoints, local
    <3>2. PlaceInv'
      BY <1>0, <2>1, <2>2, GotoType DEF PlaceInv, Final, local
    <3> QED
      BY <2>2, <3>1, <3>2, GotoType
  <2>3. CASE /\ StartPass("ralph", "implement", session # 0 /\ ~ClaimsFirst)
             /\ round' = round + 1 /\ UNCHANGED <<status, saved, retries>>
    <3>1. ExecTypeOK' /\ PlaceInv' /\ at' = "pass"
      <4>1. \E b \in BOOLEAN : StartPass("ralph", "implement", b)
        BY <2>3
      <4>2. next' <= Final
        BY <2>1
      <4> QED
        BY <4>1, <4>2, StageStartType
    <3>2. LoopTypeOK'
      BY <1>0, <2>1, <2>3, <3>1 DEF LoopTypeOK, LoopPoints, local
    <3> QED
      BY <3>1, <3>2
  <2> QED
    BY <1>3, <2>2, <2>3 DEF RalphChecks
<1>4. CASE RalphReimplemented
  <2>1. at = "pass" /\ pass \in Results /\ pass.purpose = "ralph" /\ counted' \in Nat
        /\ pass.at \in {"completed", "failed"}
    BY <1>4, EndedIs DEF RalphReimplemented
  <2>2. next \in 1..Final /\ UNCHANGED <<next, round, local, handoff, ralph, verdict, draft, Kept>>
    BY <1>0, <1>a, <1>4, <2>1 DEF RalphReimplemented, PlaceInv
  <2>3. CASE Fail(next, FALSE)
    <3>1. LoopTypeOK'
      BY <1>0, <2>1, <2>2, <2>3, FailsType DEF LoopTypeOK, LoopPoints, local
    <3> QED
      BY <2>2, <2>3, <3>1, FailsType
  <2>4. CASE Goto(IF pass.at = "failed" THEN "counted" ELSE "ralph")
    <3>1. LoopTypeOK'
      BY <1>0, <2>1, <2>2, <2>4, GotoType DEF LoopTypeOK, LoopPoints, local
    <3>2. PlaceInv'
      BY <1>0, <2>1, <2>2, <2>4, GotoType DEF PlaceInv, Final, local
    <3> QED
      BY <2>2, <2>4, <3>1, <3>2, GotoType
  <2> QED
    BY <1>4, <2>3, <2>4 DEF RalphReimplemented
<1>5. CASE StageRetried
  <2>1. /\ at = "pass" /\ round' = round + 1
        /\ pass.purpose \in {"main", "retry"}
        /\ UNCHANGED <<status, next, local, handoff, ralph, counted, saved, retries,
                       verdict, draft>>
    BY <1>5 DEF StageRetried, RetryDue, Broken, Ended
  <2>2. next \in 1..Final /\ Current \in StageNames /\ StartPass("retry", Current, FALSE)
    BY <1>0, <1>a, <1>5, <2>1 DEF PlaceInv, StageRetried
  <2>3. ExecTypeOK' /\ PlaceInv' /\ at' = "pass"
    <3>1. \E b \in BOOLEAN : StartPass("retry", Current, b)
      BY <2>2
    <3>2. next' <= Final
      BY <2>1, <2>2
    <3> QED
      BY <2>2, <3>1, <3>2, StageStartType
  <2>4. LoopTypeOK'
    BY <1>0, <2>1, <2>3 DEF LoopTypeOK, LoopPoints, local
  <2> QED
    BY <2>3, <2>4
<1>6. CASE StageCounted
  <2>1. /\ at = "pass" /\ pass \in Results /\ counted' \in Nat
        /\ pass.purpose \in {"main", "retry"}
    BY <1>6, EndedIs DEF StageCounted
  <2>2. /\ Goto("counted") /\ next <= Final
        /\ UNCHANGED <<next, round, local, handoff, ralph, verdict, draft, Kept>>
    BY <1>0, <1>6, <2>1 DEF StageCounted, PlaceInv
  <2>3. LoopTypeOK'
    BY <1>0, <2>1, <2>2, GotoType DEF LoopTypeOK, LoopPoints, local
  <2>4. PlaceInv'
    BY <1>0, <2>1, <2>2, GotoType DEF PlaceInv, Final, local
  <2> QED
    BY <2>2, <2>3, <2>4, GotoType
<1>7. CASE StageJudged
  <2>1. /\ at = "counted" /\ pass \in Results /\ next \in 1..Final /\ round' = 0
        /\ pass.at \in {"completed", "failed"}
        /\ UNCHANGED <<next, local, handoff, ralph, counted, verdict, draft, Kept>>
    BY <1>0, <1>a, <1>7, PassIs DEF StageJudged, PlaceInv
  <2>2. CASE \E t : Fail(next, t)
    <3>1. LoopTypeOK'
      BY <1>0, <2>1, <2>2, FailsType DEF LoopTypeOK, LoopPoints, local
    <3> QED
      BY <2>1, <2>2, <3>1, FailsType
  <2>3. CASE Goto("validate") /\ pass.at # "failed"
    <3>1. LoopTypeOK'
      BY <1>0, <2>1, <2>3, GotoType DEF LoopTypeOK, LoopPoints, local
    <3>2. PlaceInv'
      BY <1>0, <2>1, <2>3, GotoType DEF PlaceInv, Final, local
    <3> QED
      BY <2>1, <2>3, <3>1, <3>2, GotoType
  <2> QED
    BY <1>7, <2>1, <2>2, <2>3 DEF StageJudged
<1>8. CASE Validated
  <2>1. /\ at = "validate" /\ pass \in Results /\ pass.at = "completed" /\ next \in 1..Final
        /\ Current \in StageNames
        /\ UNCHANGED <<next, local, handoff, ralph, counted, verdict, draft>>
    BY <1>0, <1>a, <1>8 DEF Validated, PlaceInv
  <2>2. CASE Goto("settle") /\ UNCHANGED <<round, Kept>>
    <3>1. LoopTypeOK'
      BY <1>0, <2>1, <2>2, GotoType DEF LoopTypeOK, LoopPoints, local
    <3>2. PlaceInv'
      BY <1>0, <2>1, <2>2, GotoType DEF PlaceInv, Final, local
    <3> QED
      BY <2>2, <3>1, <3>2, GotoType
  <2>3. CASE /\ StartPass("validation", Current, FALSE)
             /\ round' = 1 /\ UNCHANGED <<status, saved, retries>>
    <3>1. ExecTypeOK' /\ PlaceInv' /\ at' = "pass"
      <4>1. \E b \in BOOLEAN : StartPass("validation", Current, b)
        BY <2>3
      <4>2. next' <= Final
        BY <2>1
      <4> QED
        BY <2>1, <4>1, <4>2, StageStartType
    <3>2. LoopTypeOK'
      BY <1>0, <2>1, <2>3, <3>1 DEF LoopTypeOK, LoopPoints, local
    <3> QED
      BY <3>1, <3>2
  <2>4. CASE (\E t : Fail(next, t)) /\ UNCHANGED <<round, Kept>>
    <3>1. LoopTypeOK'
      BY <1>0, <2>1, <2>4, FailsType DEF LoopTypeOK, LoopPoints, local
    <3> QED
      BY <2>4, <2>1, <3>1, FailsType
  <2> QED
    BY <1>8, <2>2, <2>3, <2>4 DEF Validated
<1>9. CASE Revalidated
  <2>1. /\ at = "pass" /\ pass \in Results /\ pass.purpose = "validation"
        /\ next \in 1..Final /\ Current \in StageNames
        /\ UNCHANGED <<next, local, handoff, ralph, counted, verdict, draft>>
    BY <1>0, <1>a, <1>9, EndedIs DEF Revalidated, PlaceInv
  <2>2. CASE pass.at = "completed" /\ Goto("settle") /\ UNCHANGED <<round, Kept>>
    <3>1. LoopTypeOK'
      BY <1>0, <2>1, <2>2, GotoType DEF LoopTypeOK, LoopPoints, local
    <3>2. PlaceInv'
      BY <1>0, <2>1, <2>2, GotoType DEF PlaceInv, Final, local
    <3> QED
      BY <2>2, <3>1, <3>2, GotoType
  <2>3. CASE /\ StartPass("validation", Current, FALSE)
             /\ round' = round + 1 /\ UNCHANGED <<status, saved, retries>>
    <3>1. ExecTypeOK' /\ PlaceInv' /\ at' = "pass"
      <4>1. \E b \in BOOLEAN : StartPass("validation", Current, b)
        BY <2>3
      <4>2. next' <= Final
        BY <2>1
      <4> QED
        BY <2>1, <4>1, <4>2, StageStartType
    <3>2. LoopTypeOK'
      BY <1>0, <2>1, <2>3, <3>1 DEF LoopTypeOK, LoopPoints, local
    <3> QED
      BY <3>1, <3>2
  <2>4. CASE (\E t : Fail(next, t)) /\ UNCHANGED <<round, Kept>>
    <3>1. LoopTypeOK'
      BY <1>0, <2>1, <2>4, FailsType DEF LoopTypeOK, LoopPoints, local
    <3> QED
      BY <2>4, <2>1, <3>1, FailsType
  <2> QED
    BY <1>9, <2>2, <2>3, <2>4 DEF Revalidated
<1>10. CASE StageSettles
  <2>1. /\ at = "settle" /\ pass.findings \in Findings /\ next \in 1..Final
        /\ handoff' \in Handoffs
        /\ UNCHANGED <<round, local, ralph, counted, verdict, draft, Kept>>
    <3>1. at = "settle" /\ pass.findings \in Findings /\ next <= Final
      BY <1>0, <1>10, PassIs DEF StageSettles, PlaceInv
    <3>2. handoff' \in Handoffs
      BY <1>10, <3>1 DEF StageSettles, WithTestQuality, Handoffs, Findings
    <3> QED
      BY <1>a, <1>10, <3>1, <3>2 DEF StageSettles
  <2>2. CASE /\ at' = "stage" /\ next' = next + 1 /\ pass' = NoPass
             /\ UNCHANGED <<status, retries, saved>>
    <3>1. LoopTypeOK'
      BY <1>0, <2>1, <2>2 DEF LoopTypeOK, LoopPoints, local, Final
    <3>2. ExecTypeOK'
      BY <1>0, <2>1, <2>2, KeptType
    <3>3. PlaceInv'
      BY <2>2 DEF PlaceInv, NoPass
    <3> QED
      BY <3>1, <3>2, <3>3
  <2>3. CASE Fail(next, FALSE) /\ UNCHANGED next
    <3>1. LoopTypeOK'
      BY <1>0, <2>1, <2>3, FailsType DEF LoopTypeOK, LoopPoints, local
    <3> QED
      BY <2>3, <2>1, <3>1, FailsType
  <2> QED
    BY <1>10, <2>2, <2>3 DEF StageSettles
<1> QED
  BY <1>1, <1>2, <1>3, <1>4, <1>5, <1>6, <1>7, <1>8, <1>9, <1>10

\* The loops after it, and the gates.
LEMMA LaterLoopsType ==
  ASSUME TypeInv,
         \/ StagesDone \/ FixBegins \/ FixEnds
         \/ DeepProviders \/ DeepConverges \/ DeepImplemented \/ DeepReviewed
         \/ GatesDecide
  PROVE  ExecTypeOK' /\ LoopTypeOK' /\ PlaceInv'
<1>0. PlaceInv /\ ExecTypeOK /\ LoopTypeOK
  BY DEF TypeInv
<1> USE StagesAre
<1>1. CASE StagesDone
  <2>1. /\ at = "stage" /\ round' = 1 /\ mainFirst' = FALSE
        /\ UNCHANGED <<next, found, handoff, ralph, counted, verdict, draft, Kept>>
    BY <1>1 DEF StagesDone
  <2>2. CASE Goto("fix") /\ fixAt' \in FirstOf(FixStages)
    <3>0. fixAt' \in FixStages /\ fixAt' \in Nat
      BY <2>2 DEF FirstOf, FixStages
    <3>1. LoopTypeOK'
      BY <1>0, <2>1, <2>2, <3>0, GotoType DEF LoopTypeOK, LoopPoints
    <3>2. PlaceInv'
      BY <1>0, <2>1, <2>2, <3>0, GotoType DEF PlaceInv, FixStages, Final
    <3> QED
      BY <2>1, <2>2, <3>1, <3>2, GotoType
  <2>3. CASE Goto("deep") /\ fixAt' = 0
    <3>1. LoopTypeOK'
      BY <1>0, <2>1, <2>3, GotoType DEF LoopTypeOK, LoopPoints
    <3>2. PlaceInv'
      BY <1>0, <2>1, <2>3, GotoType DEF PlaceInv, Final
    <3> QED
      BY <2>1, <2>3, <3>1, <3>2, GotoType
  <2> QED
    BY <1>1, <2>2, <2>3 DEF StagesDone
<1>2. CASE FixBegins
  <2>1. /\ at = "fix" /\ fixAt \in FixStages /\ Stages[fixAt] \in StageNames
        /\ \E b \in BOOLEAN : StartPass("fix", Stages[fixAt], b)
        /\ UNCHANGED <<status, next, round, local, handoff, ralph, counted, saved,
                       retries, verdict, draft>>
    <3>1. at = "fix" /\ StartPass("fix", Stages[fixAt], Surgical(Stages[fixAt]))
      BY <1>2 DEF FixBegins
    <3>2. Surgical(Stages[fixAt]) \in BOOLEAN
      BY DEF Surgical
    <3> QED
      BY <1>0, <1>2, <3>1, <3>2 DEF FixBegins, PlaceInv
  <2>2. ExecTypeOK' /\ PlaceInv' /\ at' = "pass"
    <3>1. /\ "fix" \in Purposes /\ fixAt' = fixAt /\ FixStages' = FixStages
      BY <2>1 DEF Purposes, local, FixStages, Final
    <3> QED
      BY <2>1, <3>1, StartType
  <2>3. LoopTypeOK'
    BY <1>0, <2>1, <2>2 DEF LoopTypeOK, LoopPoints, local
  <2> QED
    BY <2>2, <2>3
<1>3. CASE FixEnds
  <2>1. /\ at = "pass" /\ pass \in Results /\ pass.purpose = "fix" /\ counted' \in Nat
        /\ pass.at # "failed" => pass.findings \in Findings
    BY <1>3, EndedIs DEF FixEnds
  <2>2. Position(pass.stage) \in 1..Final
    BY <1>0, <2>1, PositionIs DEF PlaceInv
  <2>3. UNCHANGED <<next, found, mainFirst, draft, Kept>>
    BY <1>3 DEF FixEnds
  <2>4. CASE OverBudget(counted') \/ pass.at = "failed"
    <3>0. /\ \E t : Fail(Position(pass.stage), t)
          /\ UNCHANGED <<round, fixAt, handoff, ralph, verdict>>
      BY <1>3, <2>4 DEF FixEnds
    <3>1. LoopTypeOK'
      BY <1>0, <2>1, <2>2, <2>3, <3>0, FailsType DEF LoopTypeOK, LoopPoints
    <3> QED
      BY <2>2, <2>3, <3>0, <3>1, FailsType
  <2>5. CASE ~(OverBudget(counted') \/ pass.at = "failed")
    <3> DEFINE rest == {n \in FixStages : n > fixAt}
               after == rest = {}
               more == pass.findings = "blocking" /\ round < ReviewFixIterations
    <3>1. /\ pass.at # "failed"
          /\ handoff' = pass.findings /\ FixChecked /\ pass' = NoPass
          /\ fixAt' \in FirstOf(IF after THEN FixStages ELSE rest)
          /\ round' = (IF after /\ more THEN round + 1 ELSE IF after THEN 1 ELSE round)
          /\ at' = (IF after /\ ~more THEN "deep" ELSE "fix")
          /\ UNCHANGED <<status, saved, retries>>
      BY <1>3, <2>5 DEF FixEnds
    <3>2. fixAt' \in FixStages /\ fixAt' \in Nat
      BY <3>1 DEF FirstOf, FixStages
    <3>3. ralph' \in RalphAnswers /\ verdict' \in {"none"} \cup RalphAnswers
      BY <1>0, <3>1 DEF FixChecked, LoopTypeOK
    <3>4. round' \in Nat /\ at' \in LoopPoints /\ at' \in {"deep", "fix"}
      BY <1>0, <3>1 DEF LoopTypeOK, LoopPoints
    <3>5. LoopTypeOK'
      BY <1>0, <2>1, <2>3, <3>1, <3>2, <3>3, <3>4 DEF LoopTypeOK, Handoffs
    <3>6. ExecTypeOK'
      BY <1>0, <2>3, <3>1, KeptType
    <3>7. PlaceInv'
      BY <3>1, <3>2, <3>4 DEF PlaceInv, NoPass, FixStages, Final
    <3> QED
      BY <3>5, <3>6, <3>7
  <2> QED
    BY <1>3, <2>4, <2>5 DEF FixEnds
<1>4. CASE DeepProviders
  <2>1. /\ at = "deep"
        /\ UNCHANGED <<next, round, fixAt, mainFirst, handoff, ralph, verdict, draft,
                       session, rowSession, minted>>
    BY <1>4 DEF DeepProviders
  <2>2. CASE Goto("gates") /\ UNCHANGED <<found, counted, initiated, registered, transcripts>>
    <3>0. UNCHANGED Kept
      BY <2>1, <2>2 DEF Kept
    <3>1. LoopTypeOK'
      BY <1>0, <2>1, <2>2, <3>0, GotoType DEF LoopTypeOK, LoopPoints
    <3>2. PlaceInv'
      BY <1>0, <2>1, <2>2, <3>0, GotoType DEF PlaceInv, Final
    <3> QED
      BY <2>2, <3>0, <3>1, <3>2, GotoType
  <2>3. CASE ~(Goto("gates") /\ UNCHANGED <<found, counted, initiated, registered, transcripts>>)
    <3>1. PICK r \in ProviderResults :
            /\ found' = [found EXCEPT !.now = r.found]
            /\ counted' = counted + r.cost
            /\ registered' = registered \cup SubAgentsOpen(r.cost = 1)
            /\ transcripts' = transcripts \cup (SubAgentsOpen(r.cost = 1) \ registered)
      BY <1>4, <2>3 DEF DeepProviders
    <3>2. /\ Reviewable /\ initiated' = (initiated \/ session # 0)
          /\ Goto("providers") \/ Fail(Position("review"), FALSE)
      BY <1>4, <2>3 DEF DeepProviders
    <3>3. found' \in [now : 0..MaxFound, before : 0..Unseen] /\ counted' \in Nat
      BY <1>0, <3>1 DEF ProviderResults, LoopTypeOK
    <3>4. SubAgentsOpen(r.cost = 1) \subseteq 1..MaxSessions
      BY <1>0 DEF SubAgentsOpen, ExecTypeOK
    <3>5. registered \subseteq registered' /\ pass' \in {pass, NoPass}
      BY <3>1, <3>2 DEF Goto, Fail
    <3>6. ExecTypeOK'
      <4>1. registered' \subseteq 1..MaxSessions /\ transcripts' \subseteq registered'
        BY <1>0, <3>1, <3>4 DEF ExecTypeOK
      <4> QED
        BY <1>0, <2>1, <3>2, <3>5, <4>1 DEF ExecTypeOK
    <3>7. CASE Goto("providers")
      <4>1. LoopTypeOK'
        BY <1>0, <2>1, <3>3, <3>7 DEF LoopTypeOK, LoopPoints, Goto
      <4>2. PlaceInv'
        BY <1>0, <2>1, <3>2, <3>5, <3>7 DEF PlaceInv, Final, Goto, Reviewable
      <4> QED
        BY <3>6, <4>1, <4>2
    <3>8. CASE Fail(Position("review"), FALSE)
      <4>1. /\ pass' = NoPass /\ at' = "idle"
            /\ status' \in {"running", "retriable", "failed", "completed"}
            /\ retries' \in 0..MaxTransientRetries
            /\ saved' \in [handoff : Handoffs, next : 1..Len(Stages)]
        BY <1>0, <3>2, <3>8, FailType, PositionIs
      <4>2. LoopTypeOK'
        BY <1>0, <2>1, <3>3, <4>1 DEF LoopTypeOK, LoopPoints
      <4>3. PlaceInv'
        BY <4>1 DEF PlaceInv, NoPass
      <4> QED
        BY <3>6, <4>2, <4>3
    <3> QED
      BY <3>2, <3>7, <3>8
  <2> QED
    BY <2>2, <2>3
<1>5. CASE DeepConverges
  <2>1. /\ at = "providers" /\ Reviewable
        /\ UNCHANGED <<next, round, fixAt, mainFirst, handoff, ralph, counted, verdict, draft>>
    BY <1>0, <1>5 DEF DeepConverges, PlaceInv
  <2>2. CASE Goto("gates") /\ UNCHANGED <<found, Kept>>
    <3>1. LoopTypeOK'
      BY <1>0, <2>1, <2>2, GotoType DEF LoopTypeOK, LoopPoints
    <3>2. PlaceInv'
      BY <1>0, <2>1, <2>2, GotoType DEF PlaceInv, Final
    <3> QED
      BY <2>2, <3>1, <3>2, GotoType
  <2>3. CASE /\ StartPass("deepImplement", "implement", FALSE)
             /\ found' = [found EXCEPT !.before = found.now]
             /\ UNCHANGED <<status, saved, retries>>
    <3>1. ExecTypeOK' /\ PlaceInv' /\ at' = "pass"
      <4>1. /\ "deepImplement" \in Purposes
            /\ \E b \in BOOLEAN : StartPass("deepImplement", "implement", b)
        BY <2>3 DEF Purposes
      <4> QED
        BY <2>1, <4>1, StartType
    <3>2. found' \in [now : 0..MaxFound, before : 0..Unseen]
      BY <1>0, <2>3 DEF LoopTypeOK, Unseen, MaxFound
    <3>3. LoopTypeOK'
      BY <1>0, <2>1, <2>3, <3>1, <3>2 DEF LoopTypeOK, LoopPoints
    <3> QED
      BY <3>1, <3>3
  <2> QED
    BY <1>5, <2>2, <2>3 DEF DeepConverges
<1>6. CASE DeepImplemented
  <2>1. /\ at = "pass" /\ pass \in Results /\ pass.purpose = "deepImplement" /\ counted' \in Nat
        /\ pass.at # "failed" => pass.findings \in Findings
    BY <1>6, EndedIs DEF DeepImplemented
  <2>2. /\ Reviewable /\ UNCHANGED <<next, round, local, ralph, verdict, draft>>
    BY <1>0, <1>6, <2>1 DEF DeepImplemented, PlaceInv
  <2>3. CASE OverBudget(counted') \/ pass.at = "failed"
    <3>0. (\E t : Fail(Position("implement"), t)) /\ UNCHANGED <<handoff, Kept>>
      BY <1>6, <2>3 DEF DeepImplemented
    <3>1. LoopTypeOK'
      BY <1>0, <2>1, <2>2, <3>0, PositionIs, FailsType DEF LoopTypeOK, LoopPoints, local
    <3> QED
      BY <2>2, <3>0, <3>1, PositionIs, FailsType
  <2>4. CASE ~(OverBudget(counted') \/ pass.at = "failed")
    <3>1. /\ handoff' \in Findings
          /\ \E b \in BOOLEAN : StartPass("deepReview", "review", b)
          /\ UNCHANGED <<status, saved, retries>>
      BY <1>6, <2>1, <2>4 DEF DeepImplemented
    <3>2. ExecTypeOK' /\ PlaceInv' /\ at' = "pass"
      <4>1. "deepReview" \in Purposes
        BY DEF Purposes
      <4> QED
        BY <2>2, <3>1, <4>1, StartType
    <3>3. LoopTypeOK'
      BY <1>0, <2>1, <2>2, <3>1, <3>2 DEF LoopTypeOK, LoopPoints, local, Handoffs
    <3> QED
      BY <3>2, <3>3
  <2> QED
    BY <1>6, <2>3, <2>4 DEF DeepImplemented
<1>7. CASE DeepReviewed
  <2>1. /\ at = "pass" /\ pass \in Results /\ pass.purpose = "deepReview" /\ counted' \in Nat
        /\ pass.at # "failed" => pass.findings \in Findings
    BY <1>7, EndedIs DEF DeepReviewed
  <2>2. /\ Reviewable /\ UNCHANGED <<next, local, ralph, verdict, draft, Kept>>
    BY <1>0, <1>7, <2>1 DEF DeepReviewed, PlaceInv
  <2>3. CASE OverBudget(counted') \/ pass.at = "failed"
    <3>0. (\E t : Fail(Position("review"), t)) /\ UNCHANGED <<handoff, round>>
      BY <1>7, <2>3 DEF DeepReviewed
    <3>1. LoopTypeOK'
      BY <1>0, <2>1, <2>2, <3>0, PositionIs, FailsType DEF LoopTypeOK, LoopPoints, local
    <3> QED
      BY <2>2, <3>0, <3>1, PositionIs, FailsType
  <2>4. CASE ~(OverBudget(counted') \/ pass.at = "failed")
    <3>1. /\ handoff' = Merged(pass.findings)
          /\ round' = round + 1 /\ at' = "deep" /\ pass' = NoPass
          /\ UNCHANGED <<status, saved, retries>>
      BY <1>7, <2>4 DEF DeepReviewed
    <3>2. handoff' \in Handoffs
      BY <3>1 DEF Merged, Handoffs, Findings
    <3>3. LoopTypeOK'
      BY <1>0, <2>1, <2>2, <3>1, <3>2 DEF LoopTypeOK, LoopPoints, local
    <3>4. ExecTypeOK'
      BY <1>0, <2>2, <3>1, KeptType
    <3>5. PlaceInv'
      BY <3>1 DEF PlaceInv, NoPass
    <3> QED
      BY <3>3, <3>4, <3>5
  <2> QED
    BY <1>7, <2>3, <2>4 DEF DeepReviewed
<1>8. CASE GatesDecide
  <2>1. /\ Goto("lock") /\ LoopLocalsEnd /\ draft' \in BOOLEAN
        /\ UNCHANGED <<next, handoff, ralph, counted, verdict, Kept>>
    BY <1>8 DEF GatesDecide
  <2>2. LoopTypeOK'
    <3>1. /\ round' = 0 /\ fixAt' = 0 /\ mainFirst' = FALSE
          /\ found' \in [now : 0..MaxFound, before : 0..Unseen]
      BY <2>1 DEF LoopLocalsEnd, Unseen, MaxFound
    <3>2. "lock" \in PushPoints
      BY DEF PushPoints
    <3>3. at' \in LoopPoints \cup PushPoints /\ UNCHANGED <<status, retries, saved>>
      BY <2>1, <3>2 DEF Goto
    <3>4. UNCHANGED <<next, handoff, ralph, counted, verdict>> /\ draft' \in BOOLEAN
      BY <2>1
    <3> QED
      BY <1>0, <3>1, <3>3, <3>4 DEF LoopTypeOK
  <2>3. PlaceInv'
    BY <1>0, <2>1, GotoType DEF PlaceInv, Final
  <2> QED
    BY <2>1, <2>2, <2>3, GotoType
<1> QED
  BY <1>1, <1>2, <1>3, <1>4, <1>5, <1>6, <1>7, <1>8

----------------------------------------------------------------------------
(* The push section, and the executions around it.                          *)

LEMMA OuterAre ==
  /\ Free # Rival /\ Free \notin OwnPool /\ Rival \notin OwnPool
  /\ MaxCrashes \in Nat /\ MaxRivals \in Nat /\ MaxLost \in Nat
  BY ExecutionAssumption

LEMMA ReleaseType ==
  ASSUME OuterTypeOK, Release
  PROVE  /\ holder' \in OwnPool \cup {Rival, Free} /\ depth' \in 0..2
         /\ (holder' = Free) = (depth' = 0)
  BY OuterAre DEF OuterTypeOK, Release, Unlock, Drop, lockVars

\* The steps of the section: to the next point, or to a failure.
LEMMA GoesOn ==
  ASSUME TypeInv, NEW p \in PushPoints, Goto(p), Untouched, UNCHANGED <<counted, draft, Kept>>
  PROVE  ExecTypeOK' /\ LoopTypeOK' /\ PlaceInv'
<1>1. LoopTypeOK'
  BY GotoType DEF TypeInv, LoopTypeOK, Untouched, local
<1>2. PlaceInv'
  BY GotoType DEF TypeInv, PlaceInv, PushPoints
<1> QED
  BY <1>1, <1>2, GotoType

LEMMA GivesUp ==
  ASSUME TypeInv, NEW t, Fail(Final, t), Untouched, UNCHANGED <<counted, draft, Kept>>
  PROVE  ExecTypeOK' /\ LoopTypeOK' /\ PlaceInv'
<1>1. Final \in 1..Final
  BY StagesAre
<1>2. /\ ExecTypeOK' /\ PlaceInv' /\ at' = "idle" /\ pass' = NoPass
      /\ status' \in {"running", "retriable", "failed", "completed"}
      /\ retries' \in 0..MaxTransientRetries
      /\ saved' \in [handoff : Handoffs, next : 1..Len(Stages)]
  BY <1>1, FailsType
<1>3. LoopTypeOK'
  BY <1>2 DEF TypeInv, LoopTypeOK, LoopPoints, Untouched, local
<1> QED
  BY <1>2, <1>3

\* The actions of the push section.
LEMMA SectionType ==
  ASSUME TypeInv,
         \/ TryAcquire \/ LockTimesOut \/ CommitRest \/ Rebase \/ Resolved \/ Push
         \/ OpenPullRequest \/ Merge \/ Complete
  PROVE  TypeInv'
<1>0. ExecTypeOK /\ LoopTypeOK /\ PlaceInv /\ OuterTypeOK
  BY DEF TypeInv
<1> USE OuterAre
<1>1. CASE TryAcquire
  <2>1. PICK conn \in OwnPool : Lock(conn)
    BY <1>1 DEF TryAcquire
  <2>2. depth < 2 /\ UNCHANGED <<prVars, rival, faultVars>>
    BY <1>1 DEF TryAcquire
  <2>3. OuterTypeOK'
    BY <1>0, <2>1, <2>2 DEF OuterTypeOK, Lock, prVars, faultVars
  <2>4. Goto("commit") \/ Goto("lock")
    BY <1>1 DEF TryAcquire
  <2>5. Untouched /\ UNCHANGED <<counted, draft, Kept>>
    BY <1>1 DEF TryAcquire
  <2> QED
    BY <2>3, <2>4, <2>5, GoesOn DEF PushPoints, TypeInv
<1>2. CASE LockTimesOut
  <2>1. PICK t : Fail(Final, t)
    BY <1>2 DEF LockTimesOut
  <2>2. Untouched /\ UNCHANGED <<counted, draft, Kept, lockVars, prVars, rival, faultVars>>
    BY <1>2 DEF LockTimesOut
  <2>3. OuterTypeOK'
    BY <1>0, <2>2 DEF OuterTypeOK, lockVars, prVars, faultVars
  <2> QED
    BY <2>1, <2>2, <2>3, GivesUp DEF TypeInv
<1>3. CASE CommitRest
  <2>1. /\ Untouched /\ UNCHANGED <<counted, draft, Kept, prVars, rival, faultVars>>
        /\ \/ Goto("rebase") /\ UNCHANGED lockVars
           \/ Fail(Final, FALSE) /\ Release
    BY <1>3 DEF CommitRest, SectionFails
  <2>2. OuterTypeOK'
    BY <1>0, <2>1, ReleaseType DEF OuterTypeOK, lockVars, prVars, faultVars
  <2>3. CASE Goto("rebase")
    BY <2>1, <2>2, <2>3, GoesOn DEF PushPoints, TypeInv
  <2>4. CASE Fail(Final, FALSE)
    BY <2>1, <2>2, <2>4, GivesUp DEF TypeInv
  <2> QED
    BY <2>1, <2>3, <2>4
<1>4. CASE Rebase
  <2>1. /\ at = "rebase" /\ conflict' = FALSE /\ Untouched
        /\ UNCHANGED <<counted, draft, lockVars, pr, prUrl, merged, rival, faultVars>>
    BY <1>4 DEF Rebase
  <2>2. OuterTypeOK'
    BY <1>0, <2>1 DEF OuterTypeOK, lockVars, faultVars
  <2>3. CASE Goto("push") /\ UNCHANGED Kept
    BY <2>1, <2>2, <2>3, GoesOn DEF PushPoints, TypeInv
  <2>4. CASE StartPass("resolve", "implement", FALSE) /\ UNCHANGED <<status, retries, saved>>
    <3>1. \E b \in BOOLEAN : StartPass("resolve", "implement", b)
      BY <2>4
    <3>2. ExecTypeOK' /\ PlaceInv' /\ at' = "pass"
      <4>1. "resolve" \in Purposes
        BY DEF Purposes
      <4> QED
        BY <3>1, <4>1, StartType, StagesAre
    <3>3. LoopTypeOK'
      BY <1>0, <2>1, <2>4, <3>2 DEF LoopTypeOK, LoopPoints, Untouched, local
    <3> QED
      BY <2>2, <3>2, <3>3 DEF TypeInv
  <2> QED
    BY <1>4, <2>3, <2>4 DEF Rebase
<1>5. CASE Resolved
  <2>1. /\ at = "pass" /\ Ended("resolve") /\ counted' = counted + pass.cost
        /\ conflict' \in BOOLEAN /\ Goto("push") /\ Untouched
        /\ UNCHANGED <<draft, Kept, lockVars, pr, prUrl, merged, rival, faultVars>>
    BY <1>5 DEF Resolved
  <2>2. counted' \in Nat /\ pass.purpose = "resolve" /\ pass \in Results
    BY <2>1, EndedIs
  <2>3. OuterTypeOK'
    BY <1>0, <2>1 DEF OuterTypeOK, lockVars, faultVars
  <2>4. LoopTypeOK'
    BY <1>0, <2>1, <2>2 DEF LoopTypeOK, PushPoints, Untouched, local, Goto
  <2>5. ExecTypeOK' /\ PlaceInv'
    BY <1>0, <2>1, <2>2, GotoType DEF PlaceInv
  <2> QED
    BY <2>3, <2>4, <2>5 DEF TypeInv
<1>6. CASE Push
  <2>1. /\ Untouched /\ UNCHANGED <<counted, draft, Kept, prVars, rival, faultVars>>
        /\ \/ Goto("pr") /\ UNCHANGED lockVars
           \/ (\E t : Fail(Final, t)) /\ Release
    BY <1>6 DEF Push, SectionFails
  <2>2. OuterTypeOK'
    BY <1>0, <2>1, ReleaseType DEF OuterTypeOK, lockVars, prVars, faultVars
  <2>3. CASE Goto("pr")
    BY <2>1, <2>2, <2>3, GoesOn DEF PushPoints, TypeInv
  <2>4. CASE \E t : Fail(Final, t)
    BY <2>1, <2>2, <2>4, GivesUp DEF TypeInv
  <2> QED
    BY <2>1, <2>3, <2>4
<1>7. CASE OpenPullRequest
  <2>1. /\ Untouched /\ Goto("merge")
        /\ UNCHANGED <<counted, draft, Kept, lockVars, conflict, merged, rival, faultVars>>
        /\ pr' \in {pr, "draft", "ready"} /\ prUrl' \in BOOLEAN
    BY <1>7 DEF OpenPullRequest
  <2>2. OuterTypeOK'
    BY <1>0, <2>1 DEF OuterTypeOK, lockVars, faultVars
  <2> QED
    BY <2>1, <2>2, GoesOn DEF PushPoints, TypeInv
<1>8. CASE Merge
  <2>1. /\ Untouched /\ UNCHANGED <<counted, draft, Kept, conflict, pr, prUrl, rival, faultVars>>
        /\ Release /\ merged' \in {merged, TRUE}
        /\ Goto("complete") \/ Fail(Final, FALSE)
    BY <1>8 DEF Merge, SectionFails
  <2>2. OuterTypeOK'
    BY <1>0, <2>1, ReleaseType DEF OuterTypeOK, faultVars
  <2>3. CASE Goto("complete")
    BY <2>1, <2>2, <2>3, GoesOn DEF PushPoints, TypeInv
  <2>4. CASE Fail(Final, FALSE)
    BY <2>1, <2>2, <2>4, GivesUp DEF TypeInv
  <2> QED
    BY <2>1, <2>3, <2>4
<1>9. CASE Complete
  <2>1. /\ Untouched /\ UNCHANGED <<counted, draft, Kept, lockVars, prVars, rival, faultVars>>
    BY <1>9 DEF Complete
  <2>2. OuterTypeOK'
    BY <1>0, <2>1 DEF OuterTypeOK, lockVars, prVars, faultVars
  <2>3. CASE \E t : Fail(Final, t)
    BY <2>1, <2>2, <2>3, GivesUp DEF TypeInv
  <2>4. CASE /\ status' = "completed" /\ at' = "idle" /\ pass' = NoPass
             /\ UNCHANGED <<retries, saved>>
    <3>1. ExecTypeOK'
      BY <1>0, <2>1, <2>4, KeptType
    <3>2. PlaceInv'
      BY <2>4 DEF PlaceInv, NoPass
    <3>3. LoopTypeOK'
      BY <1>0, <2>1, <2>4 DEF LoopTypeOK, LoopPoints, Untouched, local
    <3> QED
      BY <2>2, <3>1, <3>2, <3>3 DEF TypeInv
  <2> QED
    BY <1>9, <2>3, <2>4 DEF Complete
<1> QED
  BY <1>1, <1>2, <1>3, <1>4, <1>5, <1>6, <1>7, <1>8, <1>9

LEMMA AroundType ==
  ASSUME TypeInv, Resume \/ Crash \/ RivalEnters \/ RivalLeaves \/ ConnectionCloses \/ Over
  PROVE  TypeInv'
<1>0. ExecTypeOK /\ LoopTypeOK /\ PlaceInv /\ OuterTypeOK
  BY DEF TypeInv
<1> USE OuterAre
<1>1. CASE Resume
  <2>1. /\ at = "idle" /\ pass' = pass /\ pass = NoPass
    BY <1>0, <1>1 DEF Resume, PlaceInv
  <2>2. ExecTypeOK'
    BY <1>0, <1>1, <2>1 DEF ExecTypeOK, Resume
  <2>3. found' \in [now : 0..MaxFound, before : 0..Unseen]
    BY <1>1 DEF Resume, Unseen, MaxFound
  <2>4. next' \in 1..(Len(Stages) + 1) /\ handoff' \in Handoffs
    BY <1>0, <1>1, StagesAre DEF Resume, LoopTypeOK, Final
  <2>5. at' = "stage" /\ at' \in LoopPoints
    BY <1>1 DEF Resume, LoopPoints
  <2>6. LoopTypeOK'
    BY <1>0, <1>1, <2>3, <2>4, <2>5 DEF LoopTypeOK, Resume, RalphAnswers
  <2>7. PlaceInv'
    BY <2>1, <2>5 DEF PlaceInv, NoPass
  <2>8. OuterTypeOK'
    BY <1>0, <1>1 DEF OuterTypeOK, Resume, lockVars, faultVars
  <2> QED
    BY <2>2, <2>6, <2>7, <2>8 DEF TypeInv
<1>2. CASE Crash
  <2>1. /\ at' = "idle" /\ pass' = NoPass /\ status' = "retriable"
        /\ crashes < MaxCrashes /\ crashes' = crashes + 1 /\ Untouched
        /\ IF holder \in OwnPool THEN Drop ELSE UNCHANGED lockVars
        /\ UNCHANGED <<session, initiated, rowSession, registered, minted, counted,
                       saved, retries, draft, prVars, rival, rivals, lost>>
    BY <1>2 DEF Crash
  <2>2. transcripts' \subseteq registered
    BY <1>0, <1>2 DEF Crash, WritesTranscript, PlaceInv, ExecTypeOK
  <2>3. ExecTypeOK'
    BY <1>0, <2>1, <2>2 DEF ExecTypeOK
  <2>4. LoopTypeOK'
    BY <1>0, <2>1 DEF LoopTypeOK, LoopPoints, Untouched, local
  <2>5. PlaceInv'
    BY <2>1 DEF PlaceInv, NoPass
  <2>6. OuterTypeOK'
    BY <1>0, <2>1 DEF OuterTypeOK, Drop, lockVars, prVars
  <2> QED
    BY <2>3, <2>4, <2>5, <2>6 DEF TypeInv
<1>3. CASE RivalEnters \/ RivalLeaves \/ ConnectionCloses \/ Over
  <2>1. UNCHANGED <<execVars, loopVars>>
    BY <1>3 DEF RivalEnters, RivalLeaves, ConnectionCloses, Over, vars
  <2>2. ExecTypeOK' /\ LoopTypeOK' /\ PlaceInv'
    BY <1>0, <2>1 DEF ExecTypeOK, LoopTypeOK, PlaceInv, execVars, loopVars, FixStages,
                      Final, Reviewable
  <2>3. CASE RivalEnters
    BY <1>0, <2>2, <2>3 DEF TypeInv, OuterTypeOK, RivalEnters, Lock, prVars
  <2>4. CASE RivalLeaves
    <3>1. rival' = FALSE /\ (Drop \/ UNCHANGED lockVars) /\ UNCHANGED <<prVars, faultVars>>
      BY <2>4 DEF RivalLeaves
    <3>2. /\ holder' \in OwnPool \cup {Rival, Free} /\ depth' \in 0..2
          /\ (holder' = Free) = (depth' = 0)
      BY <1>0, <3>1 DEF OuterTypeOK, Drop, lockVars
    <3> QED
      BY <1>0, <2>2, <3>1, <3>2 DEF TypeInv, OuterTypeOK, prVars, faultVars
  <2>5. CASE ConnectionCloses
    BY <1>0, <2>2, <2>5 DEF TypeInv, OuterTypeOK, ConnectionCloses, Drop, prVars
  <2>6. CASE Over
    BY <1>0, <2>2, <2>6 DEF TypeInv, OuterTypeOK, Over, vars, lockVars, prVars, faultVars
  <2> QED
    BY <1>3, <2>3, <2>4, <2>5, <2>6
<1> QED
  BY <1>1, <1>2, <1>3

LEMMA InitType == Init => TypeInv
<1> SUFFICES ASSUME Init PROVE TypeInv
  OBVIOUS
<1>1. ExecTypeOK
  <2>1. session \in 0..MaxSessions
    BY StagesAre DEF Init, ExecInit
  <2> QED
    BY <2>1 DEF Init, ExecInit, ExecTypeOK
<1>2. LoopTypeOK
  <2>1. 1 \in 1..Len(Stages) /\ 1 \in 1..(Len(Stages) + 1) /\ 0 \in 0..MaxTransientRetries
    BY StagesAre, LoopAssumption DEF Final
  <2>2. found \in [now : 0..MaxFound, before : 0..Unseen]
    BY DEF Init, LoopInit, Unseen, MaxFound
  <2>3. saved \in [handoff : Handoffs, next : 1..Len(Stages)] /\ handoff \in Handoffs
    BY <2>1 DEF Init, LoopInit, Handoffs
  <2> QED
    BY <2>1, <2>2, <2>3 DEF Init, LoopInit, LoopTypeOK, LoopPoints, RalphAnswers
<1>3. PlaceInv
  BY DEF Init, ExecInit, LoopInit, PlaceInv, NoPass
<1>4. OuterTypeOK
  <2>1. /\ 0 \in 0..MaxCrashes /\ 0 \in 0..MaxRivals /\ 0 \in 0..MaxLost /\ 0 \in 0..2
    BY OuterAre
  <2>2. (holder = Free) = (depth = 0)
    BY DEF Init
  <2> QED
    BY <2>1, <2>2 DEF Init, OuterTypeOK
<1> QED
  BY <1>1, <1>2, <1>3, <1>4 DEF TypeInv

LEMMA NextType == TypeInv /\ [Next]_vars => TypeInv'
<1> SUFFICES ASSUME TypeInv, [Next]_vars PROVE TypeInv'
  OBVIOUS
<1>1. CASE InFlight
  BY <1>1, InFlightType
<1>2. CASE Looping
  <2>1. ExecTypeOK' /\ LoopTypeOK' /\ PlaceInv'
    BY <1>2, StageLoopType, LaterLoopsType DEF Looping, LoopNext
  <2> QED
    BY <1>2, <2>1, OuterFrame DEF Looping, TypeInv
<1>3. CASE \/ TryAcquire \/ LockTimesOut \/ CommitRest \/ Rebase \/ Resolved \/ Push
           \/ OpenPullRequest \/ Merge \/ Complete
  BY <1>3, SectionType
<1>4. CASE Resume \/ Crash \/ RivalEnters \/ RivalLeaves \/ ConnectionCloses \/ Over
  BY <1>4, AroundType
<1>5. CASE UNCHANGED vars
  <2>1. /\ UNCHANGED execVars /\ UNCHANGED loopVars
        /\ UNCHANGED <<lockVars, prVars, rival, faultVars>>
    BY <1>5 DEF vars
  <2>2. ExecTypeOK'
    BY <2>1 DEF TypeInv, ExecTypeOK, execVars
  <2>3. LoopTypeOK'
    BY <2>1 DEF TypeInv, LoopTypeOK, loopVars
  <2>4. PlaceInv'
    BY <2>1 DEF TypeInv, PlaceInv, execVars, loopVars, FixStages, Final, Reviewable
  <2> QED
    BY <2>1, <2>2, <2>3, <2>4, OuterFrame DEF TypeInv
<1> QED
  BY <1>1, <1>2, <1>3, <1>4, <1>5 DEF Next, Running

\* The specification without its fairness, on which no theorem rests: a system that hosts
\* an execution among others has it as well.
Steps == Init /\ [][Next]_vars

LEMMA AlwaysTyped == Steps => []TypeInv
  BY InitType, NextType, PTL DEF Steps

\* Type correctness: among other things, a run is always resumed at a stage that
\* it has, and a transcript is always that of a registered session.
THEOREM TypesHold == Spec => []TypeOK
<1>1. TypeInv => TypeOK
  BY DEF TypeInv, TypeOK, OuterTypeOK
<1> QED
  BY <1>1, AlwaysTyped, PTL DEF Spec, Steps

----------------------------------------------------------------------------
(* SessionInSync: the collision recovery writes the row and the runner's    *)
(* variable in the same step, and a resumed run reads the row.              *)
SessionInv == session = rowSession

LEMMA NextSession == SessionInv /\ [Next]_vars => SessionInv'
<1> SUFFICES ASSUME SessionInv, [Next]_vars PROVE SessionInv'
  OBVIOUS
<1>1. CASE UNCHANGED <<session, rowSession>>
  BY <1>1 DEF SessionInv
<1>2. CASE InFlight
  <2>1. CASE Collide
    BY <2>1 DEF Collide, SessionInv
  <2>2. CASE PreflightFails \/ OpenStream \/ StreamStalls \/ StreamFails \/ StreamEnds
    BY <1>1, <2>2 DEF PreflightFails, OpenStream, StreamStalls, StreamFails, StreamEnds
  <2> QED
    BY <1>2, <2>1, <2>2 DEF InFlight, ExecNext
<1>3. CASE Looping \/ TryAcquire \/ LockTimesOut \/ CommitRest \/ Rebase \/ Resolved \/ Push
           \/ OpenPullRequest \/ Merge \/ Complete
  <2>1. UNCHANGED <<session, rowSession>>
    BY <1>3 DEF Looping, LoopNext, StageBegins, RalphStarts, RalphChecks, RalphReimplemented,
         StageRetried, StageCounted, StageJudged, Validated, Revalidated, StageSettles,
         StagesDone, FixBegins, FixEnds, DeepProviders, DeepConverges, DeepImplemented,
         DeepReviewed, GatesDecide, StartPass, Begin, Kept, TryAcquire, LockTimesOut,
         CommitRest, Rebase, Resolved, Push, OpenPullRequest, Merge, Complete
  <2> QED
    BY <2>1, <1>1
<1>4. CASE Resume \/ Crash
  BY <1>4 DEF Resume, Crash, SessionInv
<1>5. CASE RivalEnters \/ RivalLeaves \/ ConnectionCloses \/ Over \/ UNCHANGED vars
  BY <1>1, <1>5 DEF RivalEnters, RivalLeaves, ConnectionCloses, Over, vars, execVars
<1> QED
  BY <1>2, <1>3, <1>4, <1>5 DEF Next, Running

LEMMA SessionKept == Steps => []SessionInSync
<1>1. Init => SessionInv
  BY DEF Init, ExecInit, SessionInv
<1>2. SessionInv => SessionInSync
  BY DEF SessionInv, SessionInSync
<1> QED
  BY <1>1, <1>2, NextSession, PTL DEF Steps

\* Between two passes the runner, the row and the next prompt mean the same
\* session (applyCollisionRecovery).
THEOREM SessionAlwaysInSync == Spec => []SessionInSync
  BY SessionKept, PTL DEF Spec, Steps

----------------------------------------------------------------------------
(* What the steps do to the place and the pass.                             *)

Resolving == pass # NoPass /\ pass.purpose = "resolve"

\* A step of the loops ends in a loop, at the lock or in a failure, and no pass
\* that it starts is one that resolves a conflict.
LEMMA LoopingLands ==
  ASSUME TypeInv, Looping
  PROVE  /\ at \in LoopPoints \ {"idle"}
         /\ at = "pass" => ~Resolving
         /\ at' \in LoopPoints \cup {"lock"}
         /\ at' = "lock" => at = "gates"
         /\ pass' # pass => ~Resolving'
         /\ at' = "pass" => pass'.purpose # "resolve"
<1>1. \/ StageBegins \/ RalphStarts \/ RalphChecks \/ RalphReimplemented
      \/ StageRetried \/ StageCounted \/ StageJudged \/ Validated \/ Revalidated
      \/ StageSettles \/ StagesDone \/ FixBegins \/ FixEnds
      \/ DeepProviders \/ DeepConverges \/ DeepImplemented \/ DeepReviewed
      \/ GatesDecide
  BY DEF Looping, LoopNext
<1> USE DEF Goto, Fail, StartPass, Begin, Resolving, Ended
<1>2. /\ at \in {"stage", "pass", "ralph", "counted", "validate", "settle", "fix", "deep",
                 "providers", "gates"}
      /\ at = "pass" => pass.purpose # "resolve"
  BY <1>1 DEF StageBegins, RalphStarts, RalphChecks, RalphReimplemented, StageRetried,
       StageCounted, StageJudged, Validated, Revalidated, StageSettles, StagesDone, FixBegins,
       FixEnds, DeepProviders, DeepConverges, DeepImplemented, DeepReviewed, GatesDecide,
       RalphDue, RetryDue, Broken
<1>3. CASE StageBegins \/ RalphStarts \/ RalphChecks \/ RalphReimplemented \/ StageRetried
           \/ StageCounted
  BY <1>2, <1>3 DEF StageBegins, RalphStarts, RalphChecks, RalphReimplemented, StageRetried,
       StageCounted, LoopPoints
<1>4. CASE StageJudged \/ Validated \/ Revalidated \/ StageSettles \/ StagesDone \/ FixBegins
  BY <1>2, <1>4 DEF StageJudged, Validated, Revalidated, StageSettles, StagesDone, FixBegins,
       LoopPoints
<1>5. CASE FixEnds \/ DeepProviders \/ DeepConverges
  BY <1>2, <1>5 DEF FixEnds, DeepProviders, DeepConverges, LoopPoints
<1>6. CASE DeepImplemented \/ DeepReviewed \/ GatesDecide
  BY <1>2, <1>6 DEF DeepImplemented, DeepReviewed, GatesDecide, LoopPoints
<1> QED
  BY <1>1, <1>3, <1>4, <1>5, <1>6

\* A step of the executor keeps the purpose of its pass.
LEMMA InFlightKeeps ==
  ASSUME TypeInv, InFlight
  PROVE  /\ at = "pass" /\ pass \in Calls /\ pass' \in Calls \cup Results
         /\ pass'.purpose = pass.purpose
         /\ UNCHANGED <<loopVars, lockVars, prVars, rival, faultVars>>
<1>1. ExecTypeOK /\ at = "pass" /\ ExecNext
      /\ UNCHANGED <<loopVars, lockVars, prVars, rival, faultVars>>
  BY DEF TypeInv, InFlight
<1> QED
  BY <1>1, ExecShape DEF TypeInv, PlaceInv

----------------------------------------------------------------------------
(* SectionExclusive: as long as no connection was closed under the lock,    *)
(* the section runs while a connection of its own pool holds the lock, and  *)
(* the rival's while the rival's connection does.                           *)
LockInv == lost = 0 =>
    /\ Inside => holder \in OwnPool
    /\ rival => holder = Rival

LEMMA ReleaseKeepsRival ==
  ASSUME Release, holder = Rival
  PROVE  holder' = Rival
  BY OuterAre DEF Release, lockVars

LEMMA NextLock == TypeInv /\ LockInv /\ [Next]_vars => LockInv'
<1> SUFFICES ASSUME TypeInv, LockInv, [Next]_vars PROVE LockInv'
  OBVIOUS
<1> USE OuterAre
<1>1. CASE InFlight
  BY <1>1, InFlightKeeps DEF LockInv, Inside, loopVars, lockVars, faultVars
<1>2. CASE Looping
  <2>1. ~Inside'
    BY <1>2, LoopingLands DEF Inside, LoopPoints
  <2> QED
    BY <1>2, <2>1 DEF Looping, LockInv, lockVars, faultVars
<1>3. CASE TryAcquire
  <2>1. PICK conn \in OwnPool : Available(conn) /\ Lock(conn)
    BY <1>3 DEF TryAcquire
  <2> QED
    BY <1>3, <2>1 DEF TryAcquire, Available, Lock, LockInv, faultVars
<1>4. CASE LockTimesOut \/ Complete
  BY <1>4 DEF LockTimesOut, Complete, Fail, Inside, LockInv, lockVars, faultVars
<1>5. CASE CommitRest \/ Push \/ Merge
  <2>1. /\ at \in {"commit", "push", "merge"} /\ UNCHANGED <<rival, faultVars>>
        /\ \/ UNCHANGED lockVars
           \/ Release /\ ~Inside'
    <3>1. CASE CommitRest
      BY <3>1 DEF CommitRest, SectionFails, Fail, Inside
    <3>2. CASE Push
      BY <3>2 DEF Push, SectionFails, Fail, Inside
    <3>3. CASE Merge
      BY <3>3 DEF Merge, SectionFails, Goto, Fail, Inside
    <3> QED
      BY <1>5, <3>1, <3>2, <3>3
  <2> QED
    BY <2>1, ReleaseKeepsRival DEF LockInv, Inside, lockVars, faultVars
<1>6. CASE Rebase \/ Resolved \/ OpenPullRequest
  <2>1. Inside /\ UNCHANGED <<lockVars, rival, faultVars>>
    BY <1>6 DEF Rebase, Resolved, OpenPullRequest, Inside, Ended
  <2> QED
    BY <2>1 DEF LockInv, lockVars, faultVars
<1>7. CASE Resume \/ Over \/ UNCHANGED vars
  <2>1. UNCHANGED <<lockVars, rival, faultVars>> /\ (Inside' => Inside)
    BY <1>7 DEF Resume, Over, vars, Inside, execVars, loopVars
  <2> QED
    BY <2>1 DEF LockInv, lockVars, faultVars
<1>8. CASE Crash
  <2>1. ~Inside' /\ UNCHANGED <<rival, lost>>
    BY <1>8 DEF Crash, Inside
  <2>2. holder = Rival => holder' = Rival
    BY <1>8 DEF Crash, lockVars
  <2> QED
    BY <2>1, <2>2 DEF LockInv
<1>9. CASE RivalEnters \/ RivalLeaves
  <2>1. (Inside' => Inside) /\ UNCHANGED lost
    BY <1>9 DEF RivalEnters, RivalLeaves, Inside, execVars, loopVars, faultVars
  <2> QED
    BY <1>9, <2>1 DEF RivalEnters, RivalLeaves, LockInv, Lock, Drop, lockVars
<1>10. CASE ConnectionCloses
  <2>1. lost' # 0
    BY <1>10 DEF ConnectionCloses, TypeInv, OuterTypeOK
  <2> QED
    BY <2>1 DEF LockInv
<1> QED
  BY <1>1, <1>2, <1>3, <1>4, <1>5, <1>6, <1>7, <1>8, <1>9, <1>10 DEF Next, Running

LEMMA SectionKept == Steps => []SectionExclusive
<1>1. Init => LockInv
  BY DEF Init, ExecInit, LoopInit, Inside, LockInv
<1>2. LockInv => SectionExclusive
  BY OuterAre DEF LockInv, SectionExclusive
<1> QED
  BY <1>1, <1>2, NextLock, AlwaysTyped, PTL DEF Steps

\* One server at a time is in the push section of a branch (withBranchLock), for
\* every number of pool connections, whatever locks leak or are taken twice, as
\* long as no connection closes under the lock.
THEOREM SectionAlwaysExclusive == Spec => []SectionExclusive
  BY SectionKept, PTL DEF Spec, Steps

----------------------------------------------------------------------------
(* MergeIsEarned: a pass that resolves a conflict belongs to the section,   *)
(* and its failure stays in rebaseConflict until the execution ends.        *)
AfterRebase == {"push", "pr", "merge", "complete"}

ResolveInv ==
    /\ Resolving => at \in {"pass"} \cup AfterRebase
    /\ at \in AfterRebase /\ Broken("resolve") => conflict

LEMMA NextResolve == TypeInv /\ ResolveInv /\ [Next]_vars => ResolveInv'
<1> SUFFICES ASSUME TypeInv, ResolveInv, [Next]_vars PROVE ResolveInv'
  OBVIOUS
<1> USE DEF AfterRebase
<1>1. CASE InFlight
  BY <1>1, InFlightKeeps, PassIs DEF ResolveInv, Resolving, loopVars
<1>2. CASE Looping
  <2>1. ~Resolving
    BY <1>2, LoopingLands DEF ResolveInv, LoopPoints
  <2>2. ~Resolving' /\ at' \notin AfterRebase
    BY <1>2, <2>1, LoopingLands DEF Resolving, LoopPoints
  <2> QED
    BY <2>2 DEF ResolveInv
<1>3. CASE Resume \/ TryAcquire
  <2>1. ~Resolving /\ pass' = pass /\ at' \notin AfterRebase
    BY <1>3 DEF Resume, TryAcquire, ResolveInv, Goto
  <2> QED
    BY <2>1 DEF ResolveInv, Resolving
<1>4. CASE LockTimesOut \/ Complete \/ Crash
  <2>1. pass' = NoPass /\ at' = "idle"
    BY <1>4 DEF LockTimesOut, Complete, Crash, Fail
  <2> QED
    BY <2>1 DEF ResolveInv, Resolving
<1>5. CASE CommitRest
  <2>1. ~Resolving /\ at' \in {"rebase", "idle"} /\ pass' \in {pass, NoPass}
    BY <1>5 DEF CommitRest, SectionFails, Goto, Fail, ResolveInv
  <2> QED
    BY <2>1 DEF ResolveInv, Resolving
<1>6. CASE Rebase
  <2>1. ~Resolving
    BY <1>6 DEF Rebase, ResolveInv
  <2>2. CASE at' = "pass"
    BY <2>2 DEF ResolveInv
  <2>3. CASE at' # "pass"
    <3>1. pass' = pass /\ at' = "push"
      BY <1>6, <2>3 DEF Rebase, Goto, StartPass
    <3>2. ~Broken("resolve")'
      BY <2>1, <3>1 DEF Resolving, Broken, Ended, NoPass
    <3> QED
      BY <3>1, <3>2 DEF ResolveInv
  <2> QED
    BY <2>2, <2>3
<1>7. CASE Resolved
  BY <1>7 DEF Resolved, Goto, ResolveInv, Resolving, Broken
<1>8. CASE Push \/ OpenPullRequest
  <2>1. /\ at \in AfterRebase /\ conflict' = conflict
        /\ \/ pass' = pass /\ at' \in AfterRebase
           \/ pass' = NoPass /\ at' = "idle"
    BY <1>8 DEF Push, OpenPullRequest, SectionFails, Goto, Fail, prVars
  <2> QED
    BY <2>1 DEF ResolveInv, Resolving, Broken, Ended
<1>9. CASE Merge
  <2>1. /\ at \in AfterRebase /\ conflict' = conflict
        /\ \/ pass' = pass /\ at' \in AfterRebase
           \/ pass' = NoPass /\ at' = "idle"
    BY <1>9 DEF Merge, SectionFails, Goto, Fail
  <2> QED
    BY <2>1 DEF ResolveInv, Resolving, Broken, Ended
<1>10. CASE RivalEnters \/ RivalLeaves \/ ConnectionCloses \/ Over \/ UNCHANGED vars
  <2>1. UNCHANGED <<pass, at, conflict>>
    BY <1>10 DEF RivalEnters, RivalLeaves, ConnectionCloses, Over, vars, execVars, loopVars,
                 prVars
  <2> QED
    BY <2>1 DEF ResolveInv, Resolving, Broken, Ended
<1> QED
  BY <1>1, <1>2, <1>3, <1>4, <1>5, <1>6, <1>7, <1>8, <1>9, <1>10 DEF Next, Running

----------------------------------------------------------------------------
(* ReadyIsClean: from the gates to the end of the execution the draft flag  *)
(* holds what RALPH and the last handoff said, and the pull request that    *)
(* the execution opened is as the flag was.                                 *)
Decided == \/ at \in {"lock", "commit", "rebase"} \cup AfterRebase
           \/ at = "pass" /\ pass.purpose = "resolve"

DraftInv ==
    /\ Decided /\ ~draft => ralph = "satisfied" /\ handoff # "blocking"
    /\ at \in {"merge", "complete"} /\ prUrl => pr = (IF draft THEN "draft" ELSE "ready")
    /\ ralph = "satisfied" => verdict \in {"none", "satisfied"}

\* What the loops make of RALPH's answers.
LEMMA LoopingAnswers ==
  ASSUME Looping
  PROVE  \/ UNCHANGED <<ralph, verdict>>
         \/ ralph' # "satisfied"
         \/ ralph' = verdict'
<1>1. CASE StageBegins \/ RalphStarts \/ RalphReimplemented \/ StageRetried \/ StageCounted
           \/ StageJudged \/ Validated \/ Revalidated \/ StageSettles \/ StagesDone
  BY <1>1 DEF StageBegins, RalphStarts, RalphReimplemented, StageRetried, StageCounted,
       StageJudged, Validated, Revalidated, StageSettles, StagesDone
<1>2. CASE RalphChecks
  BY <1>2 DEF RalphChecks
<1>3. CASE FixEnds
  <2>1. FixChecked \/ UNCHANGED <<ralph, verdict>>
    BY <1>3 DEF FixEnds
  <2> QED
    BY <2>1 DEF FixChecked
<1>4. CASE FixBegins \/ DeepProviders \/ DeepConverges \/ DeepImplemented \/ DeepReviewed
           \/ GatesDecide
  BY <1>4 DEF FixBegins, DeepProviders, DeepConverges, DeepImplemented, DeepReviewed,
       GatesDecide
<1> QED
  BY <1>1, <1>2, <1>3, <1>4 DEF Looping, LoopNext

LEMMA NextDraft == TypeInv /\ ResolveInv /\ DraftInv /\ [Next]_vars => DraftInv'
<1> SUFFICES ASSUME TypeInv, ResolveInv, DraftInv, [Next]_vars PROVE DraftInv'
  OBVIOUS
<1> USE DEF AfterRebase
<1> DEFINE Same == UNCHANGED <<ralph, handoff, verdict, draft>>
<1>1. CASE InFlight
  BY <1>1, InFlightKeeps DEF DraftInv, Decided, loopVars, prVars
<1>2. CASE Looping
  <2>1. ralph' = "satisfied" => verdict' \in {"none", "satisfied"}
    BY <1>2, LoopingAnswers DEF DraftInv
  <2>2. at' = "lock" /\ ~draft' => ralph' = "satisfied" /\ handoff' # "blocking"
    <3>1. at' = "lock" => GatesDecide
      BY <1>2, LoopingLands DEF Looping, LoopNext, StageBegins, RalphStarts, RalphChecks,
           RalphReimplemented, StageRetried, StageCounted, StageJudged, Validated, Revalidated,
           StageSettles, StagesDone, FixBegins, FixEnds, DeepProviders, DeepConverges,
           DeepImplemented, DeepReviewed
    <3> QED
      BY <3>1 DEF GatesDecide
  <2>3. Decided' => at' = "lock"
    BY <1>2, LoopingLands DEF Decided, LoopPoints
  <2> QED
    BY <2>1, <2>2, <2>3, <1>2, LoopingLands DEF DraftInv, LoopPoints
<1>3. CASE Resume
  BY <1>3 DEF Resume, DraftInv, Decided
<1>4. CASE LockTimesOut \/ Complete \/ Crash
  <2>1. at' = "idle" /\ Same
    BY <1>4 DEF LockTimesOut, Complete, Crash, Fail, Untouched
  <2> QED
    BY <2>1 DEF DraftInv, Decided
<1>5. CASE TryAcquire \/ CommitRest \/ Rebase \/ Resolved \/ Push
  <2>1. Decided /\ Same /\ at' \notin {"merge", "complete"}
    BY <1>5 DEF TryAcquire, CommitRest, Rebase, Resolved, Push, Decided, Untouched,
         Goto, SectionFails, Fail, StartPass, Ended
  <2> QED
    BY <2>1 DEF DraftInv
<1>6. CASE OpenPullRequest
  BY <1>6 DEF OpenPullRequest, DraftInv, Decided, Untouched, Goto
<1>7. CASE Merge
  <2>1. /\ at = "merge" /\ Same /\ UNCHANGED <<pr, prUrl>> /\ at' \in {"complete", "idle"}
    BY <1>7 DEF Merge, Untouched, Goto, SectionFails, Fail
  <2> QED
    BY <2>1 DEF DraftInv, Decided
<1>8. CASE RivalEnters \/ RivalLeaves \/ ConnectionCloses \/ Over \/ UNCHANGED vars
  <2>1. UNCHANGED <<execVars, loopVars, prVars>>
    BY <1>8 DEF RivalEnters, RivalLeaves, ConnectionCloses, Over, vars
  <2> QED
    BY <2>1 DEF DraftInv, Decided, Resolving, execVars, loopVars, prVars
<1> QED
  BY <1>1, <1>2, <1>3, <1>4, <1>5, <1>6, <1>7, <1>8 DEF Next, Running

LEMMA AlwaysDecided == Steps => [](TypeInv /\ ResolveInv /\ DraftInv)
<1>1. Init => ResolveInv /\ DraftInv
  BY DEF Init, ExecInit, LoopInit, ResolveInv, DraftInv, Decided, Resolving, AfterRebase,
         Broken, Ended
<1> QED
  BY <1>1, AlwaysTyped, NextResolve, NextDraft, PTL DEF Steps

LEMMA ReadyKept == Steps => []ReadyIsClean
<1>1. DraftInv => ReadyIsClean
  BY DEF DraftInv, ReadyIsClean, Decided, AfterRebase
<1> QED
  BY <1>1, AlwaysDecided, PTL

\* A pull request opened as ready by this execution: RALPH's last answer and the
\* last handoff have nothing against it (runner.ts 2247).
THEOREM ReadyIsAlwaysClean == Spec => []ReadyIsClean
  BY ReadyKept, PTL DEF Spec, Steps

LEMMA MergeKept == Steps => MergeIsEarned
<1>1. ASSUME TypeInv, ResolveInv, DraftInv, [Next]_vars, ~merged /\ merged'
      PROVE  ~Broken("resolve") /\ pr = "ready" /\ Inside
  <2>1. Merge
    <3>1. merged' # merged
      BY <1>1
    <3>2. CASE InFlight \/ Looping
      BY <3>1, <3>2 DEF InFlight, Looping, prVars
    <3>3. CASE \/ TryAcquire \/ LockTimesOut \/ CommitRest \/ Rebase \/ Resolved \/ Push
               \/ OpenPullRequest \/ Complete \/ Resume
      BY <3>1, <3>3 DEF TryAcquire, LockTimesOut, CommitRest, Rebase, Resolved, Push,
           OpenPullRequest, Complete, Resume, prVars
    <3>4. CASE Crash \/ RivalEnters \/ RivalLeaves \/ ConnectionCloses \/ Over \/ UNCHANGED vars
      BY <3>1, <3>4 DEF Crash, RivalEnters, RivalLeaves, ConnectionCloses, Over, vars, prVars
    <3> QED
      BY <1>1, <3>2, <3>3, <3>4 DEF Next, Running
  <2>2. at = "merge" /\ MergeWanted
    BY <1>1, <2>1 DEF Merge, MayMerge
  <2> QED
    BY <1>1, <2>2 DEF MergeWanted, ResolveInv, DraftInv, AfterRebase, Inside
<1> QED
  BY <1>1, AlwaysDecided, PTL DEF Steps, MergeIsEarned

\* Auto-merge happens in the section, on a ready pull request, and never after a
\* conflict whose resolution failed.
THEOREM MergeAlwaysEarned == Spec => MergeIsEarned
  BY MergeKept, PTL DEF Spec, Steps

----------------------------------------------------------------------------
(* WithinBudget: wherever a pass may begin the tokens were compared since   *)
(* they were last added to, but before the first re-implement of RALPH.     *)
BudgetInv == MaxTokens > 0 =>
    /\ at \in {"stage", "validate", "settle", "fix", "deep", "providers", "gates", "lock",
               "commit", "rebase"} => counted < MaxTokens
    /\ at = "pass" => counted < MaxTokens + NotYetCompared
    /\ at = "ralph" => counted < MaxTokens + (IF round = 1 THEN 1 ELSE 0)

LEMMA BudgetIs == MaxTokens \in Nat
  BY LoopAssumption

\* The passes other than RALPH's.
LEMMA PassBegins ==
  ASSUME MaxTokens > 0 => counted' < MaxTokens, NEW p, p # "ralph",
         at' = "pass", pass'.purpose = p
  PROVE  BudgetInv'
  BY BudgetIs DEF BudgetInv, NotYetCompared

\* A step that ends where the tokens are below the limit.
LEMMA Below ==
  ASSUME MaxTokens > 0 => counted' < MaxTokens, counted' \in Nat, at' # "pass"
  PROVE  BudgetInv'
  BY BudgetIs DEF BudgetInv

LEMMA Nowhere ==
  ASSUME at' \in {"idle", "counted", "push", "pr", "merge", "complete"}
  PROVE  BudgetInv'
  BY DEF BudgetInv

\* The steps of the stage loop.
LEMMA StageLoopBudget ==
  ASSUME TypeInv, BudgetInv, counted' \in Nat, round \in Nat, counted \in Nat,
         \/ StageBegins \/ RalphStarts \/ RalphChecks \/ RalphReimplemented
         \/ StageRetried \/ StageCounted \/ StageJudged \/ Validated \/ Revalidated
         \/ StageSettles
  PROVE  BudgetInv'
<1> USE BudgetIs
<1>1. CASE StageBegins
  BY <1>1, PassBegins DEF StageBegins, StartPass, Begin, BudgetInv
<1>2. CASE RalphStarts
  <2>1. /\ at = "pass" /\ pass.purpose = "main" /\ pass.cost \in 0..1
        /\ counted' = counted + pass.cost /\ at' = "ralph" /\ round' = 1
    BY <1>2, EndedIs DEF RalphStarts, RalphDue, Goto
  <2> QED
    BY <2>1 DEF BudgetInv, NotYetCompared
<1>3. CASE RalphChecks
  <2>1. at = "ralph" /\ counted' = counted
    BY <1>3 DEF RalphChecks
  <2>2. CASE at' = "counted"
    BY <2>2, Nowhere
  <2>3. CASE at' # "counted"
    <3>1. at' = "pass" /\ round' = round + 1
      BY <1>3, <2>3 DEF RalphChecks, Goto, StartPass
    <3>2. pass'.purpose = "ralph"
      BY <1>3, <2>3 DEF RalphChecks, Goto, StartPass, Begin
    <3> QED
      BY <2>1, <3>1, <3>2 DEF BudgetInv, NotYetCompared
  <2> QED
    BY <2>2, <2>3
<1>4. CASE RalphReimplemented
  <2>1. \/ at' \in {"idle", "counted"}
        \/ at' = "ralph" /\ ~OverBudget(counted')
    BY <1>4 DEF RalphReimplemented, Fail, Goto
  <2> QED
    BY <2>1, Nowhere, Below DEF OverBudget
<1>5. CASE StageRetried
  <2>1. /\ at = "pass" /\ pass.purpose # "ralph" /\ counted' = counted
        /\ at' = "pass" /\ pass'.purpose = "retry"
    BY <1>5 DEF StageRetried, RetryDue, Broken, Ended, StartPass, Begin
  <2> QED
    BY <2>1, PassBegins DEF BudgetInv, NotYetCompared
<1>6. CASE StageCounted
  BY <1>6, Nowhere DEF StageCounted, Goto
<1>7. CASE StageJudged
  <2>1. \/ at' = "idle"
        \/ at' = "validate" /\ counted' = counted /\ ~OverBudget(counted)
    BY <1>7 DEF StageJudged, Goto, Fail
  <2> QED
    BY <2>1, Nowhere, Below DEF OverBudget
<1>8. CASE Validated
  <2>1. /\ at = "validate" /\ counted' = counted
        /\ \/ at' \in {"idle", "settle"}
           \/ at' = "pass" /\ pass'.purpose = "validation"
    BY <1>8 DEF Validated, Goto, Fail, StartPass, Begin
  <2> QED
    BY <2>1, PassBegins, Below DEF BudgetInv
<1>9. CASE Revalidated
  <2>1. /\ at = "pass" /\ pass.purpose # "ralph" /\ counted' = counted
        /\ \/ at' \in {"idle", "settle"}
           \/ at' = "pass" /\ pass'.purpose = "validation"
    BY <1>9 DEF Revalidated, Ended, Goto, Fail, StartPass, Begin
  <2> QED
    BY <2>1, PassBegins, Below DEF BudgetInv, NotYetCompared
<1>10. CASE StageSettles
  <2>1. at = "settle" /\ counted' = counted /\ at' \in {"idle", "stage"}
    BY <1>10 DEF StageSettles, Fail
  <2> QED
    BY <2>1, Below DEF BudgetInv
<1> QED
  BY <1>1, <1>2, <1>3, <1>4, <1>5, <1>6, <1>7, <1>8, <1>9, <1>10

LEMMA LaterLoopsBudget ==
  ASSUME BudgetInv, counted' \in Nat,
         \/ StagesDone \/ FixBegins \/ FixEnds
         \/ DeepProviders \/ DeepConverges \/ DeepImplemented \/ DeepReviewed
         \/ GatesDecide
  PROVE  BudgetInv'
<1> USE BudgetIs
<1>1. CASE StagesDone \/ GatesDecide
  <2>1. at \in {"stage", "gates"} /\ counted' = counted /\ at' # "pass"
    BY <1>1 DEF StagesDone, GatesDecide, Goto
  <2> QED
    BY <2>1, Below DEF BudgetInv
<1>2. CASE FixBegins
  BY <1>2, PassBegins DEF FixBegins, StartPass, Begin, BudgetInv
<1>3. CASE FixEnds
  <2>1. \/ at' = "idle"
        \/ at' \in {"deep", "fix"} /\ ~OverBudget(counted')
    BY <1>3 DEF FixEnds, Fail
  <2> QED
    BY <2>1, Nowhere, Below DEF OverBudget
<1>4. CASE DeepProviders
  <2>1. \/ at' = "idle"
        \/ at' = "providers" /\ ~OverBudget(counted')
        \/ at = "deep" /\ at' = "gates" /\ counted' = counted
    BY <1>4 DEF DeepProviders, Fail, Goto
  <2> QED
    BY <2>1, Nowhere, Below DEF OverBudget, BudgetInv
<1>5. CASE DeepConverges
  <2>1. /\ at = "providers" /\ counted' = counted
        /\ \/ at' = "gates"
           \/ at' = "pass" /\ pass'.purpose = "deepImplement"
    BY <1>5 DEF DeepConverges, Goto, StartPass, Begin
  <2> QED
    BY <2>1, PassBegins, Below DEF BudgetInv
<1>6. CASE DeepImplemented
  <2>1. \/ at' = "idle"
        \/ at' = "pass" /\ pass'.purpose = "deepReview" /\ ~OverBudget(counted')
    BY <1>6 DEF DeepImplemented, Fail, StartPass, Begin
  <2> QED
    BY <2>1, Nowhere, PassBegins DEF OverBudget
<1>7. CASE DeepReviewed
  <2>1. \/ at' = "idle"
        \/ at' = "deep" /\ ~OverBudget(counted')
    BY <1>7 DEF DeepReviewed, Fail
  <2> QED
    BY <2>1, Nowhere, Below DEF OverBudget
<1> QED
  BY <1>1, <1>2, <1>3, <1>4, <1>5, <1>6, <1>7

LEMMA NextBudget == TypeInv /\ BudgetInv /\ [Next]_vars => BudgetInv'
<1> SUFFICES ASSUME TypeInv, BudgetInv, [Next]_vars PROVE BudgetInv'
  OBVIOUS
<1> USE BudgetIs
<1>0. counted \in Nat /\ counted' \in Nat /\ round \in Nat
  BY NextType DEF TypeInv, LoopTypeOK
<1>1. CASE InFlight
  BY <1>1, InFlightKeeps DEF BudgetInv, NotYetCompared, loopVars
<1>2. CASE Looping
  BY <1>0, <1>2, StageLoopBudget, LaterLoopsBudget DEF Looping, LoopNext
<1>3. CASE TryAcquire \/ CommitRest
  <2>1. /\ at \in {"lock", "commit"} /\ counted' = counted
        /\ at' \in {"lock", "commit", "rebase", "idle"}
    BY <1>3 DEF TryAcquire, CommitRest, SectionFails, Goto, Fail
  <2> QED
    BY <1>0, <2>1, Below DEF BudgetInv
<1>4. CASE Rebase
  <2>1. /\ at = "rebase" /\ counted' = counted
        /\ \/ at' = "push"
           \/ at' = "pass" /\ pass'.purpose = "resolve"
    BY <1>4 DEF Rebase, Goto, StartPass, Begin
  <2> QED
    BY <2>1, Nowhere, PassBegins DEF BudgetInv
<1>5. CASE LockTimesOut \/ Resolved \/ Push \/ OpenPullRequest \/ Merge \/ Complete \/ Crash
  <2>1. at' \in {"idle", "push", "pr", "merge", "complete"}
    BY <1>5 DEF LockTimesOut, Resolved, Push, OpenPullRequest, Merge, Complete, Crash,
         SectionFails, Goto, Fail
  <2> QED
    BY <2>1, Nowhere
<1>6. CASE Resume
  BY <1>6, Below DEF Resume
<1>7. CASE RivalEnters \/ RivalLeaves \/ ConnectionCloses \/ Over \/ UNCHANGED vars
  <2>1. UNCHANGED <<execVars, loopVars>>
    BY <1>7 DEF RivalEnters, RivalLeaves, ConnectionCloses, Over, vars
  <2> QED
    BY <2>1 DEF BudgetInv, NotYetCompared, execVars, loopVars
<1> QED
  BY <1>1, <1>2, <1>3, <1>4, <1>5, <1>6, <1>7 DEF Next, Running

LEMMA BudgetKept == Steps => []WithinBudget
<1>1. Init => BudgetInv
  BY BudgetIs DEF Init, LoopInit, BudgetInv
<1>2. BudgetInv => WithinBudget
  BY DEF BudgetInv, WithinBudget
<1> QED
  BY <1>1, <1>2, AlwaysTyped, NextBudget, PTL DEF Steps

\* No pass begins at the token limit (checkTokenBudget), in any of the loops and
\* for any limit, but for the first re-implement of RALPH, which is one pass late.
THEOREM AlwaysWithinBudget == Spec => []WithinBudget
  BY BudgetKept, PTL DEF Spec, Steps
=============================================================================
