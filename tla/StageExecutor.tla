--------------------------- MODULE StageExecutor ---------------------------
(***************************************************************************)
(* One call of executeStage() (executor/executor.ts) of one pipeline run,  *)
(* with the agent session it opens or resumes.                             *)
(*                                                                         *)
(* A session is known in four places: the runner's local variable, the     *)
(* row of pipeline_runs, the agent SDK (which registers an identifier      *)
(* before it writes anything) and the transcript on disk.  Sessions are    *)
(* the numbers 1..MaxSessions, 0 is null: resume is switched off.          *)
(***************************************************************************)
EXTENDS Naturals

CONSTANTS
    StageNames,    \* names of agent stages
    Resumable,     \* the stages whose model continues the run's session
    SessionOn,     \* URATEAM_DISABLE_AGENT_SESSION_RESUME is not "true"
    MaxSessions    \* bound: identifiers minted for the run

ASSUME SessionAssumption ==
    /\ Resumable \subseteq StageNames
    /\ SessionOn \in BOOLEAN
    /\ MaxSessions \in Nat \ {0}

VARIABLES
    pass,          \* the call in flight, or its result
    session,       \* runAgentSessionId
    initiated,     \* hasInitiatedSession
    rowSession,    \* pipeline_runs.agent_session_id
    registered,    \* identifiers the SDK has seen
    transcripts,   \* identifiers with a transcript on disk
    minted         \* how many identifiers were drawn

execVars == <<pass, session, initiated, rowSession, registered, transcripts,
              minted>>

NoPass == [at |-> "none"]

\* The result a stage's handoff brings for the draft decision: the review
\* findings are left out, or none of them is blocking, or some are.
Findings == {"omitted", "clear", "blocking"}
FindingsOf(stage) == IF stage = "review" THEN Findings ELSE {"omitted"}

Purposes == {"main", "ralph", "retry", "validation", "fix", "deepImplement",
             "deepReview", "resolve"}
Shapes == {"none", "create", "resume"}

Calls == [at : {"preflight", "stream"}, purpose : Purposes, stage : StageNames,
          first : BOOLEAN, brief : BOOLEAN, shape : Shapes]
Results == [at : {"completed"}, purpose : Purposes, stage : StageNames,
            first : BOOLEAN, findings : Findings, cost : 0..1]
           \cup [at : {"failed"}, purpose : Purposes, stage : StageNames,
                 first : BOOLEAN, transient : BOOLEAN, cost : 0..1]

ExecTypeOK ==
    /\ pass \in {NoPass} \cup Calls \cup Results
    /\ session \in 0..MaxSessions /\ rowSession \in 0..MaxSessions
    /\ initiated \in BOOLEAN
    /\ registered \subseteq 1..MaxSessions /\ transcripts \subseteq registered
    /\ minted \in 0..MaxSessions

ExecInit ==
    /\ pass = NoPass
    /\ session = (IF SessionOn THEN 1 ELSE 0)
    /\ rowSession = session /\ minted = session
    /\ initiated = FALSE
    /\ registered = {} /\ transcripts = {}

----------------------------------------------------------------------------
(* claimFirstResumableStage() does not ask for the model: the flag goes up  *)
(* for a stage that will not open the session as well.                      *)
ClaimsFirst == session # 0 /\ ~initiated

\* The call up to its first await: the row of stage_runs is inserted.  A
\* brief prompt leaves the previous context to the resumed transcript.
Begin(purpose, stage, brief) ==
    /\ pass' = [at |-> "preflight", purpose |-> purpose, stage |-> stage,
                first |-> ClaimsFirst, brief |-> brief, shape |-> "none"]
    /\ initiated' = (initiated \/ session # 0)
    /\ UNCHANGED <<session, rowSession, registered, transcripts, minted>>

OnDisk(id) == id \in transcripts

\* resolveSessionOpts: by what is on disk.
ResolveSession(stage) ==
    CASE session = 0 \/ stage \notin Resumable -> "none"
      [] OnDisk(session) -> "resume"
      [] OTHER -> "create"

\* What the agent SDK accepts: an existing transcript, or an identifier that it
\* has not registered before.
Accepted(shape) ==
    CASE shape = "none" -> TRUE
      [] shape = "resume" -> OnDisk(session)
      [] OTHER -> session \notin registered

Failed(transient, cost) ==
    [at |-> "failed", purpose |-> pass.purpose, stage |-> pass.stage,
     first |-> pass.first, transient |-> transient, cost |-> cost]

Completed(findings) ==
    [at |-> "completed", purpose |-> pass.purpose, stage |-> pass.stage,
     first |-> pass.first, findings |-> findings, cost |-> 1]

\* Credentials are invalid, or the wall clock ran out while the transcript was
\* counted.  Whether a failure counts as transient is decided by patterns over
\* its message, /401/ and /429/ among them, and the message carries the duration
\* in milliseconds: any failure may.
PreflightFails ==
    /\ pass.at = "preflight"
    /\ \E transient \in BOOLEAN : pass' = Failed(transient, 0)
    /\ UNCHANGED <<session, initiated, rowSession, registered, transcripts,
                   minted>>

\* query(): the SDK registers the identifier before any message.
OpenStream ==
    /\ pass.at = "preflight"
    /\ LET shape == ResolveSession(pass.stage) IN
       /\ Accepted(shape)
       /\ pass' = [pass EXCEPT !.at = "stream", !.shape = shape]
       /\ registered' = registered
                        \cup (IF shape = "create" THEN {session} ELSE {})
    /\ UNCHANGED <<session, initiated, rowSession, transcripts, minted>>

----------------------------------------------------------------------------
(* The agent stream.  consumeAgentStream throws when no message arrives     *)
(* within five minutes, when no token or turn arrives within thirty, or     *)
(* when the iterator throws; the wall clock of the stage is raced with it.  *)

\* No first message: nothing is written to disk and nothing is counted.
StreamStalls ==
    /\ pass.at = "stream"
    /\ \E transient \in BOOLEAN : pass' = Failed(transient, 0)
    /\ UNCHANGED <<session, initiated, rowSession, registered, transcripts,
                   minted>>

WritesTranscript ==
    transcripts' = transcripts
                   \cup (IF pass.shape = "create" THEN {session} ELSE {})

\* Stalled or broken after the first message; the tokens are those of the
\* last progress tick.
StreamFails ==
    /\ pass.at = "stream"
    /\ \E transient \in BOOLEAN : pass' = Failed(transient, 1)
    /\ WritesTranscript
    /\ UNCHANGED <<session, initiated, rowSession, registered, minted>>

\* The stream ended: extractHandoff always returns an artifact.
StreamEnds ==
    /\ pass.at = "stream"
    /\ \E f \in FindingsOf(pass.stage) : pass' = Completed(f)
    /\ WritesTranscript
    /\ UNCHANGED <<session, initiated, rowSession, registered, minted>>

\* Mutant of Collide: the runner goes on with the old identifier (before the
\* follow-up of BEC-268).
CollideForgotten ==
    /\ pass.at = "preflight"
    /\ ~Accepted(ResolveSession(pass.stage)) /\ minted < MaxSessions
    /\ pass' = Failed(TRUE, 0)
    /\ minted' = minted + 1 /\ rowSession' = minted + 1
    /\ UNCHANGED <<session, initiated, registered, transcripts>>

\* "Session ID is already in use": a fresh identifier goes to the row at once
\* and to the runner by applyCollisionRecovery(), which lowers the flag again;
\* no await lies between the return of the stage and that call.
Collide ==
    /\ pass.at = "preflight"
    /\ ~Accepted(ResolveSession(pass.stage)) /\ minted < MaxSessions
    /\ pass' = Failed(TRUE, 0)
    /\ minted' = minted + 1 /\ rowSession' = minted + 1
    /\ session' = minted + 1 /\ initiated' = FALSE
    /\ UNCHANGED <<registered, transcripts>>

ExecNext == PreflightFails \/ OpenStream \/ StreamStalls \/ StreamFails
            \/ StreamEnds \/ Collide

Ended(purpose) == pass.at \in {"completed", "failed"} /\ pass.purpose = purpose
=============================================================================
