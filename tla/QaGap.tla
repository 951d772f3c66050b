-------------------------------- MODULE QaGap --------------------------------
(***************************************************************************)
(* How the release manager reports a branch without a QA workflow: a tick  *)
(* looks for the workflow's file at the head it collected, closes or opens *)
(* a row of qa_gap_issues, files a Linear issue, and counts its failures   *)
(* in release_decisions.  Linear, GitHub and the database share no         *)
(* transaction and the process may stop between two calls.  A Linear       *)
(* client is configured; ticks do not overlap.                             *)
(***************************************************************************)
EXTENDS Naturals

CONSTANT MaxIssue   \* bound: issues filed while the file neither comes nor goes

VARIABLES
    present,    \* is the workflow's file at the head of the branch
    known,      \* does GitHub take a dispatch of it: it must have parsed the file
    tracked,    \* has a tick recorded a QA run of the head
    openGaps,   \* qa_gap_issues: rows without resolved_at, one by the unique index
    gapTries,   \* release_decisions: the greatest attempt_count, qa_no_workflow
    tries,      \* the same, qa_needs_trigger, of the head
    tick,       \* the step of the tick
    seen,       \* what the tick knows: the file, at its head; was it told, is its head old
    verdict,    \* the reason and the attempt_count it is about to record
    issues,     \* history: the issues filed since the file last came or went
    excuses,    \* history: what may have led to another one, up to MaxIssue
    fails       \* history: dispatches of the head that failed in a row, up to MaxTries

rows == <<tracked, openGaps, gapTries, tries>>
gapVars == <<present, known, rows, tick, seen, verdict, issues, excuses, fails>>

MaxTries == 3   \* MAX_QA_RETRY_ATTEMPTS
NoVerdict == [reason |-> "none", attempts |-> 0]
Unseen == [file |-> FALSE, told |-> TRUE, old |-> FALSE]

TypeOK ==
    /\ {present, known, tracked} \subseteq BOOLEAN /\ openGaps \in 0..1
    /\ gapTries \in 0..MaxTries - 1 /\ tries \in 0..MaxTries - 1
    /\ tick \in {"idle", "check", "resolve", "decide", "lookup", "create", "insert", "persist"}
    /\ seen \in [file : BOOLEAN, told : BOOLEAN, old : BOOLEAN]
    /\ verdict.attempts \in 0..MaxTries /\ issues \in 0..MaxIssue
    /\ excuses \in 0..MaxIssue /\ fails \in 0..MaxTries

Init ==
    /\ present = FALSE /\ known = FALSE /\ tracked = FALSE
    /\ openGaps = 0 /\ gapTries = 0 /\ tries = 0
    /\ tick = "idle" /\ seen = Unseen /\ verdict = NoVerdict
    /\ issues = 0 /\ excuses = 0 /\ fails = 0

Goto(step) == tick' = step /\ UNCHANGED <<seen, verdict>>
Over == tick' = "idle" /\ seen' = Unseen /\ verdict' = NoVerdict
Record(reason, attempts) ==
    tick' = "persist" /\ verdict' = [reason |-> reason, attempts |-> attempts] /\ UNCHANGED seen
Excuse(b) == excuses' = IF b /\ excuses < MaxIssue THEN excuses + 1 ELSE excuses

Begin ==
    /\ tick = "idle" /\ tick' = "check"
    /\ seen' = [file |-> present, told |-> TRUE, old |-> FALSE]
    /\ UNCHANGED <<present, known, rows, verdict, issues, excuses, fails>>

\* workflowFileExists: an error other than 404 counts as a file.
Exists(told) == told => seen.file
Check(told) ==
    /\ tick = "check" /\ seen' = [seen EXCEPT !.told = told]
    /\ tick' = IF Exists(told) THEN "resolve" ELSE "decide"
    /\ UNCHANGED <<present, known, rows, verdict, issues, excuses, fails>>

\* markGapResolved: the open row of the branch and the workflow.
Resolve ==
    /\ tick = "resolve" /\ openGaps' = 0 /\ Excuse(~seen.file /\ openGaps > 0) /\ Goto("decide")
    /\ UNCHANGED <<present, known, tracked, gapTries, tries, issues, fails>>

\* decide: another trigger skips, or the head has its run.
NotNow ==
    /\ tick = "decide" /\ Over
    /\ UNCHANGED <<present, known, rows, issues, excuses, fails>>
Missing ==
    /\ tick = "decide" /\ ~Exists(seen.told) /\ Goto("lookup")
    /\ UNCHANGED <<present, known, rows, issues, excuses, fails>>

\* Mutant of Clear: the failures stay.
ClearNothing == UNCHANGED tries

\* clearFailureRowsForSha.
Clear == tries' = IF seen.old THEN tries ELSE 0

NeedsTrigger == tick = "decide" /\ Exists(seen.told) /\ (seen.old \/ ~tracked)

\* The run was found, or GitHub does not show it yet.  One step: a row that is
\* not written (see Throw) only means another dispatch.
Dispatched(found) ==
    /\ NeedsTrigger /\ seen.file /\ known /\ Clear
    /\ tracked' = (tracked \/ (found /\ ~seen.old))
    /\ fails' = (IF seen.old THEN fails ELSE 0)
    /\ IF found THEN Over ELSE Record("qa_needs_trigger", 0)
    /\ UNCHANGED <<present, known, openGaps, gapTries, issues, excuses>>

\* dispatch_404.
Unknown ==
    /\ NeedsTrigger /\ ~(seen.file /\ known) /\ Goto("lookup") /\ Excuse(TRUE)
    /\ UNCHANGED <<present, known, rows, issues, fails>>

\* dispatch_422, which is recorded but does not keep the next tick from another try.
Misconfigured ==
    /\ NeedsTrigger /\ seen.file /\ known /\ Record("permanent", 0)
    /\ UNCHANGED <<present, known, rows, issues, excuses, fails>>

\* dispatch_error; rows of an older head are not counted for this one.
DispatchError ==
    /\ NeedsTrigger
    /\ LET attempts == IF seen.old THEN 1 ELSE tries + 1
       IN Record(IF attempts >= MaxTries THEN "qa_dispatch_error" ELSE "qa_needs_trigger", attempts)
    /\ fails' = (IF seen.old \/ fails = MaxTries THEN fails ELSE fails + 1)
    /\ UNCHANGED <<present, known, rows, issues, excuses>>

----------------------------------------------------------------------------
(* fileGapIssue and tryFileQaGapIssue.                                      *)

\* Mutant of Filed: every tick files.
FiledNever == FALSE

Filed == openGaps > 0

\* The analysis by the language model between this query and the issue may take
\* minutes and may fail, which changes the text only.
Lookup ==
    /\ tick = "lookup"
    /\ IF Filed THEN Record("qa_no_workflow", 0) ELSE Goto("create")
    /\ UNCHANGED <<present, known, rows, issues, excuses, fails>>

GapError ==
    LET attempts == gapTries + 1
    IN Record(IF attempts >= MaxTries THEN "qa_gap_file_error" ELSE "qa_no_workflow", attempts)

Create(kept, told) ==
    /\ tick = "create" /\ (kept => issues < MaxIssue)
    /\ issues' = (IF kept THEN issues + 1 ELSE issues) /\ Excuse(kept /\ ~told)
    /\ IF kept /\ told THEN Goto("insert") ELSE GapError
    /\ UNCHANGED <<present, known, rows, fails>>

Insert ==
    /\ tick = "insert" /\ openGaps = 0 /\ openGaps' = 1
    /\ Record("qa_no_workflow", 0)
    /\ UNCHANGED <<present, known, tracked, gapTries, tries, issues, excuses, fails>>

\* persistDecision; getMaxAttemptCountForReason asks for the greatest number.
Larger(m, n) == IF m > n THEN m ELSE n
Persist ==
    /\ tick = "persist" /\ Over
    /\ gapTries' = (IF verdict.reason = "qa_no_workflow"
                    THEN Larger(gapTries, verdict.attempts) ELSE gapTries)
    /\ tries' = (IF verdict.reason = "qa_needs_trigger" /\ ~seen.old
                 THEN Larger(tries, verdict.attempts) ELSE tries)
    /\ UNCHANGED <<present, known, tracked, openGaps, issues, excuses, fails>>

\* A query fails, or the process restarts.
Throw ==
    /\ tick # "idle" /\ Over /\ Excuse(tick = "insert")
    /\ UNCHANGED <<present, known, rows, issues, fails>>

----------------------------------------------------------------------------
(* People push, with or without the file; GitHub parses it some time later, *)
(* and only on the default branch.                                          *)

Push(file) ==
    /\ present' = file /\ known' = (known /\ file)
    /\ tracked' = FALSE /\ tries' = 0 /\ fails' = 0
    /\ seen' = (IF tick = "idle" THEN seen ELSE [seen EXCEPT !.old = TRUE])
    /\ issues' = (IF file = present THEN issues ELSE 0)
    /\ excuses' = (IF file = present THEN excuses ELSE 0)
    /\ UNCHANGED <<openGaps, gapTries, tick, verdict>>
Register ==
    /\ present /\ ~known /\ known' = TRUE
    /\ UNCHANGED <<present, rows, tick, seen, verdict, issues, excuses, fails>>

Next ==
    \/ Begin \/ Resolve \/ NotNow \/ Missing \/ Unknown \/ Misconfigured \/ DispatchError
    \/ \E told \in BOOLEAN : Check(told)
    \/ \E found \in BOOLEAN : Dispatched(found)
    \/ Lookup \/ \E kept, told \in BOOLEAN : Create(kept, told)
    \/ Insert \/ Persist \/ Throw \/ Register \/ \E file \in BOOLEAN : Push(file)

Spec == Init /\ [][Next]_gapVars

\* A missing workflow is reported by one issue, and by another one only after a
\* lost answer of Linear or the database, a look at the file that failed, or a
\* dispatch GitHub knew no workflow for (each tick's row forgets the one before).
OneIssue == issues <= 1 + excuses

\* The dispatch is given up after three failures in a row: what a successful one
\* left behind does not count, nor what was dispatched for an older head.
GivenUpFairly == verdict.reason = "qa_dispatch_error" /\ ~seen.old => fails >= MaxTries

\* What the two rest on.  A tick that is about to file an issue has either found no open row
\* and no file, or has its excuse; what it saw of the file is true unless the file came or
\* went meanwhile, and then no issue has been filed since.  Failures that are counted are
\* failures in a row, and fewer than those that give up.
IndInv ==
    /\ TypeOK /\ OneIssue /\ GivenUpFairly
    /\ tick = "idle" => seen = Unseen /\ verdict = NoVerdict
    /\ ~present /\ openGaps = 0 /\ tick # "insert" => issues <= excuses
    /\ tick = "create" => openGaps = 0 /\ issues <= excuses
    /\ tick = "lookup" /\ openGaps = 0 => issues <= excuses
    /\ tick \in {"check", "resolve", "decide"} /\ seen.file # present => issues = 0
    /\ verdict.reason \in {"qa_needs_trigger", "qa_no_workflow"} => verdict.attempts < MaxTries
    /\ tries <= fails
    /\ verdict.reason = "qa_needs_trigger" /\ ~seen.old => verdict.attempts <= fails
=============================================================================
