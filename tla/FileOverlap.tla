----------------------------- MODULE FileOverlap -----------------------------
(***************************************************************************)
(* Who works on which files.  A run announces the files it has changed in  *)
(* its row of active_work before each stage and then looks at the rows of  *)
(* the others (pm/coordination.ts; runs of one or several servers); a      *)
(* feedback run announces but does not look, and is not among Runs.  The   *)
(* PM agent reads the worktrees and branches of the active runs before it  *)
(* asks the language model whether an issue would touch the same files     *)
(* (pm/conflict.ts).  Every query and every git command may fail, which is *)
(* logged and otherwise treated as an empty answer.                        *)
(***************************************************************************)
EXTENDS FiniteSets

CONSTANTS Runs, Paths, NoRow   \* NoRow: the run has no row, or one with files_modified NULL

VARIABLES
    dirty, committed,  \* worktree: changed files that are not, or are, in a commit
    pushed,            \* the files of the branch on origin, {} while it is not there
    listed,            \* allModifiedFiles, in memory
    row,               \* active_work.files_modified
    step,              \* of the stage loop: out, before a stage, looking, in the stage
    heard,             \* history: the runs the look before this stage found
    unsure,            \* history: a query of that announcement failed, or the row was taken away
    pm,                \* the PM's tick: idle, reading, or answered without asking
    toRead, known,     \* the active runs it has still to read, the files it has read
    early              \* history: the runs that had changed files when it began, that go on
                       \* and for which git did not fail

runVars == <<dirty, committed, pushed, listed, row, step, heard, unsure>>
pmVars == <<pm, toRead, known, early>>
overlapVars == <<runVars, pmVars>>

None == [r \in Runs |-> {}]

TypeOK ==
    /\ {dirty, committed, pushed, listed} \subseteq [Runs -> SUBSET Paths]
    /\ row \in [Runs -> (SUBSET Paths) \cup {NoRow}]
    /\ step \in [Runs -> {"out", "before", "look", "stage"}]
    /\ heard \in [Runs -> SUBSET Runs] /\ unsure \subseteq Runs
    /\ pm \in {"idle", "read", "unasked"}
    /\ {toRead, early} \subseteq SUBSET Runs /\ known \subseteq Paths

Init ==
    /\ dirty = None /\ committed = None /\ pushed = None /\ listed = None
    /\ row = [r \in Runs |-> NoRow] /\ step = [r \in Runs |-> "out"]
    /\ heard = None /\ unsure = {}
    /\ pm = "idle" /\ toRead = {} /\ known = {} /\ early = {}

At(r, s) == step[r] = s
Goto(r, s) == step' = [step EXCEPT ![r] = s]
Doubt(r, b) == unsure' = IF b THEN unsure \cup {r} ELSE unsure

\* A fresh run, or one that is resumed in the worktree it left: its list is
\* empty in either case, and a row it still has is emptied.
Start(r, resumed, ok) ==
    /\ At(r, "out") /\ Goto(r, "before")
    /\ row' = IF ok THEN [row EXCEPT ![r] = NoRow] ELSE row
    /\ IF resumed THEN UNCHANGED <<dirty, committed, pushed>>
       ELSE /\ dirty' = [dirty EXCEPT ![r] = {}] /\ committed' = [committed EXCEPT ![r] = {}]
            /\ pushed' = [pushed EXCEPT ![r] = {}]
    /\ UNCHANGED <<listed, heard, unsure, pmVars>>

\* Mutant of Announced: the row written when the run started is left as it is.
AnnouncedOnce(r) == row[r]

\* upsertActiveWork: an empty list is written as NULL.
Announced(r) == IF listed[r] = {} THEN NoRow ELSE listed[r]

Announce(r, ok) ==
    /\ At(r, "before")
    /\ row' = (IF ok THEN [row EXCEPT ![r] = Announced(r)] ELSE row)
    /\ unsure' = (IF ok THEN unsure \ {r} ELSE unsure \cup {r})
    /\ Goto(r, IF listed[r] = {} THEN "stage" ELSE "look")
    /\ UNCHANGED <<dirty, committed, pushed, listed, heard, pmVars>>

\* checkFileOverlap.
Overlapping(r) == {s \in Runs \ {r} : row[s] # NoRow /\ row[s] \cap listed[r] # {}}

Look(r, ok) ==
    /\ At(r, "look") /\ Goto(r, "stage") /\ Doubt(r, ~ok)
    /\ heard' = [heard EXCEPT ![r] = IF ok THEN Overlapping(r) ELSE {}]
    /\ UNCHANGED <<dirty, committed, pushed, listed, row, pmVars>>

\* The agent; the pipeline commits what it left.
Edit(r, f) ==
    /\ At(r, "stage") /\ f \notin dirty[r] /\ dirty' = [dirty EXCEPT ![r] = @ \cup {f}]
    /\ UNCHANGED <<committed, pushed, listed, row, step, heard, unsure, pmVars>>
Commit(r) ==
    /\ At(r, "stage") /\ dirty[r] # {}
    /\ committed' = [committed EXCEPT ![r] = @ \cup dirty[r]] /\ dirty' = [dirty EXCEPT ![r] = {}]
    /\ UNCHANGED <<pushed, listed, row, step, heard, unsure, pmVars>>

\* getModifiedFiles: git status and git log, of which either may fail.
Modified(r, status, log) ==
    (IF status THEN dirty[r] ELSE {}) \cup (IF log THEN committed[r] ELSE {})

EndStage(r, status, log) ==
    /\ At(r, "stage") /\ Goto(r, "before")
    /\ LET fresh == Modified(r, status, log)
       IN listed' = [listed EXCEPT ![r] = IF fresh = {} THEN @ ELSE fresh]
    /\ heard' = [heard EXCEPT ![r] = {}] /\ unsure' = unsure \ {r}
    /\ UNCHANGED <<dirty, committed, pushed, row, pmVars>>

\* After the last stage.
Push(r) ==
    /\ At(r, "before") /\ committed[r] # {} /\ pushed' = [pushed EXCEPT ![r] = committed[r]]
    /\ UNCHANGED <<dirty, committed, listed, row, step, heard, unsure, pmVars>>

\* removeActiveWork, when a run ends, pauses or stops; the row may stay.
End(r, ok) ==
    /\ ~At(r, "out") /\ Goto(r, "out") /\ row' = IF ok THEN [row EXCEPT ![r] = NoRow] ELSE row
    /\ heard' = [heard EXCEPT ![r] = {}] /\ unsure' = unsure \ {r} /\ early' = early \ {r}
    /\ listed' = [listed EXCEPT ![r] = {}]
    /\ UNCHANGED <<dirty, committed, pushed, pm, toRead, known>>

\* terminate() and the recovery of another server's boot remove the row of a run
\* that goes on for a while.
Terminate(r) ==
    /\ ~At(r, "out") /\ row' = [row EXCEPT ![r] = NoRow]
    /\ Doubt(r, step[r] \in {"look", "stage"})
    /\ UNCHANGED <<dirty, committed, pushed, listed, step, heard, pmVars>>

----------------------------------------------------------------------------
(* getActiveFileMaps and predictConflict.                                   *)

Active == {r \in Runs : ~At(r, "out")}
Changed(r) == dirty[r] \cup committed[r]

Gather ==
    /\ pm = "idle" /\ pm' = "read" /\ toRead' = Active /\ known' = {}
    /\ early' = {r \in Active : Changed(r) # {}} /\ UNCHANGED runVars

\* Mutant of Seen: the commits of an unpushed branch only.
SeenCommits(r, diff, status) == IF diff THEN committed[r] ELSE {}

\* getWorktreeFiles; a branch on origin is read there, without what is not pushed yet.
Seen(r, diff, status) ==
    IF pushed[r] # {} THEN IF diff THEN pushed[r] ELSE {}
    ELSE (IF diff THEN committed[r] ELSE {}) \cup (IF status THEN dirty[r] ELSE {})

Read(r, diff, status) ==
    /\ pm = "read" /\ r \in toRead /\ toRead' = toRead \ {r}
    /\ known' = known \cup Seen(r, diff, status)
    /\ early' = IF diff /\ status THEN early ELSE early \ {r}
    /\ UNCHANGED <<pm, runVars>>

\* Without a file there is nothing to ask: the risk is "none".  The answer of the
\* model, or "low" if it fails, is an input of the promotion.
Over == pm' = "idle" /\ known' = {} /\ early' = {}
AskOrNot ==
    /\ pm = "read" /\ toRead = {} /\ UNCHANGED <<toRead, runVars>>
    /\ IF known = {} THEN pm' = "unasked" /\ UNCHANGED <<known, early>> ELSE Over
TickOver == pm = "unasked" /\ Over /\ UNCHANGED <<toRead, runVars>>

RunStep(r) ==
    \/ Commit(r) \/ Push(r) \/ Terminate(r)
    \/ \E resumed, ok \in BOOLEAN : Start(r, resumed, ok)
    \/ \E ok \in BOOLEAN : Announce(r, ok) \/ Look(r, ok) \/ End(r, ok)
    \/ \E f \in Paths : Edit(r, f)
    \/ \E status, log \in BOOLEAN : EndStage(r, status, log)
Next ==
    \/ \E r \in Runs : RunStep(r)
    \/ Gather \/ AskOrNot \/ TickOver
    \/ \E r \in Runs, diff \in BOOLEAN :
         Read(r, diff, TRUE) \/ (pushed[r] = {} /\ Read(r, diff, FALSE))

Spec == Init /\ [][Next]_overlapVars

\* Of two runs in a stage that had announced a common file, one has seen the other.
OneHasHeard ==
    \A r, s \in Runs :
        /\ r # s /\ At(r, "stage") /\ At(s, "stage") /\ {r, s} \cap unsure = {}
        /\ listed[r] \cap listed[s] # {}
        => s \in heard[r] \/ r \in heard[s]

\* An issue is promoted unasked only if no run that is still active had changed a
\* file when the tick began, or git failed on it.
AskedIfChanged == pm = "unasked" => early = {}

\* What the two rest on: the row of a run that looks, or works, says what it announced, and
\* a run that changed files before the tick is unread or has left a file with it.
IndInv ==
    /\ TypeOK /\ OneHasHeard /\ AskedIfChanged
    /\ \A r \in Runs \ unsure : step[r] \in {"look", "stage"} => row[r] = Announced(r)
    /\ pm = "read" => \A r \in early :
         ~At(r, "out") /\ Changed(r) # {} /\ (r \in toRead \/ known # {})
=============================================================================
