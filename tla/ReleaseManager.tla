--------------------------- MODULE ReleaseManager ---------------------------
(***************************************************************************)
(* The release manager (release-manager/): a scheduled tick retries the    *)
(* releases it could not finish, collects the state of the branch, asks    *)
(* for a QA run of its head, and when every trigger passes creates a tag   *)
(* and a release at GitHub and then a row in release_decisions.  GitHub    *)
(* and the database share no transaction: people push, tag, clean up and   *)
(* approve between two calls, each call may fail, and the process may stop *)
(* between any two.                                                        *)
(*                                                                         *)
(* Commits and versions are numbered; a version is bumped by one.          *)
(***************************************************************************)
EXTENDS Naturals, Sequences, FiniteSets

CONSTANTS
    Approvers,     \* Slack users
    MinCommits,    \* triggers.mergedPRsSince
    QaCheck,       \* triggers.qaCheck is set
    NeedsApproval, \* triggers.requireSlackApproval
    MaxCommit, MaxVersion, MaxRun, MaxRow   \* bounds: commits, versions, QA runs, rows

ASSUME ReleaseAssumption ==
    /\ {MinCommits, MaxCommit} \subseteq Nat \ {0} /\ {MaxVersion, MaxRun, MaxRow} \subseteq Nat
    /\ {QaCheck, NeedsApproval} \subseteq BOOLEAN

Commits == 1..MaxCommit
Versions == 1..MaxVersion
MaxAttempts == 3     \* MAX_FIRE_PENDING_ATTEMPTS

VARIABLES
    head,       \* the newest commit of the branch
    tags,       \* GitHub: the commit a version is tagged at, 0 for none
    releases,   \* GitHub: the versions with a release
    runs,       \* GitHub: the runs of the QA workflow
    approvals,  \* release_approvals: is there an unconsumed row, and is it fresh
    rows,       \* release_decisions: the rows with a fired tag
    qaRun,      \* release_decisions: the newest qa_run_id, 0 for none
    paused,     \* pausedUntilTs, in memory
    at,         \* the step of the tick
    sweep,      \* the rows the sweep has still to retry
    plan,       \* what the tick collected: commit, version, approved, sighted (listTags answered)
    own         \* history: the versions tagged by a tick that was sighted

github == <<head, tags, releases, runs>>
db == <<approvals, rows, qaRun>>
tick == <<at, sweep, plan>>
vars == <<github, db, paused, tick, own>>

Nothing == [sha |-> 0, version |-> 0, approved |-> FALSE, sighted |-> FALSE]
Row == [tag : Versions, sha : Commits, decision : {"fire", "fire-pending"}, attempts : 0..MaxAttempts]

TypeOK ==
    /\ head \in Commits /\ tags \in [Versions -> 0..MaxCommit] /\ releases \subseteq Versions
    /\ runs \in Seq([sha : Commits, status : {"running", "success", "failure"}])
    /\ approvals \in [Approvers -> {"none", "fresh", "stale"}]
    /\ rows \in Seq(Row) /\ qaRun \in 0..Len(runs) /\ paused \in BOOLEAN
    /\ at \in {"idle", "sweep", "record", "collect", "qa", "tag", "release", "fired", "partial", "consume"}
    /\ sweep \subseteq DOMAIN rows /\ (at \in {"sweep", "record"} <=> sweep # {})
    /\ IF at \in {"qa", "tag", "release", "fired", "partial", "consume"}
       THEN plan \in [sha : 1..head, version : Versions, approved : BOOLEAN, sighted : BOOLEAN]
       ELSE plan = Nothing
    /\ own \subseteq Versions

\* A repository without tags, or with one that is older than the manager.
Init ==
    /\ head = 1 /\ releases = {} /\ runs = <<>>
    /\ tags \in {[v \in Versions |-> 0], [v \in Versions |-> IF v = 2 THEN 1 ELSE 0]}
    /\ approvals = [u \in Approvers |-> "none"] /\ rows = <<>> /\ qaRun = 0
    /\ paused = FALSE /\ at = "idle" /\ sweep = {} /\ plan = Nothing /\ own = {}

Stop == at' = "idle" /\ sweep' = {} /\ plan' = Nothing
Goto(step) == at' = step /\ UNCHANGED <<sweep, plan>>

----------------------------------------------------------------------------
(* sweepFirePendingRows: the newest row first.                              *)

\* Mutant of Pending: one attempt more.
PendingOnceMore == {k \in DOMAIN rows : rows[k].decision = "fire-pending" /\ rows[k].attempts <= MaxAttempts}

Pending == {k \in DOMAIN rows : rows[k].decision = "fire-pending" /\ rows[k].attempts < MaxAttempts}

Begin ==
    /\ at = "idle" /\ ~paused
    /\ sweep' = Pending /\ at' = IF Pending = {} THEN "collect" ELSE "sweep"
    /\ UNCHANGED <<github, db, paused, plan, own>>

Current(k) == k \in sweep /\ \A l \in sweep : l <= k
RowDone(k) ==
    /\ sweep' = sweep \ {k} /\ at' = IF sweep = {k} THEN "collect" ELSE "sweep"
    /\ UNCHANGED plan

\* A release that GitHub takes; it creates the tag again if that is gone.
Released(v, sha) ==
    /\ v \notin releases /\ releases' = releases \cup {v}
    /\ tags' = [tags EXCEPT ![v] = IF @ = 0 THEN sha ELSE @]

\* Mutant of NotReleased: the attempt is not counted.
NotReleasedKept(k) == UNCHANGED rows

NotReleased(k) == rows' = [rows EXCEPT ![k].attempts = @ + 1]

\* Mutant of Gone: a tag that is no longer there counts as released.
GoneIsDone(k) == tags[rows[k].tag] = 0 /\ rows' = [rows EXCEPT ![k].decision = "fire"]

\* The operator cleaned up.
Gone(k) == tags[rows[k].tag] = 0 /\ UNCHANGED rows

\* History: the next tick takes the highest version for the latest, so one that is back
\* at an older commit hides the lower versions of the commits after it.
Overtaken(v) == {w \in own : w < v /\ tags[w] > tags'[v]}

\* A failed getRef does not keep createRelease from being tried.
Retry(k) ==
    /\ at = "sweep" /\ Current(k)
    /\ \/ Gone(k) /\ RowDone(k) /\ UNCHANGED <<tags, releases>>
       \/ Released(rows[k].tag, rows[k].sha) /\ Goto("record") /\ UNCHANGED rows
       \/ NotReleased(k) /\ RowDone(k) /\ UNCHANGED <<tags, releases>>
    /\ own' = own \ Overtaken(rows[k].tag)
    /\ UNCHANGED <<head, runs, approvals, qaRun, paused>>

RecordRetry(k) ==
    /\ at = "record" /\ Current(k) /\ RowDone(k)
    /\ rows' = [rows EXCEPT ![k].decision = "fire"]
    /\ UNCHANGED <<github, approvals, qaRun, paused, own>>

\* The database fails: the sweep is over, the tick goes on.
SweepFails ==
    /\ at \in {"sweep", "record"} /\ at' = "collect" /\ sweep' = {}
    /\ UNCHANGED <<github, db, paused, plan, own>>

----------------------------------------------------------------------------
(* collectState and decide.                                                 *)

\* 0: there is no tag, or listTags failed.
Latest(sighted) ==
    IF sighted /\ \E v \in Versions : tags[v] # 0
    THEN CHOOSE v \in Versions : tags[v] # 0 /\ \A w \in Versions : tags[w] # 0 => w <= v
    ELSE 0

ManualTag(latest) == latest # 0 /\ rows # <<>> /\ latest # rows[Len(rows)].tag

\* Mutant of EnoughCommits: off by one.
EnoughOffByOne(latest) == head - (IF latest = 0 THEN 0 ELSE tags[latest]) >= MinCommits - 1

EnoughCommits(latest) == head - (IF latest = 0 THEN 0 ELSE tags[latest]) >= MinCommits

Approved(ok) == NeedsApproval => ok

\* bumpFromConfigAndCommits.
Bump(latest) == latest + 1

\* A skip, for one of these triggers or for those of time and CI.
Skip == at \in {"collect", "qa"} /\ Stop /\ UNCHANGED <<github, db, paused, own>>

Collect(sighted) ==
    /\ at = "collect"
    /\ LET latest == Latest(sighted)
           ok == \E u \in Approvers : approvals[u] = "fresh"
       IN /\ ~ManualTag(latest) /\ EnoughCommits(latest) /\ Bump(latest) \in Versions
          /\ plan' = [sha |-> head, version |-> Bump(latest), approved |-> ok, sighted |-> sighted]
          /\ QaCheck \/ Approved(ok)
    /\ at' = (IF QaCheck THEN "qa" ELSE "tag") /\ UNCHANGED sweep
    /\ UNCHANGED <<github, db, paused, own>>

----------------------------------------------------------------------------
(* evalQaCheck.                                                             *)

\* Mutant of Tracked: the run may be of another commit.
TrackedAny(sha) == qaRun # 0

Tracked(sha) == qaRun # 0 /\ runs[qaRun].sha = sha

Passed(sha) == Tracked(sha) /\ runs[qaRun].status = "success"

QaPasses ==
    /\ at = "qa" /\ Passed(plan.sha) /\ Approved(plan.approved) /\ Goto("tag")
    /\ UNCHANGED <<github, db, paused, own>>

\* Only the approval is missing: Slack is told, whose answer is for a later tick.
AwaitApproval ==
    /\ at = "qa" /\ Passed(plan.sha) /\ ~Approved(plan.approved) /\ Stop
    /\ UNCHANGED <<github, db, paused, own>>

\* triggerWorkflow: the list of runs may lag behind, and then no run is found or
\* an older one of that commit.
Dispatch ==
    /\ at = "qa" /\ ~Tracked(plan.sha) /\ Len(runs) < MaxRun
    /\ runs' = Append(runs, [sha |-> plan.sha, status |-> "running"])
    /\ qaRun' \in {qaRun} \cup {k \in DOMAIN runs' : runs'[k].sha = plan.sha}
    /\ Stop /\ UNCHANGED <<head, tags, releases, approvals, rows, paused, own>>

----------------------------------------------------------------------------
(* createTagAndRelease, persistDecision, consumeApprovalRow.                *)

\* tag_exists or another error.
NoTag == at = "tag" /\ Stop /\ UNCHANGED <<github, db, paused, own>>

CreateTag ==
    /\ at = "tag" /\ tags[plan.version] = 0
    /\ tags' = [tags EXCEPT ![plan.version] = plan.sha]
    /\ own' = IF plan.sighted THEN own \cup {plan.version} ELSE own
    /\ Goto("release") /\ UNCHANGED <<head, releases, runs, db, paused>>

CreateRelease ==
    /\ at = "release"
    /\ \/ Released(plan.version, plan.sha) /\ Goto("fired")
       \/ Goto("partial") /\ UNCHANGED <<tags, releases>>
    /\ UNCHANGED <<head, runs, db, paused, own>>

Fired(decision, attempts) ==
    /\ Len(rows) < MaxRow
    /\ rows' = Append(rows, [tag |-> plan.version, sha |-> plan.sha,
                             decision |-> decision, attempts |-> attempts])

Persist ==
    /\ \/ at = "fired" /\ Fired("fire", 0) /\ IF plan.approved THEN Goto("consume") ELSE Stop
       \/ at = "partial" /\ Fired("fire-pending", 1) /\ Stop
    /\ UNCHANGED <<github, approvals, qaRun, paused, own>>

\* The newest unconsumed approval: a fresh one if there is one.
Consume ==
    /\ at = "consume" /\ Stop
    /\ \E u \in Approvers :
         /\ approvals[u] # "none"
         /\ approvals[u] = "stale" => \A w \in Approvers : approvals[w] # "fresh"
         /\ approvals' = [approvals EXCEPT ![u] = "none"]
    /\ UNCHANGED <<github, rows, qaRun, paused, own>>

\* The tick throws, or the process restarts, which forgets the pause too.
Throw ==
    /\ at \notin {"idle", "sweep", "record"} /\ Stop
    /\ UNCHANGED <<github, db, paused, own>>
Restart == Stop /\ paused' = FALSE /\ UNCHANGED <<github, db, own>>

----------------------------------------------------------------------------
(* Slack: /release approve and skip.  A user with an unconsumed row, fresh  *)
(* or not, cannot add another.                                              *)

Approve(u) ==
    /\ approvals[u] = "none" /\ approvals' = [approvals EXCEPT ![u] = "fresh"]
    /\ UNCHANGED <<github, rows, qaRun, paused, tick, own>>
Expire(u) ==
    /\ approvals[u] = "fresh" /\ approvals' = [approvals EXCEPT ![u] = "stale"]
    /\ UNCHANGED <<github, rows, qaRun, paused, tick, own>>
\* A tick under way does not look at the pause.
PauseUntil(p) == at = "idle" /\ paused' = p /\ UNCHANGED <<github, db, tick, own>>

----------------------------------------------------------------------------
(* GitHub and its users.  Bound: a tag with a release is not removed.       *)

Push ==
    /\ head < MaxCommit /\ head' = head + 1
    /\ UNCHANGED <<tags, releases, runs, db, paused, tick, own>>
TagByHand(v) ==
    /\ tags[v] = 0 /\ tags' = [tags EXCEPT ![v] = head] /\ own' = own \ {v}
    /\ UNCHANGED <<head, releases, runs, db, paused, tick>>
CleanUp(v) ==
    /\ tags[v] # 0 /\ v \notin releases
    /\ tags' = [tags EXCEPT ![v] = 0] /\ own' = own \ {v}
    /\ UNCHANGED <<head, releases, runs, db, paused, tick>>
ReleaseByHand(v) ==
    /\ tags[v] # 0 /\ releases' = releases \cup {v}
    /\ UNCHANGED <<head, tags, runs, db, paused, tick, own>>
RunEnds(k) ==
    /\ runs[k].status = "running"
    /\ \E s \in {"success", "failure"} : runs' = [runs EXCEPT ![k].status = s]
    /\ UNCHANGED <<head, tags, releases, db, paused, tick, own>>

----------------------------------------------------------------------------
TickStep ==
    \/ Begin \/ SweepFails \/ Skip \/ QaPasses \/ AwaitApproval \/ Dispatch
    \/ \E k \in 1..MaxRow : Retry(k) \/ RecordRetry(k)
    \/ \E sighted \in BOOLEAN : Collect(sighted)
    \/ NoTag \/ CreateTag \/ CreateRelease \/ Persist \/ Consume \/ Throw

Slack == \/ \E u \in Approvers : Approve(u) \/ Expire(u)
         \/ \E p \in BOOLEAN : PauseUntil(p)

People ==
    \/ Push \/ \E v \in Versions : TagByHand(v) \/ CleanUp(v) \/ ReleaseByHand(v)
    \/ \E k \in DOMAIN runs : RunEnds(k)

Next == TickStep \/ Restart \/ Slack \/ People

\* The schedule comes round and a pause ends: again and again a tick begins, and its
\* sweep gets to each of the rows, whatever pauses, errors and restarts there are.
Fairness ==
    /\ WF_vars(TickStep) /\ WF_vars(PauseUntil(FALSE)) /\ SF_vars(Begin)
    /\ \A k \in 1..MaxRow : SF_vars(Retry(k))

Spec == Init /\ [][Next]_vars /\ Fairness

----------------------------------------------------------------------------
\* Every commit the manager has tagged has passed a QA run of its own, although the head
\* of the branch moves on while a run is dispatched, found and polled over several ticks.
QaPassed ==
    QaCheck =>
        /\ \A v \in own : \E k \in DOMAIN runs : runs[k].sha = tags[v] /\ runs[k].status = "success"
        /\ \A k \in DOMAIN rows : \E l \in DOMAIN runs :
               runs[l].sha = rows[k].sha /\ runs[l].status = "success"

\* A row that says fire has its release at GitHub, be it of the tick that made the tag or
\* of a later one's sweep.
FireMeansReleased == \A k \in DOMAIN rows : rows[k].decision = "fire" => rows[k].tag \in releases

\* A commit is tagged once: no crash, failed release or failed row makes a tick that can
\* list the tags give a second version to a commit the manager has tagged, unless a removed
\* tag of a higher version has come back at an older commit in between (Overtaken).
TaggedOnce == \A v, w \in own : tags[v] = tags[w] => v = w

\* A release that could not be created is retried until it is there, or three attempts
\* have failed, or the operator has removed its tag.
PendingResolved ==
    \A k \in 1..MaxRow :
        LET waiting == k \in Pending /\ tags[rows[k].tag] # 0 IN waiting ~> ~waiting
=============================================================================
