------------------------------ MODULE Branches ------------------------------
(***************************************************************************)
(* The agent's branch of one issue and the commits on it                   *)
(* (packages/core/src/repo): start() that finds it on the remote and       *)
(* deletes it as stale, the clone all worktrees of an issue share, the     *)
(* worktrees of the issue's runs and of the feedback runs of its pull      *)
(* request, the push section that rebases and pushes with a lease, the     *)
(* people who push to the same branch, merge and close, and the hourly     *)
(* sweeps of old branches and old worktrees.                               *)
(*                                                                         *)
(* A tip is the commits of the branch and the version of the default       *)
(* branch they sit on: a rebase that moves them makes another tip.  The    *)
(* agent that leaves its branch does not come back to it.                  *)
(***************************************************************************)
EXTENDS Integers, FiniteSets

CONSTANTS
    Runs,           \* runs of the issue
    FeedbackRuns,   \* feedback runs of its pull request
    MaxCommit,      \* bound: commits made by agents and people
    MaxMain         \* bound: how often the default branch moves

VARIABLES
    main,           \* origin's default branch: its version, the commits merged
    origin,         \* the tip of the branch on origin, or Gone
    aged,           \* whether that tip is older than the sweep's TTL
    pr,             \* the pull request of the branch
    clone,          \* the shared clone: head, mainRef, tracking, local
    session,        \* where each run is
    tree,           \* what each run's worktree has checked out
    owes,           \* the commits each run's push has to carry (history)
    made,           \* how many commits were made
    sweep           \* where the branch sweep is

vars == <<main, origin, aged, pr, clone, session, tree, owes, made, sweep>>
repo == <<main, origin, aged, pr>>

Sessions == Runs \cup FeedbackRuns
Gone == [base |-> -1, work |-> {}]
Working == {"working", "opened", "fetched", "rebased", "stale", "refetched", "pushed"}
Brief == {"found", "stale branch", "cloned", "fetched ref"} \cup (Working \ {"working"})

Init == /\ main = [version |-> 0, work |-> {}]
        /\ origin = Gone
        /\ aged = FALSE
        /\ pr = "none"
        /\ clone = [head |-> -1, mainRef |-> main, tracking |-> Gone, local |-> Gone]
        /\ session = [s \in Sessions |-> "new"]
        /\ tree = [s \in Sessions |-> "none"]
        /\ owes = [s \in Sessions |-> {}]
        /\ made = 0
        /\ sweep = "idle"

Step(s, from, to) == session[s] \in from /\ session' = [session EXCEPT ![s] = to]

\* Deleting the branch of an open pull request closes it.
DeleteBranch == /\ origin' = Gone
                /\ pr' = IF pr = "open" THEN "closed" ELSE pr
                /\ aged' = FALSE
                /\ UNCHANGED main

\* `git fetch origin` does not prune: the tracking ref of a branch that is
\* gone stays.
Fetched == [clone EXCEPT !.mainRef = main,
                         !.tracking = IF origin = Gone THEN @ ELSE origin]

-----------------------------------------------------------------------------
\* checkDuplicateBranch in start(): a failed ls-remote finds nothing.
FindNone(r) == Step(r, {"new"}, "clear") /\ UNCHANGED <<repo, clone, tree, owes, made, sweep>>

Find(r) == /\ origin # Gone
           /\ Step(r, {"new"}, "found")
           /\ UNCHANGED <<repo, clone, tree, owes, made, sweep>>

LiveRow(s) == \E t \in Sessions \ {s} : session[t] \in Working \cup {"cloned", "fetched ref"}

\* classifyExistingBranch: a live run or an open pull request keeps the branch
\* and start() returns; a query that fails passes for no pull request.
KeepBranch(r) ==
    /\ LiveRow(r) \/ pr = "open"
    /\ Step(r, {"found"}, "ended")
    /\ UNCHANGED <<repo, clone, tree, owes, made, sweep>>

CallStale(r) ==
    /\ ~LiveRow(r)
    /\ Step(r, {"found"}, "stale branch")
    /\ UNCHANGED <<repo, clone, tree, owes, made, sweep>>

DeleteStale(r) ==
    /\ Step(r, {"stale branch"}, "clear")
    /\ DeleteBranch \/ UNCHANGED repo
    /\ UNCHANGED <<clone, tree, owes, made, sweep>>

\* cloneRepo: a directory with the right remote is only fetched, so the
\* checkout that new branches start from stays where the first clone put it.
CloneRepo(s) ==
    /\ Step(s, IF s \in Runs THEN {"clear"} ELSE {"new"}, "cloned")
    /\ s \in FeedbackRuns => pr = "open"
    /\ clone' = IF clone.head = -1
                  THEN [head |-> main.version, mainRef |-> main,
                        tracking |-> origin, local |-> Gone]
                  ELSE Fetched
    /\ UNCHANGED <<repo, tree, owes, made, sweep>>

\* worktreeAddWithRetry with -B: the branch is reset, and a worktree that has
\* it checked out, or is in the middle of rebasing it, is removed by force.
Checkout(s, tip) ==
    /\ clone' = [clone EXCEPT !.local = tip]
    /\ tree' = [t \in Sessions |->
                   CASE t = s -> "branch"
                     [] t # s /\ tree[t] = "other" -> "other"
                     [] OTHER -> "none"]

CreateWorktree(r) ==
    /\ r \in Runs
    /\ Step(r, {"cloned"}, "working")
    /\ Checkout(r, [base |-> clone.head, work |-> {}])
    /\ UNCHANGED <<repo, owes, made, sweep>>

\* Mutant of FetchRemote: the clone's refs are taken for the remote's.
TrustRefs(f) ==
    /\ f \in FeedbackRuns
    /\ Step(f, {"cloned"}, "fetched ref")
    /\ owes' = [owes EXCEPT ![f] = origin.work]
    /\ UNCHANGED <<repo, clone, tree, made, sweep>>

\* createWorktreeFromRemote: fetch, then a worktree at origin/<branch>.
FetchRemote(f) ==
    /\ f \in FeedbackRuns
    /\ Step(f, {"cloned"}, "fetched ref")
    /\ clone' = Fetched
    /\ owes' = [owes EXCEPT ![f] = origin.work]
    /\ UNCHANGED <<repo, tree, made, sweep>>

CreateWorktreeFromRemote(f) ==
    /\ clone.tracking # Gone
    /\ Step(f, {"fetched ref"}, "working")
    /\ Checkout(f, clone.tracking)
    /\ owes' = [owes EXCEPT ![f] = @ \cap origin.work]
    /\ UNCHANGED <<repo, made, sweep>>

-----------------------------------------------------------------------------
\* The agent commits, on the branch or where it went instead.
Record(s) ==
    /\ made < MaxCommit
    /\ made' = made + 1
    /\ owes' = [owes EXCEPT ![s] = @ \cup {made'}]
    /\ clone' = IF tree[s] = "branch" THEN [clone EXCEPT !.local.work = @ \cup {made'}]
                                      ELSE clone

Commit(s) == /\ session[s] = "working"
             /\ tree[s] # "none"
             /\ Record(s)
             /\ UNCHANGED <<repo, session, tree, sweep>>

\* A git checkout the agent, or a tool it ran, made in the worktree.
Leave(s) == /\ session[s] = "working"
            /\ tree[s] = "branch"
            /\ tree' = [tree EXCEPT ![s] = "other"]
            /\ UNCHANGED <<repo, clone, session, owes, made, sweep>>

\* Mutant of OnBranch: HEAD is not looked at.
AnyHead(s) == TRUE

\* verifyBranchMatch: HEAD must be the branch, also not detached.  When git
\* fails, because the worktree is gone, it passes: what follows fails then.
OnBranch(s) == tree[s] \in {"branch", "none"}

\* The push section begins: auto-commit what the agent left uncommitted.
OpenPush(s) ==
    /\ OnBranch(s)
    /\ Step(s, {"working"}, "opened")
    /\ \/ tree[s] # "none" /\ Record(s)
       \/ UNCHANGED <<clone, owes, made>>
    /\ UNCHANGED <<repo, tree, sweep>>

\* rebaseBranch: a fetch that fails ends the attempt, and the push goes ahead.
FetchBeforePush(s) ==
    /\ tree[s] # "none"
    /\ Step(s, {"opened"}, "fetched")
    /\ clone' = Fetched
    /\ UNCHANGED <<repo, tree, owes, made, sweep>>

NoRebase(s) ==
    /\ Step(s, {"opened", "fetched"}, "rebased")
    /\ UNCHANGED <<repo, clone, tree, owes, made, sweep>>

\* Commits the default branch already has are dropped by git.
Rebase(s) ==
    /\ tree[s] = "branch"
    /\ Step(s, {"fetched"}, "rebased")
    /\ clone' = [clone EXCEPT !.local = [base |-> clone.mainRef.version,
                                         work |-> @.work \ clone.mainRef.work]]
    /\ UNCHANGED <<repo, tree, owes, made, sweep>>

\* A conflict whose status the code does not list (a file modified here and
\* deleted there): the rebase stays in progress, with HEAD detached.
RebaseStuck(s) ==
    /\ tree[s] = "branch"
    /\ clone.local.base # clone.mainRef.version
    /\ Step(s, {"fetched"}, "rebased")
    /\ tree' = [tree EXCEPT ![s] = "detached"]
    /\ UNCHANGED <<repo, clone, owes, made, sweep>>

\* A conflict it does list is aborted; a run then has the agent resolve it.
Resolve(s) ==
    /\ s \in Runs
    /\ tree[s] = "branch"
    /\ clone.local.base # clone.mainRef.version
    /\ Step(s, {"fetched"}, "rebased")
    /\ Record(s)
    /\ UNCHANGED <<repo, tree, sweep>>

Publish == /\ origin' = clone.local
           /\ clone' = [clone EXCEPT !.tracking = clone.local]
           /\ aged' = (aged /\ origin = clone.local)
           /\ UNCHANGED <<main, pr>>

\* pushBranchForce: every agent/ branch is pushed with a lease on the
\* tracking ref; it publishes the clone's ref of the branch, not HEAD.
PushForce(s) ==
    /\ OnBranch(s)
    /\ tree[s] # "none"
    /\ origin = clone.tracking
    /\ Step(s, {"rebased", "refetched"}, "pushed")
    /\ Publish
    /\ UNCHANGED <<tree, owes, made, sweep>>

\* "stale info": fetch --prune, and push once more.
LeaseRefused(s) ==
    /\ OnBranch(s)
    /\ tree[s] # "none"
    /\ origin # clone.tracking
    /\ Step(s, {"rebased"}, "stale")
    /\ UNCHANGED <<repo, clone, tree, owes, made, sweep>>

FetchPrune(s) ==
    /\ tree[s] # "none"
    /\ Step(s, {"stale"}, "refetched")
    /\ clone' = [clone EXCEPT !.mainRef = main, !.tracking = origin]
    /\ UNCHANGED <<repo, tree, owes, made, sweep>>

CreatePR(r) ==
    /\ r \in Runs
    /\ origin # Gone
    /\ Step(r, {"pushed"}, "ended")
    /\ pr' = "open"
    /\ UNCHANGED <<main, origin, aged, clone, tree, owes, made, sweep>>

FeedbackPushed(f) ==
    /\ f \in FeedbackRuns
    /\ Step(f, {"pushed"}, "ended")
    /\ UNCHANGED <<repo, clone, tree, owes, made, sweep>>

\* Any step of a run may fail; deleteWorktree runs outside the clone and
\* fails too, so the worktree stays and a retry resumes in it.
Fail(s) == /\ Step(s, Working \cup {"cloned", "fetched ref"}, "failed")
           /\ UNCHANGED <<repo, clone, tree, owes, made, sweep>>

Resume(s) == /\ tree[s] # "none"
             /\ Step(s, {"failed"}, "working")
             /\ UNCHANGED <<repo, clone, tree, owes, made, sweep>>

\* cleanupWorktrees: the directory is older than its TTL.
CleanUp(s) == /\ session[s] \in {"failed", "ended"}
              /\ tree[s] # "none"
              /\ tree' = [tree EXCEPT ![s] = "none"]
              /\ UNCHANGED <<repo, clone, session, owes, made, sweep>>

-----------------------------------------------------------------------------
\* runAgentBranchSweep: list the branches with old tips, ask for an open pull
\* request of each, delete.  A query that fails keeps the branch.
List == /\ sweep = "idle"
        /\ sweep' = IF origin # Gone /\ aged THEN "listed" ELSE "idle"
        /\ UNCHANGED <<repo, clone, session, tree, owes, made>>

KeepListed == /\ sweep \in {"listed", "unused"}
              /\ sweep' = "idle"
              /\ UNCHANGED <<repo, clone, session, tree, owes, made>>

\* Mutant of NoOpenPR: pull requests of any state are asked for.
NoPRAtAll == /\ sweep = "listed"
             /\ pr = "none"
             /\ sweep' = "unused"
             /\ UNCHANGED <<repo, clone, session, tree, owes, made>>

NoOpenPR == /\ sweep = "listed"
            /\ pr # "open"
            /\ sweep' = "unused"
            /\ UNCHANGED <<repo, clone, session, tree, owes, made>>

DeleteSwept == /\ sweep = "unused"
               /\ sweep' = "idle"
               /\ DeleteBranch
               /\ UNCHANGED <<clone, session, tree, owes, made>>

\* Days pass without a push; no step of a run between two of its git
\* commands takes that long.
Age == /\ origin # Gone
       /\ ~aged
       /\ \A s \in Sessions : session[s] \notin Brief
       /\ sweep = "idle"
       /\ aged' = TRUE
       /\ UNCHANGED <<main, origin, pr, clone, session, tree, owes, made, sweep>>

\* People: commit to the branch, merge or close its pull request, move the
\* default branch.
PeoplePush == /\ pr = "open"
              /\ origin # Gone
              /\ made < MaxCommit
              /\ made' = made + 1
              /\ origin' = [origin EXCEPT !.work = @ \cup {made'}]
              /\ aged' = FALSE
              /\ UNCHANGED <<main, pr, clone, session, tree, owes, sweep>>

PeopleMerge == /\ pr = "open"
               /\ main.version < MaxMain
               /\ main' = [version |-> main.version + 1, work |-> main.work \cup origin.work]
               /\ pr' = "closed"
               /\ origin' \in {origin, Gone}
               /\ aged' = (aged /\ origin' # Gone)
               /\ UNCHANGED <<clone, session, tree, owes, made, sweep>>

PeopleClose == /\ pr = "open"
               /\ pr' = "closed"
               /\ UNCHANGED <<main, origin, aged, clone, session, tree, owes, made, sweep>>

MainMoves == /\ main.version < MaxMain
             /\ main' = [main EXCEPT !.version = @ + 1]
             /\ UNCHANGED <<origin, aged, pr, clone, session, tree, owes, made, sweep>>

SessionStep(s) ==
    \/ CloneRepo(s) \/ Commit(s) \/ Leave(s) \/ OpenPush(s) \/ FetchBeforePush(s)
    \/ NoRebase(s) \/ Rebase(s) \/ RebaseStuck(s) \/ Resolve(s) \/ PushForce(s)
    \/ LeaseRefused(s) \/ FetchPrune(s) \/ Fail(s) \/ Resume(s) \/ CleanUp(s)

Next ==
    \/ \E r \in Runs : \/ FindNone(r) \/ Find(r) \/ KeepBranch(r) \/ CallStale(r)
                       \/ DeleteStale(r) \/ CreateWorktree(r) \/ CreatePR(r)
    \/ \E f \in FeedbackRuns : FetchRemote(f) \/ CreateWorktreeFromRemote(f) \/ FeedbackPushed(f)
    \/ \E s \in Sessions : SessionStep(s)
    \/ List \/ KeepListed \/ NoOpenPR \/ DeleteSwept
    \/ Age \/ PeoplePush \/ PeopleMerge \/ PeopleClose \/ MainMoves

\* The steps of a run settle; days pass; the sweep comes round every hour,
\* and again and again its query and its deletion are answered.
Fairness ==
    /\ \A s \in Sessions : WF_vars(session[s] \in Brief /\ Next /\ session'[s] # session[s])
    /\ SF_vars(Age)
    /\ WF_vars(List)
    /\ SF_vars(NoOpenPR)
    /\ SF_vars(DeleteSwept)

Spec == Init /\ [][Next]_vars /\ Fairness

-----------------------------------------------------------------------------
Tips == [base : -1..MaxMain, work : SUBSET (1..MaxCommit)]

TypeOK ==
    /\ main \in [version : 0..MaxMain, work : SUBSET (1..MaxCommit)]
    /\ origin \in Tips
    /\ aged \in BOOLEAN
    /\ pr \in {"none", "open", "closed"}
    /\ clone.tracking \in Tips /\ clone.local \in Tips
    /\ session \in [Sessions -> {"new", "clear", "ended", "failed", "working"} \cup Brief]
    /\ tree \in [Sessions -> {"none", "branch", "other", "detached"}]
    /\ sweep \in {"idle", "listed", "unused"}

(***************************************************************************)
(* A push carries all it should: the commits the run made wherever its     *)
(* agent went, and for a feedback run also everything that was under       *)
(* review when its worktree was made, except what the default branch has   *)
(* by then.  The ref that is pushed is shared by all worktrees of the      *)
(* clone and HEAD may be somewhere else, so it takes the verification, the *)
(* forced removal of the other worktree and the fetch together.            *)
(***************************************************************************)
PushWhole ==
    \A s \in Sessions : session[s] # "pushed" /\ session'[s] = "pushed"
        => owes[s] \subseteq origin'.work \cup main.work

PublishedWhole == [][PushWhole]_vars

(***************************************************************************)
(* Liveness: a branch on origin without an open pull request, left by a    *)
(* failed run, a merge or a close, goes in the end unless it gets one.     *)
(***************************************************************************)
UnusedBranchGoes == (origin # Gone /\ pr # "open") ~> (origin = Gone \/ pr = "open")
=============================================================================
