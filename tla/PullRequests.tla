---------------------------- MODULE PullRequests ----------------------------
(***************************************************************************)
(* What becomes of the pull requests: while feedback runs push to them     *)
(* (FeedbackPipeline), people and GitHub merge them, the server merges     *)
(* them by itself when an event says that their checks have changed        *)
(* (pipeline/automerge.ts), and the webhook handlers of GitHub, GitLab and *)
(* Bitbucket tell Linear.                                                  *)
(*                                                                         *)
(* The handlers find the row of a pull request by its address with LIMIT 1 *)
(* and no order; a feedback row has the address as well, so any of them    *)
(* may be found.                                                           *)
(***************************************************************************)
EXTENDS FeedbackPipeline

CONSTANTS
    Forge,          \* pull request -> github, gitlab or bitbucket
    Said,           \* comment -> what is said, by whom and where
    GithubFeedback, \* the repository's configuration of comments, for every forge
    Unchecked,      \* pull requests of repositories without requiredStatusChecks
    MaxEvents       \* bound: check events ever handled

Comment == [author : STRING, kind : {"review", "inline", "issue"},
            empty : BOOLEAN, draft : BOOLEAN, keyword : BOOLEAN]

ASSUME PullRequestsAssumption ==
    /\ Forge \in [PRs -> {"github", "gitlab", "bitbucket"}]
    /\ Said \in [Comments -> Comment]
    /\ GithubFeedback \in [bots : SUBSET STRING, reviewers : SUBSET STRING,
                           keyword : BOOLEAN, auto : BOOLEAN]
    /\ Unchecked \subseteq PRs
    /\ MaxEvents \in Nat

Events == 1..MaxEvents
ParentRow == NoRun              \* the row of the run that opened the pull request

VARIABLES
    merged,     \* pull request -> who merged it
    green,      \* <<p, n>>: the required checks of p have passed after n pushes
    event,      \* check events: where the handler is, its pull request, the
                \* row it found and the head it fetched
    closed,     \* pull request -> the way of the event that tells of the merge
    originalRun,\* pull request -> the row the handler of that event has read
    told,       \* pull requests for which onPRMerged was called
    marked      \* <<p, row>> with auto_merged set

prVars == <<merged, green, event, closed, originalRun, told, marked>>
allVars == <<vars, prVars>>

Handler == [at : {"unused", "found", "fetched", "eligible", "merged", "refused", "done"},
            pr : PRs, row : Runs \cup {ParentRow}, head : 0..MaxRuns]

Idle(s) == [at |-> s, pr |-> CHOOSE p \in PRs : TRUE, row |-> ParentRow, head |-> 0]

PullRequestsTypeOK ==
    /\ merged \in [PRs -> {"open", "people", "server"}]
    /\ green \subseteq PRs \X (0..MaxRuns)
    /\ event \in [Events -> Handler]
    /\ closed \in [PRs -> {"none", "sent", "read", "done", "lost"}]
    /\ originalRun \in [PRs -> Runs \cup {ParentRow}]
    /\ told \subseteq PRs
    /\ marked \subseteq PRs \X (Runs \cup {ParentRow})

PullRequestsInit ==
    /\ Init
    /\ merged = [p \in PRs |-> "open"]
    /\ green = {}
    /\ event = [e \in Events |-> Idle("unused")]
    /\ closed = [p \in PRs |-> "none"]
    /\ originalRun = [p \in PRs |-> ParentRow]
    /\ told = {}
    /\ marked = {}

Head(p) == Cardinality({r \in pushed : PR(r) = p})

\* findPipelineRunByPrUrlOrBranch.
Found(p) == {ParentRow} \cup {r \in Runs : status[r] # "none" /\ PR(r) = p}

At(e, s) == event' = [event EXCEPT ![e].at = s]

-----------------------------------------------------------------------------
(* Which comments are heard.                                               *)

\* Drafts are passed over, but an issue_comment does not tell that it is on one.
GitHubHears(c) == ~Said[c].empty /\ (Said[c].draft => Said[c].kind = "issue")
GitLabHears(c) == ~Said[c].empty /\ ~Said[c].draft
BitbucketHears(c) == ~Said[c].empty

\* Bots, reviewers and keyword; without a list of reviewers everybody is one, and
\* without a keyword only autoTrigger = false silences a comment.
Wanted(c) ==
    /\ Said[c].author \notin GithubFeedback.bots
    /\ GithubFeedback.reviewers = {} \/ Said[c].author \in GithubFeedback.reviewers
    /\ IF GithubFeedback.keyword THEN Said[c].keyword ELSE GithubFeedback.auto

Heard(c) ==
    /\ CASE Forge[PrOf[c]] = "github" -> GitHubHears(c)
         [] Forge[PrOf[c]] = "gitlab" -> GitLabHears(c)
         [] Forge[PrOf[c]] = "bitbucket" -> BitbucketHears(c)
    /\ Wanted(c)

-----------------------------------------------------------------------------
(* handleAutoMergeEvent and attemptAutoMerge, one await at a time.         *)

\* The row is found; one marked already, or without autoMergeConfig, ends it.
CheckEvent(e, p) ==
    /\ phase = "up" /\ Forge[p] = "github"
    /\ event[e].at = "unused" /\ \A f \in 1..(e - 1) : event[f].at # "unused"
    /\ \E row \in Found(p) :
         /\ <<p, row>> \notin marked
         /\ event' = [event EXCEPT ![e] = [at |-> "found", pr |-> p, row |-> row, head |-> 0]]
    /\ UNCHANGED <<vars, merged, green, closed, originalRun, told, marked>>

\* The pull request is fetched: it may be closed, a draft or not labelled.
Fetch(e) ==
    /\ event[e].at = "found"
    /\ \/ /\ merged[event[e].pr] = "open"
          /\ event' = [event EXCEPT ![e].at = "fetched", ![e].head = Head(event[e].pr)]
       \/ At(e, "refused")
    /\ UNCHANGED <<vars, merged, green, closed, originalRun, told, marked>>

\* The reviews, then the checks of the head that was fetched.
Check(e) ==
    /\ event[e].at = "fetched"
    /\ \/ /\ event[e].pr \in Unchecked \/ <<event[e].pr, event[e].head>> \in green
          /\ At(e, "eligible")
       \/ At(e, "refused")
    /\ UNCHANGED <<vars, merged, green, closed, originalRun, told, marked>>

\* GitHub merges whatever the head is by now, or refuses.  An answer that does
\* not arrive counts as a refusal.
MergeByServer(e) ==
    /\ event[e].at = "eligible"
    /\ LET p == event[e].pr
       IN \/ /\ merged[p] = "open"
             /\ merged' = [merged EXCEPT ![p] = "server"]
             /\ closed' = [closed EXCEPT ![p] = "sent"]
             /\ At(e, "merged") \/ At(e, "refused")
          \/ At(e, "refused") /\ UNCHANGED <<merged, closed>>
    /\ UNCHANGED <<vars, green, originalRun, told, marked>>

\* Mutant of Recorded: that the pull request is eligible is taken for the merge.
RecordedEligible(e) == event[e].at = "eligible"

Recorded(e) == event[e].at = "merged"

\* The answer, true or null, is written over whatever the row says by now.
Record(e) ==
    /\ event[e].at \in {"merged", "refused"} \/ Recorded(e)
    /\ LET row == <<event[e].pr, event[e].row>>
       IN marked' = IF Recorded(e) THEN marked \cup {row} ELSE marked \ {row}
    /\ event' = [event EXCEPT ![e] = Idle("done")]
    /\ UNCHANGED <<vars, merged, green, closed, originalRun, told>>

-----------------------------------------------------------------------------
(* handlePRMergedEvent and, for GitLab and Bitbucket, handleMergedEvent.   *)

ClosedAt(p, s) == closed' = [closed EXCEPT ![p] = s]

\* Mutant of Unmarked: true and null are mixed up.
UnmarkedSwapped(p, row) == <<p, row>> \in marked

Unmarked(p, row) == <<p, row>> \notin marked

\* The row is read.
ReadMerged(p) ==
    /\ phase = "up" /\ closed[p] = "sent"
    /\ \E row \in Found(p) :
         \/ Unmarked(p, row) /\ ClosedAt(p, "read") /\ originalRun' = [originalRun EXCEPT ![p] = row]
         \/ ~Unmarked(p, row) /\ ClosedAt(p, "done") /\ UNCHANGED originalRun
    /\ UNCHANGED <<vars, merged, green, event, told, marked>>

\* That row is written, and onPRMerged called.
TellMerged(p) ==
    /\ closed[p] = "read"
    /\ marked' = marked \cup {<<p, originalRun[p]>>}
    /\ told' = told \cup {p}
    /\ ClosedAt(p, "done") /\ originalRun' = [originalRun EXCEPT ![p] = ParentRow]
    /\ UNCHANGED <<vars, merged, green, event>>

\* Somebody has the event delivered again.
Redeliver(p) ==
    /\ closed[p] \in {"done", "lost"}
    /\ ClosedAt(p, "sent")
    /\ UNCHANGED <<vars, merged, green, event, originalRun, told, marked>>

\* A server that is down gets no events, and nobody sends them again by itself.
Lose(p) ==
    /\ phase = "booting" /\ closed[p] = "sent"
    /\ ClosedAt(p, "lost")
    /\ UNCHANGED <<vars, merged, green, event, originalRun, told, marked>>

-----------------------------------------------------------------------------
(* People and GitHub.                                                      *)

MergeByPeople(p) ==
    /\ merged[p] = "open"
    /\ merged' = [merged EXCEPT ![p] = "people"]
    /\ ClosedAt(p, "sent")
    /\ UNCHANGED <<vars, green, event, originalRun, told, marked>>

ChecksPass(p) ==
    /\ Forge[p] = "github" /\ merged[p] = "open"
    /\ green' = green \cup {<<p, Head(p)>>}
    /\ UNCHANGED <<vars, merged, event, closed, originalRun, told, marked>>

-----------------------------------------------------------------------------
\* The handlers die with the process.
Died ==
    /\ Crash
    /\ event' = [e \in Events |-> IF event[e].at = "unused" THEN event[e] ELSE Idle("done")]
    /\ closed' = [p \in PRs |-> IF closed[p] = "read" THEN "lost" ELSE closed[p]]
    /\ originalRun' = [p \in PRs |-> ParentRow]
    /\ UNCHANGED <<merged, green, told, marked>>

FeedbackStep ==
    /\ \/ \E c \in Comments, r \in Runs : Heard(c) /\ Deliver(c, r)
       \/ \E c \in Comments : Expire(c)
       \/ \E r \in Runs : Step(r) \/ RequestStop(r) \/ TerminateRun(r) \/ BootRecover(r)
       \/ HaltAll \/ BootDone
    /\ UNCHANGED prVars

Handling(e) == Fetch(e) \/ Check(e) \/ MergeByServer(e) \/ Record(e)
Telling(p) == ReadMerged(p) \/ TellMerged(p)

PullRequestsNext ==
    \/ FeedbackStep \/ Died
    \/ \E e \in Events : Handling(e) \/ \E p \in PRs : CheckEvent(e, p)
    \/ \E p \in PRs : Telling(p) \/ Redeliver(p) \/ Lose(p)
                        \/ MergeByPeople(p) \/ ChecksPass(p)

PullRequestsSpec == PullRequestsInit /\ [][PullRequestsNext]_allVars

\* The awaits of the handlers end, and a server that is up gets its events.
PullRequestsFairness ==
    /\ Fairness
    /\ \A e \in Events : WF_allVars(Handling(e))
    /\ \A p \in PRs : WF_allVars(Telling(p))

LivePullRequestsSpec == PullRequestsSpec /\ PullRequestsFairness

-----------------------------------------------------------------------------
(***************************************************************************)
(* auto_merged of any row of a pull request says true only if the pull     *)
(* request is merged, although the handlers of check events write what     *)
(* they were answered over what others wrote meanwhile.                    *)
(***************************************************************************)
MarkedMeansMerged == \A m \in marked : merged[m[1]] # "open"

(***************************************************************************)
(* A merge by people reaches Linear: onPRMerged is called, whatever check  *)
(* events are handled at the same time, unless the server was down.        *)
(***************************************************************************)
MergedIsTold == \A p \in PRs : merged[p] = "people" ~> p \in told \/ closed[p] = "lost"
=============================================================================
