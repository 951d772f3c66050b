--------------------------- MODULE MCPullRequests ---------------------------
(***************************************************************************)
(* Two seasons, so that the two halves of the system add up instead of     *)
(* multiplying: in one, comments come twice, operators and crashes         *)
(* disturb the feedback runs and nobody merges; in the other, one comment  *)
(* is answered while people, check events and crashes meet.  A season      *)
(* holds back only steps of the environment, none of which is fair.        *)
(***************************************************************************)
EXTENDS PullRequests
CONSTANTS a1, a2, thanks, pr
VARIABLE season

MCPrOf == [c \in Comments |-> pr]
MCForge == [p \in PRs |-> "github"]
MCSaid == [c \in Comments |->
             [author |-> IF c = thanks THEN "bot" ELSE "anna", kind |-> "issue",
              empty |-> FALSE, draft |-> c = a2, keyword |-> FALSE]]
MCGithubFeedback == [bots |-> {"bot"}, reviewers |-> {}, keyword |-> FALSE, auto |-> TRUE]

MCInit == PullRequestsInit /\ season \in {"comments", "merges"}

Disturbance == HaltAll \/ (\E c \in Comments : Expire(c))
                 \/ (\E r \in Runs : RequestStop(r) \/ TerminateRun(r))
Merging == (\E p \in PRs : MergeByPeople(p) \/ ChecksPass(p))
             \/ (\E e \in Events, p \in PRs : CheckEvent(e, p))

MCNext ==
    /\ PullRequestsNext
    /\ season = "comments" => ~Merging
    /\ season = "merges" => ~Disturbance /\ dedup' \subseteq {a1} /\ pc'[2] = "unused"
    /\ UNCHANGED season

MCSpec == MCInit /\ [][MCNext]_<<allVars, season>> /\ PullRequestsFairness
=============================================================================
