------------------------------- MODULE Gates -------------------------------
(***************************************************************************)
(* What executePipeline() asks about the branch itself: the gates that can *)
(* turn the pull request into a draft (org policy, scratch files,          *)
(* typecheck, docblocks) and the conditions of auto-merge.                 *)
(*                                                                         *)
(* A diff is the set of kinds of files in it.                              *)
(***************************************************************************)
EXTENDS Naturals, Sequences, SequencesExt

CONSTANTS
    Policy,          \* org-policy is licensed and configured
    Blocklist,       \* kinds of files of policy.pathBlocklist
    IssueTokens,     \* policy.maxTokensPerIssue, in passes
    Excluded,        \* kinds of files of autoMergeExcludePatterns
    Reviewers        \* policy.mandatoryReviewers.users

FileKinds == {"source", "scratch", "migration", "promising"}

ASSUME GateAssumption ==
    /\ Policy \in BOOLEAN /\ IssueTokens \in Nat
    /\ Blocklist \subseteq FileKinds /\ Excluded \subseteq FileKinds

\* What the gates find: the diff, which of their git calls answer, whether the
\* issue has the override label, and how pnpm typecheck ends.
Evidence == [diff : SUBSET FileKinds, answered : BOOLEAN, override : BOOLEAN,
             typecheck : {"passed", "errors", "unparsed", "threw"}]

\* getChangedFiles and gitExecSafe answer with nothing when git fails.
Changed(e) == IF e.answered THEN e.diff ELSE {}

\* evaluatePathBlocklist and evaluateCostGate.
PathViolations(e) == Changed(e) \cap Blocklist
CostViolation(tokens) == tokens > IssueTokens

\* evaluatePolicyGates: the label overrides both gates.
PolicyDrafts(e, tokens) ==
    ~e.override /\ (PathViolations(e) # {} \/ CostViolation(tokens))

\* With a blocklist and no changed files nothing was evaluated: that drafts
\* whatever the label says.
PolicyFires(e, tokens) ==
    Policy /\ (\/ Blocklist # {} /\ Changed(e) = {}
               \/ PolicyDrafts(e, tokens))

\* findScratchFiles.
ScratchFires(e) == "scratch" \in Changed(e)

\* runTypecheck: a failure without a TypeScript error in its output is taken
\* for a broken installation.
TypecheckFires(e) == e.typecheck = "errors"

\* checkSpecVsImpl: a changed docblock promises a symbol that nothing defines.
SpecFires(e) == "promising" \in Changed(e)

GatesFire(e, tokens) ==
    PolicyFires(e, tokens) \/ ScratchFires(e) \/ TypecheckFires(e) \/ SpecFires(e)

----------------------------------------------------------------------------
\* verifyApprovalsReceived: the last review of each user counts.  A review is
\* a pair of user and state, the oldest first.
LastState(reviews, user) ==
    LET own == SelectSeq(reviews, LAMBDA r : r[1] = user)
    IN IF own = <<>> THEN "none" ELSE Last(own)[2]

Approved(reviews) == \A user \in Reviewers : LastState(reviews, user) = "APPROVED"

\* The diff is at most autoMergeMaxLines long and touches no excluded file, and
\* the mandatory reviewers approved.
Mergeable(diff, small, reviews) ==
    /\ small /\ diff \cap Excluded = {}
    /\ Policy => Approved(reviews)
=============================================================================
