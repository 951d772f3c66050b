------------------------------ MODULE MCQueue ------------------------------
(***************************************************************************)
(* The queue and the branch of an issue share no state: a behaviour is one *)
(* of the machine named by `part`, the other stays in its initial state,   *)
(* so that the state spaces add up.                                        *)
(***************************************************************************)
EXTENDS WorkQueue

CONSTANTS p, f

VARIABLES
    part,
    main, origin, aged, pr, clone, session, tree, owes, made, sweep

branchVars == <<main, origin, aged, pr, clone, session, tree, owes, made, sweep>>

Repo == INSTANCE Branches WITH Runs <- {p}, FeedbackRuns <- {f}, MaxCommit <- 2, MaxMain <- 1

MCInit == part \in {"queue", "branches"} /\ Init /\ Repo!Init

MCNext ==
    /\ UNCHANGED part
    /\ \/ part = "queue" /\ Next /\ UNCHANGED branchVars
       \/ part = "branches" /\ Repo!Next /\ UNCHANGED vars

MCSpec ==
    /\ MCInit /\ [][MCNext]_<<part, vars, branchVars>>
    /\ (part = "queue" => Fairness)
    /\ (part = "branches" => Repo!Fairness)

\* The properties of Branches.
PublishedWhole == [][part = "branches" => Repo!PushWhole]_<<part, branchVars>>
UnusedBranchGoes == part = "branches" => Repo!UnusedBranchGoes
=============================================================================
