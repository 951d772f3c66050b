--------------------------- MODULE BranchesProofs ---------------------------
(***************************************************************************)
(* PublishedWhole of Branches holds for any number of runs, feedback runs, *)
(* commits and versions of the default branch.                             *)
(*                                                                         *)
(* The worktrees of an issue share one ref of the branch, and the push     *)
(* publishes that ref.  Carried, that it holds what a run owes whose       *)
(* worktree has the branch checked out, is inductive with OneBranch, that  *)
(* one worktree at most has it, and with what a feedback run knows between *)
(* its fetch and its worktree (Reviewed).                                  *)
(***************************************************************************)
EXTENDS Branches, TLAPS

Places == {"new", "clear", "ended", "failed", "working"} \cup Brief
Trees == {"none", "branch", "other", "detached"}
MainType == [version : Nat, work : SUBSET Nat]
TipType == [base : Int, work : SUBSET Nat]

TypeInv ==
    /\ main \in MainType
    /\ origin \in TipType
    /\ clone \in [head : Int, mainRef : MainType, tracking : TipType, local : TipType]
    /\ session \in [Sessions -> Places]
    /\ tree \in [Sessions -> Trees]
    /\ owes \in [Sessions -> SUBSET Nat]
    /\ made \in Nat

\* Places of a run that has no commit to its name, and of one that has no
\* worktree yet.
Bare == {"new", "found", "stale branch", "clear", "cloned"}
Treeless == Bare \cup {"fetched ref"}

\* Every commit was made once; what the clone knows of the default branch is
\* on the default branch.
Numbered ==
    /\ origin.work \subseteq 1..made
    /\ clone.tracking.work \subseteq 1..made
    /\ clone.local.work \subseteq 1..made
    /\ \A s \in Sessions : owes[s] \subseteq 1..made

MainKnown == clone.mainRef.work \subseteq main.work

Unstarted == \A s \in Sessions :
    /\ session[s] \in Bare => owes[s] = {}
    /\ session[s] \in Treeless => tree[s] = "none"

\* The first clone comes before the first worktree.
ClonedFirst == clone.head = -1 =>
    \A s \in Sessions : tree[s] = "none" /\ session[s] \notin {"cloned", "fetched ref"}

\* The branch is checked out once at most.
OneBranch == \A s, t \in Sessions : tree[s] = "branch" /\ tree[t] = "branch" => s = t

\* What was under review when a feedback run fetched, and still is, is at the
\* tip its worktree will be made of.
Reviewed == \A s \in Sessions : session[s] = "fetched ref" =>
    owes[s] \cap origin.work \subseteq clone.tracking.work \cup main.work

Carried == \A s \in Sessions : tree[s] = "branch" =>
    owes[s] \subseteq clone.local.work \cup main.work

WholeInv == Numbered /\ MainKnown /\ Unstarted /\ ClonedFirst /\ OneBranch /\ Reviewed /\ Carried

\* Session s goes to place p; the others stay.
Goes(s, p) == session' = [session EXCEPT ![s] = p]

-----------------------------------------------------------------------------
(* The types.                                                              *)

LEMMA TipTypes ==
  /\ Gone \in TipType
  /\ \A m \in MainType : m.version \in Nat /\ m.work \in SUBSET Nat
  /\ \A t \in TipType : t.base \in Int /\ t.work \in SUBSET Nat
  BY DEF Gone, TipType, MainType

LEMMA UpTo ==
  ASSUME NEW m \in Nat, NEW n \in Nat, m <= n
  PROVE  /\ 1..m \subseteq 1..n /\ (m + 1)..n \subseteq 1..n
         /\ \A k \in 1..m : k \notin (m + 1)..n
  OBVIOUS

LEMMA NaturalVersion == \A n \in Nat : n \in Int /\ n # -1 /\ n <= n
  OBVIOUS

LEMMA CloneParts ==
  ASSUME TypeInv
  PROVE  /\ clone.head \in Int /\ clone.mainRef \in MainType
         /\ clone.tracking \in TipType /\ clone.local \in TipType
         /\ clone = [head |-> clone.head, mainRef |-> clone.mainRef,
                     tracking |-> clone.tracking, local |-> clone.local]
  BY DEF TypeInv

LEMMA StepGoes ==
  ASSUME TypeInv, NEW s \in Sessions, NEW from, NEW to, Step(s, from, to)
  PROVE  /\ session[s] \in from /\ session'[s] = to
         /\ \A t \in Sessions \ {s} : session'[t] = session[t]
         /\ Goes(s, to)
  BY DEF TypeInv, Step, Goes

\* What `git fetch origin` leaves in the clone.
LEMMA FetchedClone ==
  ASSUME TypeInv, clone' = Fetched
  PROVE  /\ clone' \in [head : Int, mainRef : MainType, tracking : TipType, local : TipType]
         /\ clone'.head = clone.head /\ clone'.local = clone.local
         /\ clone'.mainRef = main
         /\ clone'.tracking = origin \/ (origin = Gone /\ clone'.tracking = clone.tracking)
  BY DEF TypeInv, Fetched

\* What a checkout does.
LEMMA CheckoutDoes ==
  ASSUME TypeInv, NEW s \in Sessions, NEW tip \in TipType, Checkout(s, tip)
  PROVE  /\ clone' \in [head : Int, mainRef : MainType, tracking : TipType, local : TipType]
         /\ clone'.head = clone.head /\ clone'.mainRef = clone.mainRef
         /\ clone'.tracking = clone.tracking /\ clone'.local = tip
         /\ tree' \in [Sessions -> Trees]
         /\ tree'[s] = "branch"
         /\ \A t \in Sessions \ {s} :
              tree'[t] \in {"other", "none"} /\ (tree[t] = "none" => tree'[t] = "none")
<1>1. clone' = [clone EXCEPT !.local = tip]
  BY DEF Checkout
<1>2. tree' = [t \in Sessions |-> CASE t = s -> "branch"
                                    [] t # s /\ tree[t] = "other" -> "other"
                                    [] OTHER -> "none"]
  BY DEF Checkout
<1>3. tree'[s] = "branch"
  BY <1>2
<1>4. \A t \in Sessions \ {s} : tree'[t] = IF tree[t] = "other" THEN "other" ELSE "none"
  BY <1>2
<1>5. tree' \in [Sessions -> Trees]
  BY <1>2, <1>3, <1>4 DEF Trees
<1>6. /\ clone' \in [head : Int, mainRef : MainType, tracking : TipType, local : TipType]
      /\ clone'.head = clone.head /\ clone'.mainRef = clone.mainRef
      /\ clone'.tracking = clone.tracking /\ clone'.local = tip
  BY <1>1 DEF TypeInv
<1> QED
  BY <1>3, <1>4, <1>5, <1>6

\* What a new commit does.
LEMMA RecordDoes ==
  ASSUME TypeInv, NEW s \in Sessions, Record(s)
  PROVE  /\ made' = made + 1 /\ made' \in Nat
         /\ owes' \in [Sessions -> SUBSET Nat]
         /\ owes'[s] = owes[s] \cup {made'}
         /\ \A t \in Sessions \ {s} : owes'[t] = owes[t]
         /\ clone' \in [head : Int, mainRef : MainType, tracking : TipType, local : TipType]
         /\ clone'.head = clone.head /\ clone'.mainRef = clone.mainRef
         /\ clone'.tracking = clone.tracking
         /\ clone'.local.work = IF tree[s] = "branch" THEN clone.local.work \cup {made'}
                                                      ELSE clone.local.work
<1>1. made' = made + 1 /\ made' \in Nat
  BY DEF Record, TypeInv
<1>2. owes' = [owes EXCEPT ![s] = @ \cup {made'}]
  BY DEF Record
<1>3. /\ owes' \in [Sessions -> SUBSET Nat]
      /\ owes'[s] = owes[s] \cup {made'}
      /\ \A t \in Sessions \ {s} : owes'[t] = owes[t]
  BY <1>1, <1>2 DEF TypeInv
<1>4. CASE tree[s] = "branch"
  <2>1. clone' = [clone EXCEPT !.local.work = @ \cup {made'}]
    BY <1>4 DEF Record
  <2>2. clone.local.work \cup {made'} \in SUBSET Nat
    BY <1>1, CloneParts, TipTypes
  <2>3. /\ clone'.head = clone.head /\ clone'.mainRef = clone.mainRef
        /\ clone'.tracking = clone.tracking
        /\ clone'.local = [clone.local EXCEPT !.work = clone.local.work \cup {made'}]
        /\ clone' = [clone EXCEPT !.local = clone'.local]
    BY <2>1 DEF TypeInv
  <2>4. clone'.local \in TipType /\ clone'.local.work = clone.local.work \cup {made'}
    BY <2>2, <2>3, CloneParts DEF TipType
  <2>5. clone' \in [head : Int, mainRef : MainType, tracking : TipType, local : TipType]
    BY <2>3, <2>4 DEF TypeInv
  <2> QED
    BY <1>1, <1>3, <1>4, <2>3, <2>4, <2>5
<1>5. CASE tree[s] # "branch"
  BY <1>1, <1>3, <1>5 DEF Record, TypeInv
<1> QED
  BY <1>4, <1>5

-----------------------------------------------------------------------------
(* The steps, by what they do to commits and tips.                         *)

Whole == TypeInv /\ WholeInv

\* Runs move, worktrees leave the branch or go, the branch on origin goes or
\* people push to it, and the clone is not touched.
LEMMA ElsewhereWhole ==
  ASSUME Whole,
         session' \in [Sessions -> Places],
         \A t \in Sessions : \/ session'[t] = session[t]
                             \/ /\ session'[t] \notin {"cloned", "fetched ref"}
                                /\ session'[t] \in Bare => session[t] \in Bare,
         tree' \in [Sessions -> Trees],
         \A t \in Sessions : \/ tree'[t] = tree[t]
                             \/ /\ tree[t] # "none" /\ tree'[t] # "branch"
                                /\ session'[t] \notin Treeless,
         UNCHANGED <<clone, owes>>,
         main' \in MainType, main.work \subseteq main'.work,
         made' \in Nat, made <= made',
         origin' \in TipType,
         \A n \in origin'.work : n \in origin.work \/ n \in (made + 1)..made'
  PROVE  Whole'
<1>0. made \in Nat
  BY DEF Whole, TypeInv
<1>1. TypeInv'
  BY DEF Whole, TypeInv
<1>2. Numbered'
  <2>1. 1..made \subseteq 1..made' /\ (made + 1)..made' \subseteq 1..made'
    BY <1>0, UpTo
  <2>2. origin'.work \subseteq 1..made'
    BY <2>1 DEF Whole, WholeInv, Numbered
  <2> QED
    BY <2>1, <2>2 DEF Whole, WholeInv, Numbered
<1>3. MainKnown'
  BY DEF Whole, WholeInv, MainKnown
<1>4. Unstarted'
  <2>1. \A t \in Sessions : session'[t] \in Bare => session[t] \in Bare
    OBVIOUS
  <2>2. \A t \in Sessions : session'[t] \in Treeless => session[t] \in Treeless
    BY DEF Treeless
  <2>3. \A t \in Sessions : session'[t] \in Treeless => tree'[t] = "none"
    BY <2>2 DEF Whole, WholeInv, Unstarted
  <2> QED
    BY <2>1, <2>3 DEF Whole, WholeInv, Unstarted
<1>5. ClonedFirst'
  BY DEF Whole, WholeInv, ClonedFirst
<1>6. OneBranch'
  BY DEF Whole, WholeInv, OneBranch
<1>7. Reviewed'
  <2> SUFFICES ASSUME NEW t \in Sessions, session'[t] = "fetched ref"
               PROVE  owes[t] \cap origin'.work \subseteq clone.tracking.work \cup main'.work
    BY DEF Reviewed
  <2>1. session[t] = "fetched ref" /\ owes[t] \subseteq 1..made
    BY DEF Whole, WholeInv, Numbered
  <2>2. ASSUME NEW n \in owes[t] \cap origin'.work PROVE n \in origin.work
    <3>1. n \in 1..made
      BY <2>1
    <3> QED
      BY <1>0, <3>1, UpTo
  <2> QED
    BY <2>1, <2>2 DEF Whole, WholeInv, Reviewed
<1>8. Carried'
  BY DEF Whole, WholeInv, Carried
<1> QED
  BY <1>1, <1>2, <1>3, <1>4, <1>5, <1>6, <1>7, <1>8 DEF Whole, WholeInv

\* A run fetches, or makes the clone.
LEMMA FetchWhole ==
  ASSUME Whole, NEW s \in Sessions, NEW p \in Places, Goes(s, p),
         p \in Bare => session[s] \in Bare,
         p \in Treeless => session[s] \in Bare,
         clone' \in [head : Int, mainRef : MainType, tracking : TipType, local : TipType],
         clone'.head = -1 => clone.head = -1 /\ p \notin {"cloned", "fetched ref"},
         clone'.mainRef = main,
         \/ clone'.tracking = origin
         \/ origin = Gone /\ clone'.tracking = clone.tracking,
         \/ clone'.local = clone.local
         \/ clone.head = -1 /\ clone'.local = Gone,
         owes' = IF p = "fetched ref" THEN [owes EXCEPT ![s] = origin.work] ELSE owes,
         UNCHANGED <<main, origin, tree, made>>
  PROVE  Whole'
<1> USE DEF Goes
<1>0. Gone.work = {} /\ origin.work \in SUBSET Nat
  BY TipTypes DEF Gone, Whole, TypeInv
<1>1. owes' \in [Sessions -> SUBSET Nat]
  BY <1>0 DEF Whole, TypeInv
<1>2. TypeInv'
  BY <1>1 DEF Whole, TypeInv
<1>3. \A t \in Sessions : session'[t] = IF t = s THEN p ELSE session[t]
  BY DEF Whole, TypeInv
<1>4. \A t \in Sessions :
        owes'[t] = IF t = s /\ p = "fetched ref" THEN origin.work ELSE owes[t]
  BY DEF Whole, TypeInv
<1>5. Numbered'
  BY <1>0, <1>4 DEF Whole, WholeInv, Numbered
<1>6. MainKnown'
  BY DEF MainKnown
<1>7. Unstarted'
  BY <1>3, <1>4 DEF Whole, WholeInv, Unstarted, Treeless, Bare
<1>8. ClonedFirst'
  BY <1>3 DEF Whole, WholeInv, ClonedFirst
<1>9. OneBranch'
  BY DEF Whole, WholeInv, OneBranch
<1>10. Reviewed'
  BY <1>0 DEF Reviewed
<1>11. Carried'
  <2> SUFFICES ASSUME NEW t \in Sessions, tree[t] = "branch"
               PROVE  owes'[t] \subseteq clone'.local.work \cup main.work
    BY DEF Carried
  <2>1. clone'.local = clone.local
    BY DEF Whole, WholeInv, ClonedFirst
  <2>2. t = s => p # "fetched ref"
    BY DEF Whole, WholeInv, Unstarted, Treeless
  <2> QED
    BY <1>4, <2>1, <2>2 DEF Whole, WholeInv, Carried
<1> QED
  BY <1>2, <1>5, <1>6, <1>7, <1>8, <1>9, <1>10, <1>11 DEF Whole, WholeInv

\* A worktree is made at a tip that carries what its run owes.
LEMMA CheckoutWhole ==
  ASSUME Whole, NEW s \in Sessions, NEW tip \in TipType,
         Goes(s, "working"), Checkout(s, tip), session[s] \in {"cloned", "fetched ref"},
         tip.work \subseteq 1..made,
         owes' \in [Sessions -> SUBSET Nat],
         \A t \in Sessions \ {s} : owes'[t] = owes[t],
         owes'[s] \subseteq owes[s],
         owes'[s] \subseteq tip.work \cup main.work,
         UNCHANGED <<main, origin, made>>
  PROVE  Whole'
<1>0. TypeInv
  BY DEF Whole
<1>1. session' \in [Sessions -> Places]
      /\ \A t \in Sessions : session'[t] = IF t = s THEN "working" ELSE session[t]
  BY <1>0 DEF Goes, TypeInv, Places
<1>2. TypeInv'
  BY <1>0, <1>1, CheckoutDoes DEF TypeInv
<1>3. Numbered'
  BY <1>0, CheckoutDoes DEF Whole, WholeInv, Numbered
<1>4. MainKnown'
  BY <1>0, CheckoutDoes DEF Whole, WholeInv, MainKnown
<1>5. Unstarted'
  <2>1. "working" \notin Treeless /\ "working" \notin Bare
    BY DEF Treeless, Bare
  <2>2. ASSUME NEW t \in Sessions, session'[t] \in Treeless \cup Bare
        PROVE  t # s /\ session'[t] = session[t] /\ owes'[t] = owes[t]
    BY <1>1, <2>1, <2>2
  <2>3. \A t \in Sessions \ {s} : tree[t] = "none" => tree'[t] = "none"
    BY <1>0, CheckoutDoes
  <2> QED
    BY <2>2, <2>3 DEF Whole, WholeInv, Unstarted
<1>6. ClonedFirst'
  <2>1. clone.head # -1 /\ clone'.head = clone.head
    BY <1>0, CheckoutDoes DEF Whole, WholeInv, ClonedFirst
  <2> QED
    BY <2>1 DEF ClonedFirst
<1>7. OneBranch'
  BY <1>0, CheckoutDoes DEF OneBranch
<1>8. Reviewed'
  BY <1>0, <1>1, CheckoutDoes DEF Whole, WholeInv, Reviewed
<1>9. Carried'
  BY <1>0, CheckoutDoes DEF Carried
<1> QED
  BY <1>2, <1>3, <1>4, <1>5, <1>6, <1>7, <1>8, <1>9 DEF Whole, WholeInv

\* A commit is made in a worktree.
LEMMA RecordWhole ==
  ASSUME Whole, NEW s \in Sessions, NEW p \in {"working", "opened", "rebased"}, Goes(s, p),
         Record(s), session[s] \in {"working", "fetched"},
         UNCHANGED <<main, origin, tree>>
  PROVE  Whole'
<1>0. TypeInv
  BY DEF Whole
<1>1. session' \in [Sessions -> Places]
      /\ \A t \in Sessions : session'[t] = IF t = s THEN p ELSE session[t]
  BY <1>0 DEF Goes, TypeInv, Places, Brief, Working
<1>2. TypeInv'
  BY <1>0, <1>1, RecordDoes DEF TypeInv
<1>3. Numbered'
  <2>1. 1..made \subseteq 1..made' /\ made' \in 1..made'
    BY <1>0, RecordDoes DEF TypeInv
  <2>2. origin'.work \subseteq 1..made' /\ clone'.tracking.work \subseteq 1..made'
    BY <1>0, <2>1, RecordDoes DEF Whole, WholeInv, Numbered
  <2>3. clone'.local.work \subseteq 1..made'
    BY <1>0, <2>1, RecordDoes DEF Whole, WholeInv, Numbered
  <2>4. \A t \in Sessions : owes'[t] \subseteq 1..made'
    BY <1>0, <2>1, RecordDoes DEF Whole, WholeInv, Numbered
  <2> QED
    BY <2>2, <2>3, <2>4 DEF Numbered
<1>4. MainKnown'
  BY <1>0, RecordDoes DEF Whole, WholeInv, MainKnown
<1>5. p \notin Treeless /\ p \notin Bare /\ session[s] \notin Treeless
  BY DEF Treeless, Bare
<1>6. Unstarted'
  BY <1>0, <1>1, <1>5, RecordDoes DEF Whole, WholeInv, Unstarted
<1>7. ClonedFirst'
  BY <1>0, <1>1, RecordDoes DEF Whole, WholeInv, ClonedFirst
<1>8. OneBranch'
  BY DEF Whole, WholeInv, OneBranch
<1>9. Reviewed'
  <2>1. \A t \in Sessions : session'[t] = "fetched ref" =>
          session[t] = "fetched ref" /\ owes'[t] = owes[t]
    BY <1>0, <1>1, RecordDoes
  <2> QED
    BY <1>0, <2>1, RecordDoes DEF Whole, WholeInv, Reviewed
<1>10. Carried'
  <2> SUFFICES ASSUME NEW t \in Sessions, tree[t] = "branch"
               PROVE  owes'[t] \subseteq clone'.local.work \cup main.work
    BY DEF Carried
  <2>1. owes[t] \subseteq clone.local.work \cup main.work
    BY DEF Whole, WholeInv, Carried
  <2>2. CASE t = s
    BY <1>0, <2>1, <2>2, RecordDoes
  <2>3. CASE t # s
    BY <1>0, <2>1, <2>3, RecordDoes
  <2> QED
    BY <2>2, <2>3
<1> QED
  BY <1>2, <1>3, <1>4, <1>6, <1>7, <1>8, <1>9, <1>10 DEF Whole, WholeInv

\* The one worktree that has the branch rebases it: only commits the default
\* branch has are dropped.
LEMMA RebaseWhole ==
  ASSUME Whole, NEW s \in Sessions, Rebase(s)
  PROVE  Whole'
<1> DEFINE kept == [base |-> clone.mainRef.version,
                    work |-> clone.local.work \ clone.mainRef.work]
<1>0. TypeInv
  BY DEF Whole
<1>1. /\ session[s] = "fetched"
      /\ session' \in [Sessions -> Places]
      /\ \A t \in Sessions : session'[t] = IF t = s THEN "rebased" ELSE session[t]
  BY <1>0 DEF Rebase, Step, TypeInv, Places, Brief, Working
<1>2. clone' = [clone EXCEPT !.local = kept] /\ UNCHANGED <<main, origin, tree, owes, made>>
  BY DEF Rebase, repo
<1>3. kept \in TipType
  BY <1>0, CloneParts, TipTypes DEF TipType
<1>4. /\ clone' \in [head : Int, mainRef : MainType, tracking : TipType, local : TipType]
      /\ clone'.head = clone.head /\ clone'.mainRef = clone.mainRef
      /\ clone'.tracking = clone.tracking /\ clone'.local = kept
  BY <1>0, <1>2, <1>3 DEF TypeInv
<1>5. clone'.local.work = clone.local.work \ clone.mainRef.work
  BY <1>4
<1> HIDE DEF kept
<1>6. TypeInv'
  BY <1>0, <1>1, <1>2, <1>4 DEF TypeInv
<1>7. Numbered' /\ MainKnown'
  BY <1>2, <1>4, <1>5 DEF Whole, WholeInv, Numbered, MainKnown
<1>8. Unstarted'
  BY <1>1, <1>2 DEF Whole, WholeInv, Unstarted, Treeless, Bare
<1>9. ClonedFirst' /\ OneBranch'
  BY <1>1, <1>2, <1>4 DEF Whole, WholeInv, ClonedFirst, OneBranch
<1>10. Reviewed'
  BY <1>1, <1>2, <1>4 DEF Whole, WholeInv, Reviewed
<1>11. Carried'
  BY <1>2, <1>5 DEF Whole, WholeInv, Carried, MainKnown
<1> QED
  BY <1>6, <1>7, <1>8, <1>9, <1>10, <1>11 DEF Whole, WholeInv

\* A push makes origin and the tracking ref what the clone has.
LEMMA PushWholeStep ==
  ASSUME Whole, NEW s \in Sessions, PushForce(s)
  PROVE  Whole' /\ owes[s] \subseteq origin'.work \cup main.work
<1>0. TypeInv
  BY DEF Whole
<1>1. /\ session[s] \in {"rebased", "refetched"}
      /\ session' \in [Sessions -> Places]
      /\ \A t \in Sessions : session'[t] = IF t = s THEN "pushed" ELSE session[t]
  BY <1>0 DEF PushForce, Step, TypeInv, Places, Brief, Working
<1>2. /\ origin' = clone.local /\ clone' = [clone EXCEPT !.tracking = clone.local]
      /\ UNCHANGED <<main, tree, owes, made>>
  BY DEF PushForce, Publish
<1>3. /\ clone' \in [head : Int, mainRef : MainType, tracking : TipType, local : TipType]
      /\ clone'.head = clone.head /\ clone'.mainRef = clone.mainRef
      /\ clone'.tracking = clone.local /\ clone'.local = clone.local
      /\ origin' \in TipType
  BY <1>0, <1>2 DEF TypeInv
<1>4. TypeInv'
  BY <1>0, <1>1, <1>2, <1>3 DEF TypeInv
<1>5. Numbered' /\ MainKnown'
  BY <1>2, <1>3 DEF Whole, WholeInv, Numbered, MainKnown
<1>6. Unstarted'
  BY <1>1, <1>2 DEF Whole, WholeInv, Unstarted, Treeless, Bare
<1>7. ClonedFirst' /\ OneBranch'
  BY <1>1, <1>2, <1>3 DEF Whole, WholeInv, ClonedFirst, OneBranch
<1>8. Reviewed'
  BY <1>2, <1>3 DEF Reviewed
<1>9. Carried'
  BY <1>2, <1>3 DEF Whole, WholeInv, Carried
<1>10. tree[s] = "branch"
  BY DEF PushForce, OnBranch
<1>11. owes[s] \subseteq origin'.work \cup main.work
  BY <1>2, <1>10 DEF Whole, WholeInv, Carried
<1> QED
  BY <1>4, <1>5, <1>6, <1>7, <1>8, <1>9, <1>11 DEF Whole, WholeInv

-----------------------------------------------------------------------------
(* Every step is one of these.                                             *)

\* A run goes to place p, and no commit and no tip but that of origin change.
LEMMA GoesWhole ==
  ASSUME Whole, NEW s \in Sessions, NEW p \in Places \ {"pushed", "cloned", "fetched ref"},
         Goes(s, p), p \in Bare => session[s] \in Bare,
         tree' \in [Sessions -> Trees],
         \A t \in Sessions : \/ tree'[t] = tree[t]
                             \/ t = s /\ tree[s] # "none" /\ tree'[s] # "branch"
                                      /\ p \notin Treeless,
         UNCHANGED <<clone, owes, main, made>>,
         origin' = origin \/ origin' = Gone
  PROVE  Whole' /\ PushWhole
<1>1. /\ session' \in [Sessions -> Places]
      /\ \A t \in Sessions : session'[t] = IF t = s THEN p ELSE session[t]
  BY DEF Goes, Whole, TypeInv
<1>2. PushWhole
  BY <1>1 DEF PushWhole
<1>3. \A t \in Sessions : \/ session'[t] = session[t]
                          \/ /\ session'[t] \notin {"cloned", "fetched ref"}
                             /\ session'[t] \in Bare => session[t] \in Bare
  BY <1>1
<1>4. \A t \in Sessions : \/ tree'[t] = tree[t]
                          \/ /\ tree[t] # "none" /\ tree'[t] # "branch"
                             /\ session'[t] \notin Treeless
  BY <1>1
<1>5. main' \in MainType /\ made' \in Nat /\ made <= made' /\ origin \in TipType
  <2>1. main \in MainType /\ made \in Nat /\ origin \in TipType
    BY DEF Whole, TypeInv
  <2> QED
    BY <2>1, NaturalVersion
<1>6. origin' \in TipType /\ \A n \in origin'.work : n \in origin.work
  <2>1. Gone \in TipType /\ Gone.work = {}
    BY TipTypes DEF Gone
  <2>2. CASE origin' = origin
    BY <1>5, <2>2
  <2>3. CASE origin' = Gone
    BY <2>1, <2>3
  <2> QED
    BY <2>2, <2>3
<1> QED
  BY <1>1, <1>2, <1>3, <1>4, <1>5, <1>6, ElsewhereWhole

LEMMA WholeStep ==
  ASSUME Whole, [Next]_vars
  PROVE  Whole' /\ PushWhole
<1>0. TypeInv
  BY DEF Whole
<1>1. \A s \in Runs \cup FeedbackRuns : s \in Sessions
  BY DEF Sessions
<1>2. ASSUME NEW r \in Runs,
             \/ FindNone(r) \/ Find(r) \/ KeepBranch(r) \/ CallStale(r)
             \/ DeleteStale(r) \/ CreatePR(r)
      PROVE  Whole' /\ PushWhole
  <2>1. r \in Sessions /\ tree' = tree
    BY <1>2, <1>1 DEF FindNone, Find, KeepBranch, CallStale, DeleteStale, CreatePR
  <2>2. PICK p \in {"clear", "found", "ended", "stale branch"} :
          Goes(r, p) /\ (p \in Bare => session[r] \in Bare)
    BY <1>2 DEF FindNone, Find, KeepBranch, CallStale, DeleteStale, CreatePR, Step, Goes, Bare
  <2>3. UNCHANGED <<clone, owes, main, made>> /\ (origin' = origin \/ origin' = Gone)
    BY <1>2 DEF FindNone, Find, KeepBranch, CallStale, DeleteStale, CreatePR,
                DeleteBranch, repo
  <2>4. p \in Places \ {"pushed", "cloned", "fetched ref"} /\ tree' \in [Sessions -> Trees]
    BY <1>0, <2>1 DEF Places, Brief, TypeInv
  <2> QED
    BY <2>1, <2>2, <2>3, <2>4, GoesWhole
<1>3. ASSUME NEW s \in Sessions,
             \/ NoRebase(s) \/ LeaseRefused(s) \/ Fail(s) \/ Resume(s)
             \/ s \in FeedbackRuns /\ FeedbackPushed(s)
      PROVE  Whole' /\ PushWhole
  <2>1. /\ tree' = tree /\ UNCHANGED <<clone, owes, main, made>>
        /\ origin' = origin
    BY <1>3 DEF NoRebase, LeaseRefused, Fail, Resume, FeedbackPushed, repo
  <2>2. PICK p \in {"rebased", "stale", "failed", "working", "ended"} : Goes(s, p)
    BY <1>3 DEF NoRebase, LeaseRefused, Fail, Resume, FeedbackPushed, Step, Goes
  <2>3. p \notin Bare /\ p \in Places \ {"pushed", "cloned", "fetched ref"}
        /\ tree' \in [Sessions -> Trees]
    BY <1>0, <2>1 DEF Places, Brief, Working, Bare, TypeInv
  <2> QED
    BY <2>1, <2>2, <2>3, GoesWhole
<1>4. ASSUME NEW s \in Sessions, Leave(s) \/ RebaseStuck(s) \/ CleanUp(s)
      PROVE  Whole' /\ PushWhole
  <2>1. UNCHANGED <<clone, owes, main, made, origin>>
    BY <1>4 DEF Leave, RebaseStuck, CleanUp, repo
  <2>2. PICK p \in {"working", "rebased", "failed", "ended"} : Goes(s, p)
    <3>1. CASE Leave(s)
      BY <1>0, <3>1 DEF Leave, Goes, TypeInv
    <3>2. CASE RebaseStuck(s)
      BY <3>2 DEF RebaseStuck, Step, Goes
    <3>3. CASE CleanUp(s)
      BY <1>0, <3>3 DEF CleanUp, Goes, TypeInv
    <3> QED
      BY <1>4, <3>1, <3>2, <3>3
  <2>3. PICK k \in {"other", "detached", "none"} :
          tree[s] # "none" /\ tree' = [tree EXCEPT ![s] = k]
    BY <1>4 DEF Leave, RebaseStuck, CleanUp
  <2>4. tree' \in [Sessions -> Trees] /\ tree'[s] # "branch"
        /\ \A t \in Sessions \ {s} : tree'[t] = tree[t]
    BY <1>0, <2>3 DEF Trees, TypeInv
  <2>5. p \in Places \ {"pushed", "cloned", "fetched ref"} /\ p \notin Treeless /\ p \notin Bare
    BY DEF Places, Brief, Working, Treeless, Bare
  <2> QED
    BY <2>1, <2>2, <2>3, <2>4, <2>5, GoesWhole
<1>5. ASSUME NEW s \in Sessions,
             \/ FetchBeforePush(s) \/ FetchPrune(s) \/ CloneRepo(s) \/ FetchRemote(s)
      PROVE  Whole' /\ PushWhole
  <2>1. UNCHANGED <<main, origin, tree, made>>
    BY <1>5 DEF FetchBeforePush, FetchPrune, CloneRepo, FetchRemote, repo
  <2>2. PICK p \in {"fetched", "refetched", "cloned", "fetched ref"} :
          /\ Goes(s, p)
          /\ p \in Treeless => session[s] \in Bare
          /\ p = "cloned" => CloneRepo(s)
          /\ p = "fetched ref" => FetchRemote(s)
          /\ p \notin {"cloned", "fetched ref"} => FetchBeforePush(s) \/ FetchPrune(s)
    <3>1. CASE FetchBeforePush(s)
      BY <3>1 DEF FetchBeforePush, Step, Goes, Treeless, Bare
    <3>2. CASE FetchPrune(s)
      BY <3>2 DEF FetchPrune, Step, Goes, Treeless, Bare
    <3>3. CASE CloneRepo(s)
      <4>1. session[s] \in Bare /\ Goes(s, "cloned")
        BY <3>3 DEF CloneRepo, Step, Goes, Bare
      <4> QED
        BY <3>3, <4>1
    <3>4. CASE FetchRemote(s)
      <4>1. session[s] \in Bare /\ Goes(s, "fetched ref")
        BY <3>4 DEF FetchRemote, Step, Goes, Bare
      <4> QED
        BY <3>4, <4>1
    <3> QED
      BY <1>5, <3>1, <3>2, <3>3, <3>4
  <2>3. owes' = IF p = "fetched ref" THEN [owes EXCEPT ![s] = origin.work] ELSE owes
    BY <2>2 DEF FetchBeforePush, FetchPrune, CloneRepo, FetchRemote
  <2>4. /\ clone' \in [head : Int, mainRef : MainType, tracking : TipType, local : TipType]
        /\ clone'.head = -1 => clone.head = -1 /\ p \notin {"cloned", "fetched ref"}
        /\ clone'.mainRef = main
        /\ \/ clone'.tracking = origin
           \/ origin = Gone /\ clone'.tracking = clone.tracking
        /\ \/ clone'.local = clone.local
           \/ clone.head = -1 /\ clone'.local = Gone
    <3>1. CASE CloneRepo(s) /\ clone.head = -1
      <4>1. clone' = [head |-> main.version, mainRef |-> main,
                      tracking |-> origin, local |-> Gone]
        BY <3>1 DEF CloneRepo
      <4>2. main.version \in Nat /\ main \in MainType /\ origin \in TipType
        BY <1>0, TipTypes DEF TypeInv
      <4>3. clone'.head = main.version /\ clone'.mainRef = main
            /\ clone'.tracking = origin /\ clone'.local = Gone
        BY <4>1
      <4>4. clone' \in [head : Int, mainRef : MainType, tracking : TipType, local : TipType]
        <5>1. Gone \in TipType /\ main.version \in Int
          BY <4>2, TipTypes, NaturalVersion
        <5> QED
          BY <4>1, <4>2, <5>1
      <4>5. clone'.head # -1
        BY <4>2, <4>3, NaturalVersion
      <4> QED
        BY <3>1, <4>3, <4>4, <4>5
    <3>2. CASE FetchPrune(s)
      <4>1. clone' = [clone EXCEPT !.mainRef = main, !.tracking = origin]
        BY <3>2 DEF FetchPrune
      <4>2. /\ clone'.head = clone.head /\ clone'.mainRef = main
            /\ clone'.tracking = origin /\ clone'.local = clone.local
            /\ clone' \in [head : Int, mainRef : MainType, tracking : TipType, local : TipType]
        BY <1>0, <4>1 DEF TypeInv
      <4>3. session[s] = "stale" /\ Goes(s, "refetched")
        BY <3>2 DEF FetchPrune, Step, Goes
      <4>4. p \notin {"cloned", "fetched ref"}
        BY <1>0, <2>2, <4>3 DEF Goes, TypeInv
      <4> QED
        BY <4>2, <4>4
    <3>3. CASE clone' = Fetched
      <4>1. clone.head = -1 => p \notin {"cloned", "fetched ref"}
        <5>1. p = "cloned" /\ clone.head = -1 => clone'.head # -1
          <6>1. main.version \in Nat
            BY <1>0, TipTypes DEF TypeInv
          <6> QED
            BY <2>2, <6>1 DEF CloneRepo
        <5>2. p = "fetched ref" => session[s] = "cloned"
          BY <2>2 DEF FetchRemote, Step
        <5> QED
          BY <1>0, <3>3, <5>1, <5>2, FetchedClone DEF Whole, WholeInv, ClonedFirst
      <4> QED
        BY <1>0, <3>3, <4>1, FetchedClone
    <3> QED
      BY <1>5, <3>1, <3>2, <3>3 DEF FetchBeforePush, CloneRepo, FetchRemote
  <2>5. p \in Places /\ (p \in Bare => session[s] \in Bare)
    BY <2>2 DEF Places, Brief, Working, Treeless
  <2>6. Whole'
    BY <2>1, <2>2, <2>3, <2>4, <2>5, FetchWhole
  <2>7. PushWhole
    BY <1>0, <2>2 DEF PushWhole, Goes, TypeInv
  <2> QED
    BY <2>6, <2>7
<1>6. ASSUME NEW s \in Sessions, CreateWorktree(s) \/ CreateWorktreeFromRemote(s)
      PROVE  Whole' /\ PushWhole
  <2>1. /\ Goes(s, "working") /\ session[s] \in {"cloned", "fetched ref"}
        /\ UNCHANGED <<main, origin, made>>
    BY <1>6 DEF CreateWorktree, CreateWorktreeFromRemote, Step, Goes, repo
  <2>2. PushWhole
    BY <1>0, <2>1 DEF PushWhole, Goes, TypeInv
  <2>3. CASE CreateWorktree(s)
    <3> DEFINE tip == [base |-> clone.head, work |-> {}]
    <3>1. tip \in TipType /\ tip.work = {}
      BY <1>0, CloneParts DEF TipType
    <3>2. Checkout(s, tip) /\ owes' = owes /\ session[s] = "cloned"
      BY <2>3 DEF CreateWorktree, Step
    <3>3. owes[s] = {} /\ owes' \in [Sessions -> SUBSET Nat]
      BY <1>0, <3>2 DEF Whole, WholeInv, Unstarted, Bare, TypeInv
    <3> HIDE DEF tip
    <3>4. /\ tip.work \subseteq 1..made /\ owes'[s] \subseteq owes[s]
          /\ owes'[s] \subseteq tip.work \cup main.work
          /\ \A t \in Sessions \ {s} : owes'[t] = owes[t]
      BY <3>1, <3>2, <3>3
    <3>5. Whole'
      BY <2>1, <3>1, <3>2, <3>3, <3>4, CheckoutWhole
    <3> QED
      BY <2>2, <3>5
  <2>4. CASE CreateWorktreeFromRemote(s)
    <3>1. /\ Checkout(s, clone.tracking) /\ session[s] = "fetched ref"
          /\ owes' = [owes EXCEPT ![s] = @ \cap origin.work]
      BY <2>4 DEF CreateWorktreeFromRemote, Step
    <3>2. clone.tracking \in TipType /\ clone.tracking.work \subseteq 1..made
      BY <1>0, CloneParts DEF Whole, WholeInv, Numbered
    <3>3. /\ owes' \in [Sessions -> SUBSET Nat]
          /\ owes'[s] = owes[s] \cap origin.work
          /\ \A t \in Sessions \ {s} : owes'[t] = owes[t]
      BY <1>0, <3>1 DEF TypeInv
    <3>4. owes'[s] \subseteq clone.tracking.work \cup main.work
      BY <3>1, <3>3 DEF Whole, WholeInv, Reviewed
    <3>5. Whole'
      BY <2>1, <3>1, <3>2, <3>3, <3>4, CheckoutWhole
    <3> QED
      BY <2>2, <3>5
  <2> QED
    BY <1>6, <2>3, <2>4
<1>7. ASSUME NEW s \in Sessions, Commit(s) \/ OpenPush(s) \/ Resolve(s)
      PROVE  Whole' /\ PushWhole
  <2>1. UNCHANGED <<main, origin, tree>> /\ session[s] \in {"working", "fetched"}
    BY <1>7 DEF Commit, OpenPush, Resolve, Step, repo
  <2>2. PICK p \in {"working", "opened", "rebased"} : Goes(s, p)
    <3>1. CASE Commit(s)
      BY <1>0, <3>1 DEF Commit, Goes, TypeInv
    <3>2. CASE OpenPush(s)
      BY <3>2 DEF OpenPush, Step, Goes
    <3>3. CASE Resolve(s)
      BY <3>3 DEF Resolve, Step, Goes
    <3> QED
      BY <1>7, <3>1, <3>2, <3>3
  <2>3. p \notin Bare /\ p \in Places \ {"pushed", "cloned", "fetched ref"}
        /\ tree' \in [Sessions -> Trees]
    BY <1>0, <2>1 DEF Places, Brief, Working, Bare, TypeInv
  <2>4. PushWhole
    BY <1>0, <2>2 DEF PushWhole, Goes, TypeInv
  <2>5. CASE Record(s)
    BY <2>1, <2>2, <2>4, <2>5, RecordWhole
  <2>6. CASE UNCHANGED <<clone, owes, made>>
    BY <2>1, <2>2, <2>3, <2>6, GoesWhole
  <2> QED
    BY <1>7, <2>5, <2>6 DEF Commit, OpenPush, Resolve
<1>8. ASSUME NEW s \in Sessions, Rebase(s) PROVE Whole' /\ PushWhole
  <2>1. PushWhole
    BY <1>0, <1>8 DEF PushWhole, Rebase, Step, TypeInv
  <2> QED
    BY <1>8, <2>1, RebaseWhole
<1>9. ASSUME NEW s \in Sessions, PushForce(s) PROVE Whole' /\ PushWhole
  <2>1. \A t \in Sessions \ {s} : session'[t] = session[t]
    BY <1>0, <1>9 DEF PushForce, Step, TypeInv
  <2> QED
    BY <1>9, <2>1, PushWholeStep DEF PushWhole
<1>10. ASSUME \/ List \/ KeepListed \/ NoOpenPR \/ DeleteSwept \/ Age
             \/ PeoplePush \/ PeopleMerge \/ PeopleClose \/ MainMoves
             \/ UNCHANGED vars
      PROVE  Whole' /\ PushWhole
  <2>1. UNCHANGED <<clone, owes, session, tree>>
    BY <1>10 DEF List, KeepListed, NoOpenPR, DeleteSwept, Age, PeoplePush, PeopleMerge,
                PeopleClose, MainMoves, vars
  <2>2. main.work \in SUBSET Nat /\ main.version \in Nat /\ main \in MainType
        /\ origin \in TipType /\ origin.work \in SUBSET Nat /\ made \in Nat
    BY <1>0, TipTypes DEF TypeInv
  <2>3. main' \in MainType /\ main.work \subseteq main'.work
    <3>1. CASE UNCHANGED main
      BY <2>2, <3>1
    <3>2. CASE PeopleMerge
      <4>1. main' = [version |-> main.version + 1, work |-> main.work \cup origin.work]
        BY <3>2 DEF PeopleMerge
      <4> QED
        BY <2>2, <4>1 DEF MainType
    <3>3. CASE MainMoves
      BY <2>2, <3>3 DEF MainMoves, MainType
    <3> QED
      BY <1>10, <3>1, <3>2, <3>3 DEF List, KeepListed, NoOpenPR, DeleteSwept, DeleteBranch,
         Age, PeoplePush, PeopleClose, vars, repo
  <2>4. /\ made' \in Nat /\ made <= made' /\ origin' \in TipType
        /\ \A n \in origin'.work : n \in origin.work \/ n \in (made + 1)..made'
    <3>1. CASE made' = made /\ (origin' = origin \/ origin' = Gone)
      BY <2>2, <3>1, TipTypes DEF Gone
    <3>2. CASE PeoplePush
      <4>1. made' = made + 1 /\ origin' = [origin EXCEPT !.work = @ \cup {made'}]
        BY <3>2 DEF PeoplePush
      <4>2. origin' \in TipType /\ origin'.work = origin.work \cup {made'}
        BY <2>2, <4>1 DEF TipType
      <4> QED
        BY <2>2, <4>1, <4>2
    <3> QED
      BY <1>10, <3>1, <3>2 DEF List, KeepListed, NoOpenPR, DeleteSwept, DeleteBranch,
         Age, PeopleMerge, PeopleClose, MainMoves, vars, repo
  <2>5. session' \in [Sessions -> Places] /\ tree' \in [Sessions -> Trees]
    BY <1>0, <2>1 DEF TypeInv
  <2>6. Whole'
    BY <2>1, <2>3, <2>4, <2>5, ElsewhereWhole
  <2>7. PushWhole
    BY <2>1 DEF PushWhole
  <2> QED
    BY <2>6, <2>7
<1> QED
  BY <1>1, <1>2, <1>3, <1>4, <1>5, <1>6, <1>7, <1>8, <1>9, <1>10 DEF Next, SessionStep

LEMMA InitWhole == Init => Whole
<1> SUFFICES ASSUME Init PROVE Whole
  OBVIOUS
<1>1. main \in MainType /\ main.work = {} /\ Gone \in TipType /\ Gone.work = {}
  BY TipTypes DEF Init, MainType, Gone
<1>2. TypeInv
  BY <1>1 DEF Init, TypeInv, Places, Trees
<1>3. Numbered /\ MainKnown /\ Unstarted
  BY <1>1 DEF Init, Numbered, MainKnown, Unstarted
<1>4. ClonedFirst /\ OneBranch /\ Reviewed /\ Carried
  BY DEF Init, ClonedFirst, OneBranch, Reviewed, Carried
<1> QED
  BY <1>2, <1>3, <1>4 DEF Whole, WholeInv

(***************************************************************************)
(* PublishedWhole: for any number of runs and feedback runs of an issue,   *)
(* whatever they, the sweeps and people do in between, a push carries the  *)
(* commits of its run and what was under review when the run's worktree    *)
(* was made, except what the default branch has by then.                   *)
(***************************************************************************)
THEOREM PushesAlwaysWhole == Spec => PublishedWhole
<1>1. Whole /\ [Next]_vars => Whole' /\ PushWhole
  BY WholeStep
<1>2. Spec => [][PushWhole]_vars
  BY <1>1, InitWhole, PTL DEF Spec
<1> QED
  BY <1>2 DEF PublishedWhole
=============================================================================
