------------------------ MODULE ReleaseManagerProofs ------------------------
(***************************************************************************)
(* Theorems about ReleaseManager that hold for every set of approvers,     *)
(* every setting of the triggers and every number of commits, versions, QA *)
(* runs and rows.                                                          *)
(*                                                                         *)
(* The types are inductive with SweepInv: the sweep is left with rows it   *)
(* may still retry.  Each property then has its own strengthening, which   *)
(* says what the tick under way has to know for its next step to be right: *)
(* FireInv that the release is there before the row says so, QaInv that    *)
(* the commit about to be tagged has passed its run, and OrderInv that the *)
(* order of versions is that of commits above each version of the manager. *)
(***************************************************************************)
EXTENDS ReleaseManager, FiniteSetTheorems, TLAPS

SweepInv == at \in {"sweep", "record"} => sweep \subseteq Pending

TypeInv == TypeOK /\ SweepInv

FireInv ==
    /\ FireMeansReleased
    /\ at = "record" => \A k \in sweep : Current(k) => rows[k].tag \in releases
    /\ at = "fired" => plan.version \in releases

Succeeded(sha) == \E k \in DOMAIN runs : runs[k].sha = sha /\ runs[k].status = "success"

OwnTagged == \A v \in own : tags[v] # 0

QaInv ==
    /\ QaPassed
    /\ QaCheck /\ at \in {"tag", "release", "fired", "partial", "consume"} => Succeeded(plan.sha)

\* Above a version of the manager no tag is at an older commit, and no other of its
\* own is at the same one.
Ordered ==
    \A v \in own : \A u \in Versions :
        v < u /\ tags[u] # 0 => tags[v] <= tags[u] /\ (u \in own => tags[v] < tags[u])

\* The version about to be tagged fits in.
Fits ==
    IF plan.sighted
    THEN /\ \A w \in own : w < plan.version /\ tags[w] < plan.sha
         /\ \A u \in Versions : plan.version < u /\ tags[u] # 0 => plan.sha <= tags[u]
    ELSE plan.version = 1

OrderInv ==
    /\ Ordered
    /\ \A v \in own : tags[v] <= head
    /\ at \in {"qa", "tag"} => Fits
    /\ at = "release" => \A w \in own : w < plan.version => tags[w] <= plan.sha

-----------------------------------------------------------------------------
(* Operators.                                                              *)

\* A set of numbers up to N that is not empty has a largest one: were there none, adding
\* one would map the finite set of the numbers below into itself, one to one and past 1.
LEMMA LargestExists ==
  ASSUME NEW N \in Nat, NEW S \in SUBSET (1..N), S # {}
  PROVE  \E m \in S : \A k \in S : k <= m
<1> SUFFICES ASSUME \A m \in S : \E k \in S : m < k
             PROVE  FALSE
  OBVIOUS
<1> DEFINE D == {m \in 1..N : \E k \in S : m <= k}
           f == [m \in D |-> m + 1]
<1>1. IsFiniteSet(D)
  <2>1. IsFiniteSet(1..N)
    BY FS_Interval
  <2>2. D \in SUBSET (1..N)
    OBVIOUS
  <2> HIDE DEF D
  <2> QED
    BY <2>1, <2>2, FS_Subset
<1>2. \A m \in D : m + 1 \in D
  <2> TAKE m \in D
  <2>1. PICK k \in S : m <= k
    OBVIOUS
  <2>2. PICK l \in S : k < l
    BY <2>1
  <2> QED
    BY <2>1, <2>2
<1>3. f \in Injection(D, D)
  BY <1>2 DEF Injection, IsInjective
<1>4. f \in Surjection(D, D)
  <2> HIDE DEF f, D
  <2> QED
    BY <1>1, <1>3, FS_Injection
<1>5. 1 \in D
  <2>1. PICK k \in S : TRUE
    OBVIOUS
  <2> QED
    BY <2>1
<1>6. PICK m \in D : f[m] = 1
  BY <1>4, <1>5 DEF Surjection
<1> QED
  BY <1>6

\* Latest is the highest version that is tagged, or 0 when none is or none was seen.
LEMMA LatestIs ==
  ASSUME TypeOK, NEW sighted \in BOOLEAN
  PROVE  /\ ~sighted => Latest(sighted) = 0
         /\ sighted /\ Latest(sighted) = 0 => \A v \in Versions : tags[v] = 0
         /\ Latest(sighted) # 0 => /\ Latest(sighted) \in Versions
                                   /\ tags[Latest(sighted)] # 0
                                   /\ \A w \in Versions : tags[w] # 0 => w <= Latest(sighted)
<1>1. CASE sighted /\ \E v \in Versions : tags[v] # 0
  <2> DEFINE P(v) == tags[v] # 0 /\ \A w \in Versions : tags[w] # 0 => w <= v
             T == {v \in Versions : tags[v] # 0}
  <2>1. \E m \in T : \A k \in T : k <= m
    <3>1. MaxVersion \in Nat /\ T \in SUBSET (1..MaxVersion) /\ T # {}
      BY <1>1, ReleaseAssumption DEF Versions
    <3> HIDE DEF T
    <3> QED
      BY <3>1, LargestExists
  <2>2. \E v \in Versions : P(v)
    BY <2>1
  <2>3. Latest(sighted) = CHOOSE v \in Versions : P(v)
    BY <1>1 DEF Latest
  <2>4. Latest(sighted) \in Versions /\ P(Latest(sighted))
    <3> HIDE DEF P
    <3> QED
      BY <2>2, <2>3
  <2>5. Latest(sighted) # 0
    BY <2>4, ReleaseAssumption DEF Versions
  <2> QED
    BY <1>1, <2>4, <2>5
<1>2. CASE ~(sighted /\ \E v \in Versions : tags[v] # 0)
  BY <1>2 DEF Latest
<1> QED
  BY <1>1, <1>2

-----------------------------------------------------------------------------
(* Types.                                                                  *)

LEMMA InitType == Init => TypeInv
<1> SUFFICES ASSUME Init PROVE TypeInv
  OBVIOUS
<1>1. tags \in [Versions -> 0..MaxCommit] /\ head \in Commits
  BY ReleaseAssumption DEF Init, Commits
<1>2. <<>> \in Seq(Row) /\ DOMAIN <<>> = {} /\ Len(<<>>) = 0
      /\ <<>> \in Seq([sha : Commits, status : {"running", "success", "failure"}])
  OBVIOUS
<1>3. at = "idle" /\ sweep = {} /\ plan = Nothing /\ qaRun = 0 /\ rows = <<>> /\ runs = <<>>
      /\ paused = FALSE /\ own = {} /\ releases = {}
      /\ approvals \in [Approvers -> {"none", "fresh", "stale"}]
  BY DEF Init
<1>5. /\ rows \in Seq(Row) /\ runs \in Seq([sha : Commits, status : {"running", "success", "failure"}])
      /\ qaRun \in 0..Len(runs) /\ sweep \subseteq DOMAIN rows
  BY <1>2, <1>3
<1>4. TypeOK
  BY <1>1, <1>3, <1>5 DEF TypeOK
<1> QED
  BY <1>3, <1>4 DEF TypeInv, SweepInv

\* What a release changes at GitHub.
LEMMA ReleasedType ==
  ASSUME TypeOK, NEW v \in Versions, NEW sha \in 1..MaxCommit, Released(v, sha)
  PROVE  tags' \in [Versions -> 0..MaxCommit] /\ releases' \subseteq Versions
  BY ReleaseAssumption DEF TypeOK, Released

\* The rows as a sequence.
LEMMA RowsAre ==
  ASSUME TypeOK
  PROVE  /\ Len(rows) \in Nat /\ DOMAIN rows = 1..Len(rows)
         /\ \A k \in DOMAIN rows : rows[k] \in Row
         /\ Len(runs) \in Nat /\ DOMAIN runs = 1..Len(runs)
  BY DEF TypeOK

\* A change of one row.
LEMMA RowSet ==
  ASSUME TypeOK, NEW k \in DOMAIN rows, NEW r \in Row
  PROVE  LET R == [rows EXCEPT ![k] = r] IN
         /\ R \in Seq(Row) /\ DOMAIN R = DOMAIN rows
         /\ \A l \in DOMAIN rows : R[l] = IF l = k THEN r ELSE rows[l]
  BY RowsAre DEF TypeOK

\* The decision and the attempts are set in place.
LEMMA RowSetIn ==
  ASSUME TypeOK, NEW k \in Pending
  PROVE  /\ NotReleased(k) =>
                /\ rows' \in Seq(Row) /\ DOMAIN rows' = DOMAIN rows
                /\ \A l \in DOMAIN rows : l # k => rows'[l] = rows[l]
                /\ rows'[k].tag = rows[k].tag /\ rows'[k].sha = rows[k].sha
                /\ rows'[k].decision = rows[k].decision
         /\ rows' = [rows EXCEPT ![k].decision = "fire"] =>
                /\ rows' \in Seq(Row) /\ DOMAIN rows' = DOMAIN rows
                /\ \A l \in DOMAIN rows : l # k => rows'[l] = rows[l]
                /\ rows'[k].tag = rows[k].tag /\ rows'[k].sha = rows[k].sha
<1>1. k \in DOMAIN rows /\ rows[k] \in Row /\ rows[k].attempts < 3
  BY RowsAre DEF Pending, MaxAttempts
<1>2. [rows[k] EXCEPT !.attempts = @ + 1] \in Row
  BY <1>1 DEF Row, MaxAttempts
<1>3. [rows[k] EXCEPT !.decision = "fire"] \in Row
  BY <1>1 DEF Row
<1>4. ASSUME NotReleased(k)
      PROVE  rows' = [rows EXCEPT ![k] = [rows[k] EXCEPT !.attempts = @ + 1]]
  BY <1>4 DEF NotReleased
<1>5. ASSUME rows' = [rows EXCEPT ![k].decision = "fire"]
      PROVE  rows' = [rows EXCEPT ![k] = [rows[k] EXCEPT !.decision = "fire"]]
  BY <1>5
<1>6. ASSUME NotReleased(k)
      PROVE  /\ rows' \in Seq(Row) /\ DOMAIN rows' = DOMAIN rows
             /\ \A l \in DOMAIN rows : l # k => rows'[l] = rows[l]
             /\ rows'[k] = [rows[k] EXCEPT !.attempts = @ + 1]
  BY <1>1, <1>2, <1>4, <1>6, RowSet
<1>7. ASSUME rows' = [rows EXCEPT ![k].decision = "fire"]
      PROVE  /\ rows' \in Seq(Row) /\ DOMAIN rows' = DOMAIN rows
             /\ \A l \in DOMAIN rows : l # k => rows'[l] = rows[l]
             /\ rows'[k] = [rows[k] EXCEPT !.decision = "fire"]
  BY <1>1, <1>3, <1>5, <1>7, RowSet
<1> QED
  BY <1>1, <1>6, <1>7 DEF Row

\* The sweep is done with a row.
LEMMA SweptType ==
  ASSUME TypeInv, NEW k, k \in sweep, k \in DOMAIN rows, at \in {"sweep", "record"}, RowDone(k),
         rows' \in Seq(Row), DOMAIN rows' = DOMAIN rows,
         \A l \in DOMAIN rows : l # k => rows'[l] = rows[l],
         UNCHANGED <<head, tags, releases, runs, approvals, qaRun, paused>>, own' \subseteq own
  PROVE  TypeInv'
<1>1. /\ sweep' = sweep \ {k} /\ at' = IF sweep = {k} THEN "collect" ELSE "sweep"
      /\ plan' = plan
  BY DEF RowDone
<1>2. sweep \subseteq DOMAIN rows /\ sweep \subseteq Pending /\ plan = Nothing
  BY DEF TypeInv, TypeOK, SweepInv
<1>3. sweep' \subseteq DOMAIN rows' /\ (at' \in {"sweep", "record"} <=> sweep' # {})
  BY <1>1, <1>2
<1>4. sweep' \subseteq Pending'
  <2>1. \A l \in sweep' : l \in Pending /\ l # k /\ l \in DOMAIN rows
    BY <1>1, <1>2
  <2>2. \A l \in sweep' : l \in DOMAIN rows' /\ rows'[l] = rows[l]
    BY <2>1
  <2> QED
    BY <2>1, <2>2 DEF Pending
<1>5. at' \in {"collect", "sweep"}
  BY <1>1
<1>6. TypeOK'
  <2>1. /\ head' \in Commits /\ tags' \in [Versions -> 0..MaxCommit] /\ releases' \subseteq Versions
        /\ runs' \in Seq([sha : Commits, status : {"running", "success", "failure"}])
        /\ approvals' \in [Approvers -> {"none", "fresh", "stale"}]
        /\ qaRun' \in 0..Len(runs') /\ paused' \in BOOLEAN /\ own' \subseteq Versions
    BY DEF TypeInv, TypeOK
  <2>2. plan' = Nothing
    BY <1>1, <1>2
  <2> QED
    BY <1>3, <1>5, <2>1, <2>2 DEF TypeOK
<1> QED
  BY <1>4, <1>6 DEF TypeInv, SweepInv

LEMMA TickType ==
  ASSUME TypeInv, TickStep
  PROVE  TypeInv'
<1> USE ReleaseAssumption
    DEF TypeInv, TypeOK, SweepInv, Commits, Versions, github, db, tick, vars, Stop, Goto
<1>1. CASE Begin
  BY <1>1 DEF Begin, Pending, Nothing
<1>2. CASE SweepFails
  BY <1>2 DEF SweepFails, Nothing
<1>3. CASE Skip \/ NoTag \/ Throw \/ AwaitApproval
  BY <1>3 DEF Skip, NoTag, Throw, AwaitApproval, Nothing
<1>4. CASE QaPasses
  BY <1>4 DEF QaPasses
<1>5. CASE Dispatch
  <2> DEFINE Run == [sha : Commits, status : {"running", "success", "failure"}]
             begun == [sha |-> plan.sha, status |-> "running"]
  <2>1. plan.sha \in 1..head /\ head \in Commits
    BY <1>5 DEF Dispatch
  <2>2. begun \in Run /\ runs \in Seq(Run) /\ runs' = Append(runs, begun)
    BY <1>5, <2>1 DEF Dispatch
  <2> HIDE DEF Run, begun
  <2>3. /\ runs' \in Seq(Run) /\ Len(runs') = Len(runs) + 1 /\ Len(runs) \in Nat
        /\ DOMAIN runs' = 1..Len(runs')
    BY <2>2
  <2>4. qaRun' \in 0..Len(runs')
    <3>1. qaRun' = qaRun \/ qaRun' \in DOMAIN runs'
      BY <1>5 DEF Dispatch
    <3> QED
      BY <2>3, <3>1
  <2>5. /\ at' = "idle" /\ sweep' = {} /\ plan' = Nothing
        /\ UNCHANGED <<head, tags, releases, approvals, rows, paused, own>>
    BY <1>5 DEF Dispatch
  <2> QED
    BY <2>3, <2>4, <2>5 DEF Run
<1>6. ASSUME NEW k \in 1..MaxRow, Retry(k)
      PROVE  TypeInv'
  <2>1. k \in Pending /\ k \in DOMAIN rows /\ sweep # {} /\ rows[k] \in Row
    BY <1>6, RowsAre DEF Retry, Current
  <2>5. /\ at = "sweep" /\ own' \subseteq own
        /\ UNCHANGED <<head, runs, approvals, qaRun, paused>>
    BY <1>6 DEF Retry
  <2>2. CASE Gone(k) /\ RowDone(k) /\ UNCHANGED <<tags, releases>>
    <3>1. rows' = rows /\ rows \in Seq(Row) /\ k \in sweep
      BY <1>6, <2>2 DEF Gone, Retry, Current
    <3> QED
      BY <2>1, <2>2, <2>5, <3>1, SweptType
  <2>3. CASE Released(rows[k].tag, rows[k].sha) /\ Goto("record") /\ UNCHANGED rows
    <3>1. tags' \in [Versions -> 0..MaxCommit] /\ releases' \subseteq Versions
      BY <2>1, <2>3, ReleasedType DEF Row
    <3> QED
      BY <2>1, <2>3, <2>5, <3>1 DEF Pending
  <2>4. CASE NotReleased(k) /\ RowDone(k) /\ UNCHANGED <<tags, releases>>
    <3>1. rows' \in Seq(Row) /\ DOMAIN rows' = DOMAIN rows
          /\ \A l \in DOMAIN rows : l # k => rows'[l] = rows[l]
      BY <2>1, <2>4, RowSetIn
    <3>2. k \in sweep
      BY <1>6 DEF Retry, Current
    <3> QED
      BY <2>1, <2>4, <2>5, <3>1, <3>2, SweptType
  <2> QED
    BY <1>6, <2>2, <2>3, <2>4 DEF Retry
<1>7. ASSUME NEW k \in 1..MaxRow, RecordRetry(k)
      PROVE  TypeInv'
  <2>1. k \in Pending /\ k \in sweep /\ k \in DOMAIN rows
    BY <1>7 DEF RecordRetry, Current
  <2>2. rows' \in Seq(Row) /\ DOMAIN rows' = DOMAIN rows
        /\ \A l \in DOMAIN rows : l # k => rows'[l] = rows[l]
    BY <1>7, <2>1, RowSetIn DEF RecordRetry
  <2>3. /\ at = "record" /\ RowDone(k) /\ own' = own
        /\ UNCHANGED <<head, tags, releases, runs, approvals, qaRun, paused>>
    BY <1>7 DEF RecordRetry
  <2> QED
    BY <2>1, <2>2, <2>3, SweptType
<1>8. ASSUME NEW sighted \in BOOLEAN, Collect(sighted)
      PROVE  TypeInv'
  BY <1>8 DEF Collect
<1>9. CASE CreateTag
  <2>1. plan.sha \in 0..MaxCommit /\ plan.version \in Versions
    BY <1>9 DEF CreateTag
  <2>2. tags' \in [Versions -> 0..MaxCommit] /\ own' \subseteq Versions
    BY <1>9, <2>1 DEF CreateTag
  <2> QED
    BY <1>9, <2>2 DEF CreateTag
<1>10. CASE CreateRelease
  <2>1. plan.sha \in 1..MaxCommit /\ plan.version \in Versions
    BY <1>10 DEF CreateRelease
  <2>2. tags' \in [Versions -> 0..MaxCommit] /\ releases' \subseteq Versions
    <3>1. CASE Released(plan.version, plan.sha)
      BY <2>1, <3>1, ReleasedType
    <3> QED
      BY <1>10, <3>1 DEF CreateRelease
  <2>3. (Goto("fired") \/ Goto("partial")) /\ at = "release"
        /\ UNCHANGED <<head, runs, db, paused, own>>
    BY <1>10 DEF CreateRelease
  <2> QED
    BY <2>2, <2>3
<1>11. CASE Persist
  <2>1. [tag |-> plan.version, sha |-> plan.sha, decision |-> "fire", attempts |-> 0] \in Row
        /\ [tag |-> plan.version, sha |-> plan.sha, decision |-> "fire-pending", attempts |-> 1] \in Row
    BY <1>11 DEF Persist, Row, MaxAttempts
  <2>2. /\ at \in {"fired", "partial"} /\ UNCHANGED <<github, approvals, qaRun, paused, own>>
        /\ Goto("consume") \/ Stop
        /\ Fired("fire", 0) \/ Fired("fire-pending", 1)
    BY <1>11 DEF Persist
  <2>3. rows' \in Seq(Row)
    <3>1. CASE Fired("fire", 0)
      BY <2>1, <3>1 DEF Fired
    <3>2. CASE Fired("fire-pending", 1)
      BY <2>1, <3>2 DEF Fired
    <3> QED
      BY <2>2, <3>1, <3>2
  <2> QED
    BY <2>2, <2>3 DEF Nothing
<1>12. CASE Consume
  BY <1>12 DEF Consume, Nothing
<1> QED
  BY <1>1, <1>2, <1>3, <1>4, <1>5, <1>6, <1>7, <1>8, <1>9, <1>10, <1>11, <1>12 DEF TickStep

\* A QA run ends, and the others stay as they are.
LEMMA RunSet ==
  ASSUME TypeOK, NEW k \in DOMAIN runs, RunEnds(k)
  PROVE  /\ runs' \in Seq([sha : Commits, status : {"running", "success", "failure"}])
         /\ Len(runs') = Len(runs) /\ DOMAIN runs' = DOMAIN runs
         /\ runs[k].status = "running" /\ runs'[k].sha = runs[k].sha
         /\ \A l \in DOMAIN runs : l # k => runs'[l] = runs[l]
<1> DEFINE Run == [sha : Commits, status : {"running", "success", "failure"}]
<1>1. runs \in Seq(Run) /\ runs[k] \in Run
  <2>1. runs \in Seq(Run) /\ k \in 1..Len(runs)
    BY RowsAre DEF TypeOK
  <2> HIDE DEF Run
  <2> QED
    BY <2>1
<1>2. PICK s \in {"success", "failure"} : runs' = [runs EXCEPT ![k].status = s]
  BY DEF RunEnds
<1> DEFINE r == [runs[k] EXCEPT !.status = s]
<1>3. r \in Run /\ r.sha = runs[k].sha
  BY <1>1
<1>4. runs' = [runs EXCEPT ![k] = r]
  BY <1>2
<1> HIDE DEF Run, r
<1>5. runs' \in Seq(Run) /\ Len(runs') = Len(runs) /\ DOMAIN runs' = DOMAIN runs
      /\ runs'[k] = r /\ \A l \in DOMAIN runs : l # k => runs'[l] = runs[l]
  BY <1>1, <1>3, <1>4
<1>6. runs[k].status = "running"
  BY DEF RunEnds
<1> QED
  BY <1>3, <1>5, <1>6 DEF Run

LEMMA OtherType ==
  ASSUME TypeInv, Restart \/ Slack \/ People \/ UNCHANGED vars
  PROVE  TypeInv'
<1> USE ReleaseAssumption
    DEF TypeInv, TypeOK, SweepInv, Commits, Versions, github, db, tick, vars, Stop, Goto
<1>1. CASE Restart
  BY <1>1 DEF Restart, Nothing
<1>2. CASE Slack
  BY <1>2 DEF Slack, Approve, Expire, PauseUntil, Pending
<1>3. CASE Push
  <2>1. head' = head + 1 /\ head' \in 1..MaxCommit
    BY <1>3 DEF Push
  <2>2. UNCHANGED <<tags, releases, runs, db, paused, tick, own>>
    BY <1>3 DEF Push
  <2>3. Pending' = Pending
    BY <2>2 DEF Pending
  <2>4. 1..head \subseteq 1..head'
    BY <2>1
  <2>5. IF at' \in {"qa", "tag", "release", "fired", "partial", "consume"}
        THEN plan' \in [sha : 1..head', version : Versions, approved : BOOLEAN, sighted : BOOLEAN]
        ELSE plan' = Nothing
    BY <2>2, <2>4
  <2> QED
    BY <2>1, <2>2, <2>3, <2>5
<1>4. ASSUME NEW v \in Versions, TagByHand(v) \/ CleanUp(v) \/ ReleaseByHand(v)
      PROVE  TypeInv'
  <2>1. tags' \in [Versions -> 0..MaxCommit]
    <3>1. head \in 0..MaxCommit /\ 0 \in 0..MaxCommit
      OBVIOUS
    <3>2. \/ tags' = [tags EXCEPT ![v] = head]
          \/ tags' = [tags EXCEPT ![v] = 0]
          \/ tags' = tags
      BY <1>4 DEF TagByHand, CleanUp, ReleaseByHand
    <3> QED
      BY <3>1, <3>2
  <2>3. releases' \subseteq Versions /\ own' \subseteq Versions
    BY <1>4 DEF TagByHand, CleanUp, ReleaseByHand
  <2>2. UNCHANGED <<head, runs, db, paused, tick>>
    BY <1>4 DEF TagByHand, CleanUp, ReleaseByHand
  <2> QED
    BY <2>1, <2>2, <2>3 DEF Pending
<1>5. ASSUME NEW k \in DOMAIN runs, RunEnds(k)
      PROVE  TypeInv'
  <2>1. runs' \in Seq([sha : Commits, status : {"running", "success", "failure"}])
        /\ Len(runs') = Len(runs)
    BY <1>5, RunSet
  <2>2. UNCHANGED <<head, tags, releases, db, paused, tick, own>>
    BY <1>5 DEF RunEnds
  <2> QED
    BY <2>1, <2>2 DEF Pending
<1>6. CASE UNCHANGED vars
  BY <1>6 DEF Pending
<1> QED
  BY <1>1, <1>2, <1>3, <1>4, <1>5, <1>6 DEF People

LEMMA StepType == TypeInv /\ [Next]_vars => TypeInv'
  BY TickType, OtherType DEF Next

\* The variables keep their types, the commit of a plan is one of the branch, and the
\* sweep has rows left exactly while it runs.
THEOREM TypesHold == Spec => []TypeOK
<1>1. Spec => []TypeInv
  BY InitType, StepType, PTL DEF Spec
<1> QED
  BY <1>1, PTL DEF TypeInv

-----------------------------------------------------------------------------
(* A row that says fire has its release.                                   *)

\* Nothing takes a release away.
LEMMA ReleasesStay == [Next]_vars => releases \subseteq releases'
  BY DEF Next, TickStep, Slack, People, vars, github, db, tick, Begin, SweepFails, Skip, QaPasses,
         AwaitApproval, Dispatch, Retry, RecordRetry, Collect, NoTag, CreateTag, CreateRelease,
         Persist, Consume, Throw, Restart, Approve, Expire, PauseUntil, Push, TagByHand, CleanUp,
         ReleaseByHand, RunEnds, Released

\* The steps that neither write a row nor reach one of the two places before it.
LEMMA FireQuiet ==
  ASSUME FireInv, releases \subseteq releases', UNCHANGED rows,
         UNCHANGED tick \/ at' \notin {"record", "fired"}
  PROVE  FireInv'
  BY DEF FireInv, FireMeansReleased, Current, tick

LEMMA FireStep ==
  ASSUME TypeInv, FireInv, [Next]_vars
  PROVE  FireInv'
<1> USE DEF github, db, tick, vars, Stop, Goto
<1>0. releases \subseteq releases'
  BY ReleasesStay
<1>1. ASSUME NEW k \in 1..MaxRow, Retry(k)
      PROVE  FireInv'
  <2>1. k \in Pending /\ k \in DOMAIN rows /\ k \in sweep /\ at = "sweep"
    BY <1>1 DEF Retry, Current, TypeInv, TypeOK, SweepInv
  <2>2. CASE Gone(k) /\ RowDone(k)
    BY <1>0, <2>1, <2>2, FireQuiet DEF Gone, RowDone
  <2>3. CASE Released(rows[k].tag, rows[k].sha) /\ Goto("record") /\ UNCHANGED rows
    <3>1. \A l \in sweep : Current(l) => l = k
      BY <1>1, RowsAre DEF Retry, Current, TypeInv, TypeOK
    <3>2. rows[k].tag \in releases'
      BY <2>3 DEF Released
    <3> QED
      BY <1>0, <2>3, <3>1, <3>2 DEF FireInv, FireMeansReleased, Current
  <2>4. CASE NotReleased(k) /\ RowDone(k)
    <3>1. /\ DOMAIN rows' = DOMAIN rows /\ \A l \in DOMAIN rows : l # k => rows'[l] = rows[l]
          /\ rows'[k].tag = rows[k].tag /\ rows'[k].decision = rows[k].decision
      BY <2>1, <2>4, RowSetIn DEF TypeInv
    <3>2. at' \notin {"record", "fired"}
      BY <2>4 DEF RowDone
    <3> QED
      BY <1>0, <3>1, <3>2 DEF FireInv, FireMeansReleased
  <2> QED
    BY <1>1, <2>2, <2>3, <2>4 DEF Retry
<1>2. ASSUME NEW k \in 1..MaxRow, RecordRetry(k)
      PROVE  FireInv'
  <2>1. k \in Pending /\ k \in sweep /\ rows[k].tag \in releases
    BY <1>2 DEF RecordRetry, Current, TypeInv, TypeOK, SweepInv, FireInv
  <2>2. /\ DOMAIN rows' = DOMAIN rows /\ \A l \in DOMAIN rows : l # k => rows'[l] = rows[l]
        /\ rows'[k].tag = rows[k].tag
    BY <1>2, <2>1, RowSetIn DEF RecordRetry, TypeInv
  <2>3. at' \notin {"record", "fired"}
    BY <1>2 DEF RecordRetry, RowDone
  <2> QED
    BY <1>0, <2>1, <2>2, <2>3 DEF FireInv, FireMeansReleased
<1>3. CASE CreateRelease
  <2>1. CASE Released(plan.version, plan.sha) /\ Goto("fired")
    BY <1>0, <1>3, <2>1 DEF CreateRelease, Released, FireInv, FireMeansReleased
  <2>2. CASE Goto("partial")
    BY <1>0, <1>3, <2>2, FireQuiet DEF CreateRelease
  <2> QED
    BY <1>3, <2>1, <2>2 DEF CreateRelease
<1>4. CASE Persist
  <2>1. at' \notin {"record", "fired"} /\ at \in {"fired", "partial"}
    BY <1>4 DEF Persist
  <2>2. ASSUME NEW d \in {"fire", "fire-pending"}, NEW n \in Nat, Fired(d, n),
               d = "fire" => plan.version \in releases
        PROVE  FireMeansReleased'
    BY <1>0, <2>2, RowsAre DEF Fired, FireInv, FireMeansReleased, TypeInv, TypeOK
  <2>3. FireMeansReleased'
    BY <1>4, <2>2 DEF Persist, FireInv
  <2> QED
    BY <2>1, <2>3 DEF FireInv
<1>5. CASE Begin \/ SweepFails \/ Skip \/ QaPasses \/ AwaitApproval \/ Dispatch \/ NoTag \/ CreateTag
           \/ Consume \/ Throw \/ Restart
  BY <1>0, <1>5, FireQuiet DEF Begin, SweepFails, Skip, QaPasses, AwaitApproval, Dispatch, NoTag,
     CreateTag, Consume, Throw, Restart
<1>6. ASSUME NEW sighted \in BOOLEAN, Collect(sighted)
      PROVE  FireInv'
  BY <1>0, <1>6, FireQuiet DEF Collect
<1>7. CASE Slack \/ People \/ UNCHANGED vars
  BY <1>0, <1>7, FireQuiet DEF Slack, People, Approve, Expire, PauseUntil, Push, TagByHand, CleanUp,
     ReleaseByHand, RunEnds
<1> QED
  BY <1>1, <1>2, <1>3, <1>4, <1>5, <1>6, <1>7 DEF Next, TickStep

\* A row of release_decisions that says fire has its release at GitHub, be it of the tick
\* that made the tag or of a later one's sweep.
THEOREM FireAlwaysReleased == Spec => []FireMeansReleased
<1>1. Init => FireInv
  BY DEF Init, FireInv, FireMeansReleased
<1>2. TypeInv /\ FireInv /\ [Next]_vars => FireInv'
  BY FireStep
<1>3. Spec => [](TypeInv /\ FireInv)
  BY <1>1, <1>2, InitType, StepType, PTL DEF Spec
<1> QED
  BY <1>3, PTL DEF FireInv

-----------------------------------------------------------------------------
(* What the manager has tagged has passed its QA run.                      *)

\* A release leaves every tag that is there.
LEMMA ReleasedKeeps ==
  ASSUME TypeInv, NEW v \in Versions, NEW sha \in Commits, Released(v, sha)
  PROVE  /\ \A u \in Versions : u # v \/ tags[u] # 0 => tags'[u] = tags[u]
         /\ tags[v] = 0 => tags'[v] = sha
         /\ tags'[v] # 0
  BY DEF Released, TypeInv, TypeOK, Commits

\* The versions of the manager keep their tags, but for the one it tags in this step.
LEMMA OwnKeeps ==
  ASSUME TypeInv, OwnTagged, [Next]_vars
  PROVE  \A v \in own' :
            \/ v \in own /\ tags'[v] = tags[v]
            \/ CreateTag /\ v = plan.version /\ plan.sighted /\ tags'[v] = plan.sha
<1> USE DEF github, db, tick, vars, OwnTagged
<1>1. ASSUME NEW k \in 1..MaxRow, Retry(k)
      PROVE  \A v \in own' : v \in own /\ tags'[v] = tags[v]
  <2>1. k \in DOMAIN rows /\ rows[k].tag \in Versions /\ rows[k].sha \in Commits
    BY <1>1, RowsAre DEF Retry, Current, TypeInv, TypeOK, Row
  <2>2. own' \subseteq own /\ own \subseteq Versions
    BY <1>1 DEF Retry, TypeInv, TypeOK
  <2>3. tags' = tags \/ Released(rows[k].tag, rows[k].sha)
    BY <1>1 DEF Retry
  <2> QED
    BY <2>1, <2>2, <2>3, ReleasedKeeps
<1>2. CASE CreateRelease
  <2>3. at = "release" /\ head \in Commits /\ own \subseteq Versions
        /\ plan \in [sha : 1..head, version : Versions, approved : BOOLEAN, sighted : BOOLEAN]
    BY <1>2 DEF CreateRelease, TypeInv, TypeOK
  <2>1. plan.version \in Versions /\ plan.sha \in Commits /\ own \subseteq Versions
    BY <2>3, ReleaseAssumption DEF Commits
  <2>2. own' = own /\ (tags' = tags \/ Released(plan.version, plan.sha))
    BY <1>2 DEF CreateRelease
  <2> QED
    BY <2>1, <2>2, ReleasedKeeps
<1>3. CASE CreateTag
  <2>1. plan.version \in Versions /\ plan.version \notin own /\ own \subseteq Versions
    BY <1>3 DEF CreateTag, TypeInv, TypeOK
  <2> QED
    BY <1>3, <2>1 DEF CreateTag, TypeInv, TypeOK
<1>4. ASSUME NEW v \in Versions, TagByHand(v) \/ CleanUp(v)
      PROVE  \A u \in own' : u \in own /\ tags'[u] = tags[u]
  BY <1>4 DEF TagByHand, CleanUp, TypeInv, TypeOK
<1>5. CASE UNCHANGED <<tags, own>>
  BY <1>5
<1>6. \/ UNCHANGED <<tags, own>>
      \/ \E k \in 1..MaxRow : Retry(k)
      \/ CreateRelease \/ CreateTag
      \/ \E v \in Versions : TagByHand(v) \/ CleanUp(v)
  BY DEF Next, TickStep, Slack, People, Begin, SweepFails, Skip, QaPasses,
         AwaitApproval, Dispatch, RecordRetry, Collect, NoTag, Persist, Consume, Throw, Restart,
         Approve, Expire, PauseUntil, Push, ReleaseByHand, RunEnds
<1> QED
  BY <1>1, <1>2, <1>3, <1>4, <1>5, <1>6

LEMMA OwnStep ==
  ASSUME TypeInv, OwnTagged, [Next]_vars
  PROVE  OwnTagged'
<1>1. CreateTag => plan.sha # 0
  BY DEF CreateTag, TypeInv, TypeOK
<1> QED
  BY <1>1, OwnKeeps DEF OwnTagged

\* A run that has passed stays so.
LEMMA SucceededStays ==
  ASSUME TypeInv, [Next]_vars, NEW sha, Succeeded(sha)
  PROVE  \E k \in DOMAIN runs' : runs'[k].sha = sha /\ runs'[k].status = "success"
<1> USE DEF github, db, tick, vars
<1>1. CASE UNCHANGED runs
  BY <1>1 DEF Succeeded
<1>2. CASE Dispatch
  <2>1. \A k \in DOMAIN runs : k \in DOMAIN runs' /\ runs'[k] = runs[k]
    BY <1>2, RowsAre DEF Dispatch, TypeInv, TypeOK
  <2> QED
    BY <2>1 DEF Succeeded
<1>3. ASSUME NEW k \in DOMAIN runs, RunEnds(k)
      PROVE  \E l \in DOMAIN runs' : runs'[l].sha = sha /\ runs'[l].status = "success"
  <2>1. PICK l \in DOMAIN runs : runs[l].sha = sha /\ runs[l].status = "success"
    BY DEF Succeeded
  <2>2. l # k /\ runs'[l] = runs[l] /\ l \in DOMAIN runs'
    BY <1>3, <2>1, RunSet DEF TypeInv
  <2> QED
    BY <2>1, <2>2
<1>4. UNCHANGED runs \/ Dispatch \/ \E k \in DOMAIN runs : RunEnds(k)
  BY DEF Next, TickStep, Slack, People, Begin, SweepFails, Skip, QaPasses, CreateTag, CreateRelease,
         AwaitApproval, Retry, RecordRetry, Collect, NoTag, Persist, Consume, Throw, Restart,
         Approve, Expire, PauseUntil, Push, ReleaseByHand, TagByHand, CleanUp
<1> QED
  BY <1>1, <1>2, <1>3, <1>4

Passing == {"tag", "release", "fired", "partial", "consume"}

\* The only way into the places after evalQaCheck is past it.
LEMMA PassingStep ==
  ASSUME TypeInv, QaInv, QaCheck, [Next]_vars, at' \in Passing
  PROVE  Succeeded(plan.sha)'
<1> USE DEF github, db, tick, vars, Stop, Goto, Passing
<1>1. CASE at \in Passing /\ UNCHANGED plan
  BY <1>1, SucceededStays DEF QaInv, Succeeded
<1>2. CASE QaPasses
  <2>1. Succeeded(plan.sha) /\ UNCHANGED plan
    BY <1>2, RowsAre DEF QaPasses, Passed, Tracked, Succeeded, TypeInv, TypeOK
  <2> QED
    BY <2>1, SucceededStays DEF Succeeded
<1>3. CASE UNCHANGED tick
  BY <1>1, <1>3
<1>4. CASE CreateTag \/ CreateRelease
  BY <1>1, <1>4 DEF CreateTag, CreateRelease
<1>5. CASE Persist
  BY <1>1, <1>5 DEF Persist
<1>6. at' \in Passing => UNCHANGED tick \/ QaPasses \/ CreateTag \/ CreateRelease \/ Persist
  BY DEF Next, TickStep, Slack, People, Begin, SweepFails, Skip, Dispatch,
         AwaitApproval, Retry, RowDone, RecordRetry, Collect, NoTag, Consume, Throw, Restart,
         Approve, Expire, PauseUntil, Push, ReleaseByHand, TagByHand, CleanUp, RunEnds
<1> QED
  BY <1>2, <1>3, <1>4, <1>5, <1>6

\* A row keeps its commit, and a new one is of the commit of the plan.
LEMMA RowsKeep ==
  ASSUME TypeInv, [Next]_vars
  PROVE  \A k \in DOMAIN rows' :
            \/ k \in DOMAIN rows /\ rows'[k].sha = rows[k].sha
            \/ at \in Passing /\ rows'[k].sha = plan.sha
<1> USE DEF github, db, tick, vars
<1>1. ASSUME NEW k \in 1..MaxRow, Retry(k) \/ RecordRetry(k), rows' # rows
      PROVE  \A l \in DOMAIN rows' : l \in DOMAIN rows /\ rows'[l].sha = rows[l].sha
  <2>1. k \in Pending
    BY <1>1 DEF Retry, RecordRetry, Current, TypeInv, TypeOK, SweepInv
  <2>2. NotReleased(k) \/ rows' = [rows EXCEPT ![k].decision = "fire"]
    BY <1>1 DEF Retry, RecordRetry, Gone
  <2> QED
    BY <2>1, <2>2, RowSetIn DEF TypeInv
<1>2. CASE Persist
  <2>1. at \in Passing
    BY <1>2 DEF Persist, Passing
  <2>2. ASSUME NEW d, NEW n, Fired(d, n)
        PROVE  \A k \in DOMAIN rows' : \/ k \in DOMAIN rows /\ rows'[k] = rows[k]
                                      \/ rows'[k].sha = plan.sha
    BY <2>2, RowsAre DEF Fired, TypeInv, TypeOK
  <2> QED
    BY <1>2, <2>1, <2>2 DEF Persist
<1>3. UNCHANGED rows \/ Persist \/ \E k \in 1..MaxRow : Retry(k) \/ RecordRetry(k)
  BY DEF Next, TickStep, Slack, People, Begin, SweepFails, Skip, QaPasses, CreateTag, CreateRelease,
         Dispatch, AwaitApproval, Collect, NoTag, Consume, Throw, Restart,
         Approve, Expire, PauseUntil, Push, ReleaseByHand, TagByHand, CleanUp, RunEnds
<1> QED
  BY <1>1, <1>2, <1>3

LEMMA QaStep ==
  ASSUME TypeInv, OwnTagged, QaInv, [Next]_vars
  PROVE  QaInv'
<1> SUFFICES ASSUME QaCheck
             PROVE  /\ \A v \in own' : Succeeded(tags[v])'
                    /\ \A k \in DOMAIN rows' : Succeeded(rows[k].sha)'
                    /\ at' \in Passing => Succeeded(plan.sha)'
  BY DEF QaInv, QaPassed, Succeeded, Passing
<1>1. /\ \A v \in own : Succeeded(tags[v])
      /\ \A k \in DOMAIN rows : Succeeded(rows[k].sha)
      /\ at \in Passing => Succeeded(plan.sha)
  BY DEF QaInv, QaPassed, Succeeded, Passing
<1>2. CreateTag => at \in Passing
  BY DEF CreateTag, Passing
<1>3. \A v \in own' : Succeeded(tags[v])'
  <2> TAKE v \in own'
  <2>1. CASE v \in own /\ tags'[v] = tags[v]
    BY <1>1, <2>1, SucceededStays DEF Succeeded
  <2>2. CASE CreateTag /\ tags'[v] = plan.sha
    BY <1>1, <1>2, <2>2, SucceededStays DEF Succeeded
  <2> QED
    BY <2>1, <2>2, OwnKeeps
<1>4. \A k \in DOMAIN rows' : Succeeded(rows[k].sha)'
  <2> TAKE k \in DOMAIN rows'
  <2>1. CASE k \in DOMAIN rows /\ rows'[k].sha = rows[k].sha
    BY <1>1, <2>1, SucceededStays DEF Succeeded
  <2>2. CASE at \in Passing /\ rows'[k].sha = plan.sha
    BY <1>1, <2>2, SucceededStays DEF Succeeded
  <2> QED
    BY <2>1, <2>2, RowsKeep
<1> QED
  BY <1>3, <1>4, PassingStep

\* With a QA check, every commit the manager has tagged, and every row it has written, has
\* a run of its own that has passed, although the head of the branch moves on while a run
\* is dispatched, found and polled over several ticks.
THEOREM QaAlwaysPassed == Spec => []QaPassed
<1>1. Init => OwnTagged /\ QaInv
  BY DEF Init, OwnTagged, QaInv, QaPassed
<1>2. TypeInv /\ OwnTagged /\ QaInv /\ [Next]_vars => OwnTagged' /\ QaInv'
  BY OwnStep, QaStep
<1>3. Spec => [](TypeInv /\ OwnTagged /\ QaInv)
  BY <1>1, <1>2, InitType, StepType, PTL DEF Spec
<1> QED
  BY <1>3, PTL DEF QaInv

-----------------------------------------------------------------------------
(* A commit is tagged once.                                                *)

LEMMA NumbersAre ==
  ASSUME TypeInv
  PROVE  /\ Versions \subseteq Nat /\ own \subseteq Versions /\ head \in Nat
         /\ \A v \in Versions : tags[v] \in Nat
         /\ at \in {"qa", "tag", "release"} =>
               plan.sha \in 1..head /\ plan.version \in Versions /\ plan.sighted \in BOOLEAN
<1>1. Versions \subseteq Nat /\ 0..MaxCommit \subseteq Nat /\ Commits \subseteq Nat
  BY ReleaseAssumption DEF Versions, Commits
<1>2. own \subseteq Versions /\ head \in Commits /\ tags \in [Versions -> 0..MaxCommit]
  BY DEF TypeInv, TypeOK
<1>3. at \in {"qa", "tag", "release"} =>
         plan \in [sha : 1..head, version : Versions, approved : BOOLEAN, sighted : BOOLEAN]
  BY DEF TypeInv, TypeOK
<1> QED
  BY <1>1, <1>2, <1>3

LEMMA RetryOrder ==
  ASSUME TypeInv, OwnTagged, OrderInv, NEW k \in 1..MaxRow, Retry(k)
  PROVE  OrderInv'
<1> USE DEF github, db, tick, vars, Stop, Goto
<1> DEFINE t == rows[k].tag
<1>1. k \in DOMAIN rows /\ t \in Versions /\ rows[k].sha \in Commits
  BY RowsAre DEF Retry, Current, TypeInv, TypeOK, Row
<1>2. /\ own' = own \ Overtaken(t) /\ head' = head
      /\ tags' = tags \/ Released(t, rows[k].sha)
      /\ at' \notin {"qa", "tag", "release"}
  BY DEF Retry, RowDone
<1>3. \A u \in Versions : u # t \/ tags[u] # 0 => tags'[u] = tags[u]
  BY <1>1, <1>2, ReleasedKeeps
<1>4. \A v \in own' : v \in own /\ v \in Versions /\ tags'[v] = tags[v] /\ tags[v] # 0
  BY <1>2, <1>3, NumbersAre DEF OwnTagged
<1>5. tags'[t] \in Nat
  <2>1. tags[t] \in Nat /\ rows[k].sha \in Nat
    BY <1>1, NumbersAre, ReleaseAssumption DEF Commits
  <2>2. CASE tags' = tags
    BY <2>1, <2>2
  <2>3. CASE Released(t, rows[k].sha)
    <3>1. tags \in [Versions -> 0..MaxCommit]
      BY DEF TypeInv, TypeOK
    <3> HIDE DEF t
    <3>2. tags'[t] = IF tags[t] = 0 THEN rows[k].sha ELSE tags[t]
      BY <1>1, <2>3, <3>1 DEF Released
    <3> QED
      BY <2>1, <3>2
  <2> QED
    BY <1>2, <2>2, <2>3
<1>6. ASSUME NEW v \in own', NEW u \in Versions, v < u, tags'[u] # 0
      PROVE  tags'[v] <= tags'[u] /\ (u \in own' => tags'[v] < tags'[u])
  <2>1. CASE tags[u] # 0
    BY <1>3, <1>4, <1>6, <2>1 DEF OrderInv, Ordered
  <2>2. CASE tags[u] = 0
    <3>1. u = t /\ u \notin own'
      BY <1>3, <1>4, <1>6, <2>2
    <3>2. ~(tags[v] > tags'[u])
      BY <1>2, <1>4, <1>6, <3>1 DEF Overtaken
    <3> QED
      BY <1>1, <1>4, <1>5, <3>1, <3>2, NumbersAre
  <2> QED
    BY <2>1, <2>2
<1>7. Ordered'
  BY <1>6 DEF Ordered
<1> QED
  BY <1>2, <1>4, <1>7 DEF OrderInv

LEMMA ReleaseOrder ==
  ASSUME TypeInv, OwnTagged, OrderInv, CreateRelease
  PROVE  OrderInv'
<1> USE DEF github, db, tick, vars, Goto
<1> DEFINE t == plan.version
<1>1. at = "release" /\ t \in Versions /\ plan.sha \in 1..head
  BY NumbersAre DEF CreateRelease
<1>2. /\ own' = own /\ head' = head /\ (tags' = tags \/ Released(t, plan.sha))
      /\ at' \notin {"qa", "tag", "release"}
  BY DEF CreateRelease
<1>8. plan.sha \in Commits
  BY <1>1, ReleaseAssumption DEF TypeInv, TypeOK, Commits
<1>3. /\ \A u \in Versions : u # t \/ tags[u] # 0 => tags'[u] = tags[u]
      /\ tags[t] = 0 => tags'[t] \in {0, plan.sha}
  BY <1>1, <1>2, <1>8, ReleasedKeeps
<1>4. \A v \in own : v \in Versions /\ tags'[v] = tags[v] /\ tags[v] # 0
  BY <1>3, NumbersAre DEF OwnTagged
<1>6. ASSUME NEW v \in own, NEW u \in Versions, v < u, tags'[u] # 0
      PROVE  tags'[v] <= tags'[u] /\ (u \in own => tags'[v] < tags'[u])
  <2>1. CASE tags[u] # 0
    BY <1>3, <1>4, <1>6, <2>1 DEF OrderInv, Ordered
  <2>2. CASE tags[u] = 0
    BY <1>1, <1>3, <1>4, <1>6, <2>2 DEF OrderInv
  <2> QED
    BY <2>1, <2>2
<1>5. own' = own /\ head' = head /\ at' \notin {"qa", "tag", "release"}
  BY <1>2
<1>7. Ordered'
  BY <1>5, <1>6 DEF Ordered
<1>9. \A v \in own : tags'[v] <= head
  BY <1>4 DEF OrderInv
<1> QED
  BY <1>5, <1>7, <1>9 DEF OrderInv

LEMMA TagOrder ==
  ASSUME TypeInv, OwnTagged, OrderInv, CreateTag
  PROVE  OrderInv'
<1> USE DEF github, db, tick, vars, Goto
<1> DEFINE t == plan.version
<1>1. at = "tag" /\ t \in Versions /\ plan.sha \in 1..head /\ plan.sighted \in BOOLEAN
  BY NumbersAre DEF CreateTag
<1>2. /\ own' = IF plan.sighted THEN own \cup {t} ELSE own
      /\ head' = head /\ at' = "release" /\ plan' = plan /\ tags[t] = 0
      /\ \A u \in Versions : tags'[u] = IF u = t THEN plan.sha ELSE tags[u]
  BY <1>1 DEF CreateTag, TypeInv, TypeOK
<1>3. t \notin own /\ own \subseteq Versions
  BY <1>2, NumbersAre DEF OwnTagged
<1>4. Fits
  BY <1>1 DEF OrderInv
<1>5. ASSUME NEW v \in own', NEW u \in Versions, v < u, tags'[u] # 0
      PROVE  tags'[v] <= tags'[u] /\ (u \in own' => tags'[v] < tags'[u])
  <2>1. CASE v = t
    <3>1. plan.sighted
      BY <1>2, <1>3, <2>1
    <3>2. u # t /\ u \notin own /\ tags[u] # 0
      BY <1>1, <1>2, <1>3, <1>4, <1>5, <2>1, <3>1, NumbersAre DEF Fits
    <3> QED
      BY <1>1, <1>2, <1>4, <1>5, <2>1, <3>1, <3>2 DEF Fits
  <2>2. CASE v # t /\ u = t
    <3>1. v \in own /\ v \in Versions /\ tags'[v] = tags[v] /\ tags'[u] = plan.sha
      BY <1>2, <1>3, <2>2
    <3>2. plan.sighted
      BY <1>1, <1>4, <1>5, <2>2, <3>1, ReleaseAssumption DEF Fits, Versions
    <3> QED
      BY <1>1, <1>4, <2>2, <3>1, <3>2, NumbersAre DEF Fits
  <2>3. CASE v # t /\ u # t
    BY <1>2, <1>3, <1>5, <2>3 DEF OrderInv, Ordered
  <2> QED
    BY <2>1, <2>2, <2>3
<1>6. \A v \in own' : tags'[v] <= head
  BY <1>1, <1>2, <1>3 DEF OrderInv
<1>7. \A w \in own' : w < t => tags'[w] <= plan.sha
  <2> TAKE w \in own'
  <2> HAVE w < t
  <2>1. w \in own /\ w \in Versions /\ w # t /\ tags'[w] = tags[w]
    BY <1>1, <1>2, <1>3, NumbersAre
  <2>2. plan.sighted
    BY <1>1, <1>4, <2>1, ReleaseAssumption DEF Fits, Versions
  <2> QED
    BY <1>1, <1>4, <2>1, <2>2, NumbersAre DEF Fits
<1>8. Ordered'
  BY <1>5 DEF Ordered
<1> QED
  BY <1>2, <1>6, <1>7, <1>8 DEF OrderInv

LEMMA CollectOrder ==
  ASSUME TypeInv, OwnTagged, OrderInv, NEW sighted \in BOOLEAN, Collect(sighted)
  PROVE  OrderInv'
<1> USE DEF github, db, tick, vars
<1> DEFINE latest == Latest(sighted)
<1>1. /\ UNCHANGED <<head, tags, own>> /\ at' \in {"qa", "tag"}
      /\ plan'.sha = head /\ plan'.version = latest + 1 /\ plan'.sighted = sighted
      /\ EnoughCommits(latest)
  BY DEF Collect, Bump
<1>2. /\ ~sighted => latest = 0
      /\ sighted /\ latest = 0 => \A v \in Versions : tags[v] = 0
      /\ latest # 0 => /\ latest \in Versions /\ tags[latest] # 0
                       /\ \A w \in Versions : tags[w] # 0 => w <= latest
  BY LatestIs DEF TypeInv
<1> HIDE DEF latest
<1>3. CASE ~sighted
  BY <1>1, <1>2, <1>3 DEF OrderInv, Ordered, Fits
<1>4. CASE sighted /\ latest = 0
  <2>1. own = {} /\ \A v \in Versions : tags[v] = 0
    BY <1>2, <1>4, NumbersAre DEF OwnTagged
  <2> QED
    BY <1>1, <1>4, <2>1 DEF OrderInv, Ordered, Fits
<1>5. CASE sighted /\ latest # 0
  <2>1. tags[latest] < head
    BY <1>1, <1>2, <1>5, NumbersAre, ReleaseAssumption DEF EnoughCommits
  <2>2. \A w \in own : w < latest + 1 /\ tags[w] < head
    <3> TAKE w \in own
    <3>1. w \in Versions /\ tags[w] # 0 /\ w <= latest
      BY <1>2, <1>5, NumbersAre DEF OwnTagged
    <3>2. tags[w] <= tags[latest]
      BY <1>2, <1>5, <3>1, NumbersAre DEF OrderInv, Ordered
    <3> QED
      BY <1>2, <1>5, <2>1, <3>1, <3>2, NumbersAre
  <2>3. \A u \in Versions : latest + 1 < u => tags[u] = 0
    BY <1>2, <1>5, NumbersAre
  <2> QED
    BY <1>1, <1>5, <2>2, <2>3 DEF OrderInv, Ordered, Fits
<1> QED
  BY <1>3, <1>4, <1>5

LEMMA HandOrder ==
  ASSUME TypeInv, OwnTagged, OrderInv, NEW t \in Versions, TagByHand(t) \/ CleanUp(t)
  PROVE  OrderInv'
<1> USE DEF github, db, tick, vars
<1>1. /\ own' = own \ {t} /\ UNCHANGED <<head, at, plan>> /\ tags'[t] \in {0, head}
      /\ \A u \in Versions : u # t => tags'[u] = tags[u]
  BY DEF TagByHand, CleanUp, TypeInv, TypeOK
<1>2. \A v \in own' : v \in own /\ v \in Versions /\ v # t /\ tags'[v] = tags[v]
  BY <1>1, NumbersAre
<1>3. Ordered'
  <2> SUFFICES ASSUME NEW v \in own', NEW u \in Versions, v < u, tags'[u] # 0
               PROVE  tags'[v] <= tags'[u] /\ (u \in own' => tags'[v] < tags'[u])
    BY DEF Ordered
  <2>1. CASE u = t
    BY <1>1, <1>2, <2>1 DEF OrderInv
  <2>2. CASE u # t
    BY <1>1, <1>2, <2>2 DEF OrderInv, Ordered
  <2> QED
    BY <2>1, <2>2
<1>4. at \in {"qa", "tag"} => Fits'
  <2> HAVE at \in {"qa", "tag"}
  <2>1. Fits /\ plan.sha <= head
    BY NumbersAre DEF OrderInv
  <2> QED
    BY <1>1, <1>2, <2>1, NumbersAre DEF Fits
<1> QED
  BY <1>1, <1>2, <1>3, <1>4 DEF OrderInv

\* The steps that leave tags and history alone, and do not start a plan.
LEMMA QuietOrder ==
  ASSUME TypeInv, OrderInv, UNCHANGED <<tags, own>>, head <= head', head' \in Nat,
         \/ UNCHANGED <<at, plan>>
         \/ at = "qa" /\ at' = "tag" /\ UNCHANGED plan
         \/ at' \notin {"qa", "tag", "release"}
  PROVE  OrderInv'
<1>1. \A v \in own : tags[v] <= head'
  BY NumbersAre DEF OrderInv
<1>2. Ordered' /\ (Fits /\ UNCHANGED plan => Fits')
  BY DEF OrderInv, Ordered, Fits
<1> QED
  BY <1>1, <1>2 DEF OrderInv

LEMMA OrderStep ==
  ASSUME TypeInv, OwnTagged, OrderInv, [Next]_vars
  PROVE  OrderInv'
<1> USE DEF github, db, tick, vars, Stop, Goto
<1>1. head \in Nat /\ head <= head' /\ head' \in Nat
  <2>1. head' = head \/ head' = head + 1
    BY DEF Next, TickStep, Slack, People, Begin, SweepFails, Skip, QaPasses, CreateTag, CreateRelease,
           Dispatch, AwaitApproval, Retry, RecordRetry, Collect, NoTag, Persist, Consume, Throw,
           Restart, Approve, Expire, PauseUntil, Push, ReleaseByHand, TagByHand, CleanUp, RunEnds
  <2> QED
    BY <2>1, NumbersAre
<1>2. CASE QaPasses
  BY <1>1, <1>2, QuietOrder DEF QaPasses
<1>3. CASE Begin \/ SweepFails \/ Skip \/ AwaitApproval \/ Dispatch \/ NoTag \/ Persist \/ Consume
           \/ Throw \/ Restart \/ \E k \in 1..MaxRow : RecordRetry(k)
  <2>1. UNCHANGED <<tags, own>> /\ at' \notin {"qa", "tag", "release"}
    BY <1>3 DEF Begin, SweepFails, Skip, AwaitApproval, Dispatch, NoTag, Persist, Consume,
                Throw, Restart, RecordRetry, RowDone
  <2> QED
    BY <1>1, <2>1, QuietOrder
<1>4. CASE Slack \/ Push \/ (\E v \in Versions : ReleaseByHand(v)) \/ (\E k \in DOMAIN runs : RunEnds(k))
           \/ UNCHANGED vars
  <2>1. UNCHANGED <<tags, own, at, plan>>
    BY <1>4 DEF Slack, Approve, Expire, PauseUntil, Push, ReleaseByHand, RunEnds
  <2> QED
    BY <1>1, <2>1, QuietOrder
<1>5. CASE \/ \E k \in 1..MaxRow : Retry(k)
           \/ \E sighted \in BOOLEAN : Collect(sighted)
           \/ CreateTag \/ CreateRelease
           \/ \E v \in Versions : TagByHand(v) \/ CleanUp(v)
  BY <1>5, RetryOrder, CollectOrder, TagOrder, ReleaseOrder, HandOrder
<1> QED
  BY <1>2, <1>3, <1>4, <1>5 DEF Next, TickStep, People

\* A commit is tagged once: no crash, failed release or failed row makes a tick that can
\* list the tags give a second version to a commit the manager has tagged, unless a removed
\* tag of a higher version has come back at an older commit in between.
THEOREM TaggedAlwaysOnce == Spec => []TaggedOnce
<1>1. Init => OwnTagged /\ OrderInv
  BY DEF Init, OwnTagged, OrderInv, Ordered
<1>2. TypeInv /\ OwnTagged /\ OrderInv /\ [Next]_vars => OwnTagged' /\ OrderInv'
  BY OwnStep, OrderStep
<1>3. Spec => [](TypeInv /\ OwnTagged /\ OrderInv)
  BY <1>1, <1>2, InitType, StepType, PTL DEF Spec
<1>4. TypeInv /\ OwnTagged /\ OrderInv => TaggedOnce
  <2> SUFFICES ASSUME TypeInv, OwnTagged, OrderInv, NEW v \in own, NEW w \in own, v < w
               PROVE  tags[v] # tags[w]
    BY NumbersAre DEF TaggedOnce
  <2>1. tags[v] < tags[w]
    BY NumbersAre DEF OwnTagged, OrderInv, Ordered
  <2> QED
    BY <2>1, NumbersAre
<1> QED
  BY <1>3, <1>4, PTL
=============================================================================
