---------------------------- MODULE ServerProofs ----------------------------
(***************************************************************************)
(* What goes out once and what the server rests on, for every value of the *)
(* constants: any number of repositories, teams, alerts, days, migrations, *)
(* issues and runs.                                                        *)
(*                                                                         *)
(* Each of the machines has its own inductive invariant, IndInv of its     *)
(* module; here are, machine by machine, the three facts that it holds at  *)
(* the start, that every step keeps it, and that it gives what is claimed. *)
(* ServerInv puts them together: at any time one machine is at work.  What *)
(* ExecutionProofs shows of Execution holds here as well.                  *)
(*                                                                         *)
(* The maps of ConfigReload, the names of AlertIntake and the days of      *)
(* CostRollup are gone through one by one; UpTo, Recursion and RecursionIn *)
(* stand for the induction.                                                *)
(***************************************************************************)
EXTENDS Server, ExecutionProofs, FiniteSetTheorems, SequenceTheorems, TLAPS

-----------------------------------------------------------------------------
(* Numbers up to a bound.                                                  *)

\* Induction up to L: a set of numbers that has 0 and is closed under the next one is all of
\* 0..L.  Were m not in it, adding one would map the numbers of the set below m into
\* themselves, one to one and past 0; but they are finitely many.
LEMMA UpTo ==
  ASSUME NEW L \in Nat, NEW T \in SUBSET (0..L), 0 \in T, \A n \in T : n < L => n + 1 \in T
  PROVE  T = 0..L
<1> SUFFICES ASSUME NEW m \in 0..L, m \notin T
             PROVE  FALSE
  OBVIOUS
<1> DEFINE D == {n \in T : n < m}
           f == [n \in D |-> n + 1]
<1>1. IsFiniteSet(D)
  <2>1. IsFiniteSet(0..L)
    BY FS_Interval
  <2>2. D \in SUBSET (0..L)
    OBVIOUS
  <2> HIDE DEF D
  <2> QED
    BY <2>1, <2>2, FS_Subset
<1>2. \A n \in D : n + 1 \in D
  OBVIOUS
<1>3. f \in Injection(D, D)
  <2>1. f \in [D -> D]
    BY <1>2
  <2>2. \A n \in D : n \in Nat /\ f[n] = n + 1
    OBVIOUS
  <2>3. \A x, y \in D : f[x] = f[y] => x = y
    BY <2>2
  <2> HIDE DEF f, D
  <2> QED
    BY <2>1, <2>3 DEF Injection, IsInjective
<1>4. f \in Surjection(D, D)
  <2> HIDE DEF f, D
  <2> QED
    BY <1>1, <1>3, FS_Injection
<1>5. 0 \in D
  OBVIOUS
<1>6. PICK n \in D : f[n] = 0
  BY <1>4, <1>5 DEF Surjection
<1> QED
  BY <1>6

\* A function with these equations is there.
Unfolds(S, base, L, step) ==
  \E g \in [0..L -> S] : g[0] = base /\ \A n \in 1..L : g[n] = step[n][g[n - 1]]

\* A function that is defined by recursion from 0 up to L is there, and its values are in
\* the set that the base is in and the steps do not leave.
LEMMA Recursion ==
  ASSUME NEW S, NEW base \in S, NEW L \in Nat, NEW step \in [1..L -> [S -> S]]
  PROVE  Unfolds(S, base, L, step)
<1> DEFINE Good(n, g) == g[0] = base /\ \A k \in 1..n : g[k] = step[k][g[k - 1]]
           T == {n \in 0..L : \E g \in [0..n -> S] : Good(n, g)}
<1>1. 0 \in T
  <2> DEFINE g == [k \in 0..0 |-> base]
  <2>1. g \in [0..0 -> S] /\ Good(0, g)
    OBVIOUS
  <2>2. 0 \in 0..L
    OBVIOUS
  <2> HIDE DEF g, Good
  <2> QED
    BY <2>1, <2>2
<1>2. ASSUME NEW n \in T, n < L PROVE n + 1 \in T
  <2>1. PICK g \in [0..n -> S] : Good(n, g)
    OBVIOUS
  <2> DEFINE h == [k \in 0..(n + 1) |-> IF k = n + 1 THEN step[n + 1][g[n]] ELSE g[k]]
  <2>2. n \in Nat /\ n + 1 \in 1..L /\ n \in 0..n
    BY <1>2
  <2>3. step[n + 1][g[n]] \in S
    BY <2>2
  <2>4. h \in [0..(n + 1) -> S]
    BY <2>2, <2>3
  <2>5. h[0] = base
    BY <2>1, <2>2
  <2>6. ASSUME NEW k \in 1..(n + 1) PROVE h[k] = step[k][h[k - 1]]
    <3>1. CASE k = n + 1
      <4>1. k - 1 = n /\ k - 1 \in 0..(n + 1) /\ k - 1 # n + 1
        BY <2>2, <3>1
      <4> QED
        BY <2>2, <3>1, <4>1
    <3>2. CASE k # n + 1
      <4>1. k \in 1..n /\ k - 1 \in 0..n /\ k \in 0..(n + 1) /\ k - 1 \in 0..(n + 1) /\ k - 1 # n + 1
        BY <2>2, <3>2
      <4>2. g[k] = step[k][g[k - 1]]
        BY <2>1, <4>1
      <4> QED
        BY <3>2, <4>1, <4>2
    <3> QED
      BY <3>1, <3>2
  <2>7. Good(n + 1, h)
    BY <2>5, <2>6
  <2> HIDE DEF h, Good
  <2> QED
    BY <2>2, <2>4, <2>7
<1>3. T = 0..L
  <2> HIDE DEF T
  <2>1. T \in SUBSET (0..L)
    BY DEF T
  <2> QED
    BY <1>1, <1>2, <2>1, UpTo
<1>4. L \in T
  BY <1>3
<1> QED
  BY <1>4 DEF Unfolds

\* Whatever satisfies the equations of such a recursion stays in the set, too.
LEMMA RecursionIn ==
  ASSUME NEW S, NEW L \in Nat, NEW f, f[0] \in S,
         \A n \in 1..L : f[n - 1] \in S => f[n] \in S
  PROVE  \A n \in 0..L : f[n] \in S
<1> DEFINE T == {n \in 0..L : f[n] \in S}
<1>1. 0 \in T
  OBVIOUS
<1>2. ASSUME NEW n \in T, n < L PROVE n + 1 \in T
  <2>1. n + 1 \in 1..L /\ (n + 1) - 1 = n
    BY <1>2
  <2>2. f[n] \in S
    OBVIOUS
  <2> QED
    BY <2>1, <2>2
<1>3. T = 0..L
  <2> HIDE DEF T
  <2>1. T \in SUBSET (0..L)
    BY DEF T
  <2> QED
    BY <1>1, <1>2, <2>1, UpTo
<1> QED
  BY <1>3

-----------------------------------------------------------------------------
(* Approvals: board v1, row v2, at v3, told v4, acting v5, asker v6, paused v7,*)
(* repeating v8.                                                           *)

\* The cardinality that Approvals sees is the usual one.
LEMMA CardinalityOfAsk == \A S : Ask!Cardinality(S) = Cardinality(S)
  BY Zenon DEF Ask!Cardinality, Cardinality

\* A set whose elements are all the same has at most one.
LEMMA AtMostOne ==
  ASSUME NEW S, \A x, y \in S : x = y
  PROVE  Cardinality(S) <= 1
<1>1. CASE S = {}
  BY <1>1, FS_EmptySet
<1>2. CASE S # {}
  <2>1. PICK x : x \in S
    BY <1>2
  <2>2. S = {x}
    BY <2>1
  <2>3. Cardinality(S) = 1
    BY <2>2, FS_Singleton
  <2> QED
    BY <2>3
<1> QED
  BY <1>1, <1>2

\* Nothing is asked and no one acts at the start.
LEMMA ApprovalsBegin ==
  ASSUME ApprovalAssumption PROVE Ask!Init => Ask!IndInv
<1> SUFFICES ASSUME Ask!Init PROVE Ask!IndInv
  OBVIOUS
<1> USE DEF ApprovalAssumption, Ask!Init, Ask!Off, Ask!Free, Ask!Ids, Ask!Actions
<1>1. v1 \in [Issues -> [state : {"Backlog", "Icebox", "Canceled", "Other"}, idle : 0..2]]
  OBVIOUS
<1>2. v6 \in [Ask!Actions -> [step : {"off", "list", "icebox", "post"},
                             todo : SUBSET Issues, twice : SUBSET Issues]]
  OBVIOUS
<1>3. Ask!TypeOK
  BY <1>1, <1>2 DEF Ask!TypeOK
<1> QED
  BY <1>3 DEF Ask!IndInv, Ask!ActedOnce, Ask!Pending

\* Steps that leave the rows and the one who asks alone.
LEMMA ApprovalsOther ==
  ASSUME Ask!IndInv, Ask!TypeOK', UNCHANGED <<v2, v3, v6>>,
         v4' \subseteq v4, v5' \subseteq v5, v8' \subseteq v8
  PROVE  Ask!IndInv'
  BY DEF Ask!IndInv, Ask!ActedOnce, Ask!Pending, Ask!Free, Ask!Ids, Ask!Off, Ask!Actions

\* Of the pending requests of an issue for an action all but one are excused, and a row is
\* marked before it is carried out.
LEMMA ApprovalsSteps ==
  ASSUME ApprovalAssumption
  PROVE  Ask!IndInv /\ [Ask!Next]_(Ask!vars) => Ask!IndInv'
<1> SUFFICES ASSUME Ask!IndInv, [Ask!Next]_(Ask!vars)
             PROVE  Ask!IndInv'
  OBVIOUS
<1>t. Ask!TypeOK
  BY DEF Ask!IndInv
<1>1. CASE Ask!Begin
  <2>1. Ask!TypeOK'
    BY <1>1, <1>t DEF Ask!TypeOK, Ask!Begin
  <2> QED
    BY <2>1, <1>1, <1>t DEF Ask!IndInv, Ask!TypeOK, Ask!Begin, Ask!ActedOnce, Ask!Pending, Ask!Free
<1>2. CASE Ask!StartAsking
  <2>1. Ask!TypeOK'
    BY <1>2, <1>t DEF Ask!TypeOK, Ask!StartAsking, Ask!Off, Ask!Actions
  <2> QED
    BY <2>1, <1>2, <1>t DEF Ask!IndInv, Ask!TypeOK, Ask!StartAsking, Ask!ActedOnce, Ask!Pending, Ask!Off, Ask!Actions
<1>3. CASE Ask!ListStale
  <2>1. Ask!TypeOK'
    BY <1>3, <1>t DEF Ask!TypeOK, Ask!ListStale, Ask!Posting, Ask!Unasked, Ask!Actions
  <2> QED
    BY <2>1, <1>3, <1>t DEF Ask!IndInv, Ask!TypeOK, Ask!ListStale, Ask!Posting, Ask!Unasked, Ask!ActedOnce, Ask!Pending, Ask!Off, Ask!Actions
<1>4. CASE Ask!ListBacklog
  <2>1. Ask!TypeOK'
    BY <1>4, <1>t DEF Ask!TypeOK, Ask!ListBacklog, Ask!AbandonedIn, Ask!Actions
  <2> QED
    BY <2>1, <1>4, <1>t DEF Ask!IndInv, Ask!TypeOK, Ask!ListBacklog, Ask!ActedOnce, Ask!Pending, Ask!Off, Ask!Actions
<1>5. CASE Ask!ListIcebox
  <2>1. Ask!TypeOK'
    BY <1>5, <1>t DEF Ask!TypeOK, Ask!ListIcebox, Ask!AbandonedIn, Ask!Posting, Ask!Unasked, Ask!Actions
  <2> QED
    BY <2>1, <1>5, <1>t DEF Ask!IndInv, Ask!TypeOK, Ask!ListIcebox, Ask!AbandonedIn, Ask!Posting, Ask!Unasked, Ask!ActedOnce, Ask!Pending, Ask!Off, Ask!Actions
<1>6. ASSUME NEW r \in Ask!Ids, Ask!Expire(r) \/ Ask!Reject(r) PROVE Ask!IndInv'
  <2>1. Ask!Closed(r) /\ v4' = v4 \ {r} /\ UNCHANGED <<v1, v3, v5, v6, v7, v8>>
    BY <1>6 DEF Ask!Expire, Ask!Reject, Ask!Reads
  <2>2. Ask!TypeOK'
    BY <2>1, <1>t DEF Ask!TypeOK, Ask!Closed
  <2>3. v5 = {} /\ v8 = {}
    BY <1>6 DEF Ask!Expire, Ask!Reject, Ask!Reads
  <2> QED
    BY <2>1, <2>2, <2>3, <1>t DEF Ask!IndInv, Ask!TypeOK, Ask!Closed, Ask!ActedOnce, Ask!Pending, Ask!Free
<1>7. ASSUME NEW r \in Ask!Ids, Ask!Approve(r) PROVE Ask!IndInv'
  <2>1. v2[r].status = "pending" /\ v2[r] # Ask!Free
    BY <1>7 DEF Ask!IndInv, Ask!Approve, Ask!Reads, Ask!Free
  <2>2. v2[r] \in [status : {"pending", "approved"}, issue : Issues, action : Ask!Actions,
                   again : BOOLEAN, old : BOOLEAN, done : 0..2,
                   reaction : {"pending", "approved", "rejected"}]
    BY <2>1, <1>t DEF Ask!TypeOK
  <2>3. v2' = [v2 EXCEPT ![r] = [v2[r] EXCEPT !.status = "approved"]]
    BY <1>7 DEF Ask!Approve
  <2>4. Ask!TypeOK'
    BY <1>7, <1>t, <2>2, <2>3 DEF Ask!TypeOK, Ask!Approve, Ask!Reads
  <2> QED
    BY <2>1, <2>2, <2>3, <2>4, <1>7, <1>t DEF Ask!IndInv, Ask!TypeOK, Ask!Approve, Ask!Reads, Ask!ActedOnce, Ask!Pending, Ask!Free
<1>8. ASSUME NEW r \in Ask!Ids, Ask!StillPending(r) PROVE Ask!IndInv'
  BY <1>8, <1>t, ApprovalsOther DEF Ask!TypeOK, Ask!StillPending, Ask!Reads
<1>9. ASSUME NEW r \in Ask!Ids, NEW ok \in BOOLEAN, Ask!Act(r, ok) PROVE Ask!IndInv'
  <2>1. v2[r].status = "approved" /\ v2[r].done = 0 /\ v2[r] # Ask!Free
    BY <1>9 DEF Ask!IndInv, Ask!Act, Ask!Free
  <2>2. v2[r] \in [status : {"pending", "approved"}, issue : Issues, action : Ask!Actions,
                   again : BOOLEAN, old : BOOLEAN, done : 0..2,
                   reaction : {"pending", "approved", "rejected"}]
    BY <2>1, <1>t DEF Ask!TypeOK
  <2>3. UNCHANGED v2 \/ v2' = [v2 EXCEPT ![r] = [v2[r] EXCEPT !.done = 1]]
    BY <1>9, <2>1 DEF Ask!Act
  <2>4. v1' \in [Issues -> [state : {"Backlog", "Icebox", "Canceled", "Other"}, idle : 0..2]]
    BY <1>9, <1>t, <2>2 DEF Ask!Act, Ask!TypeOK, Ask!Carry, Ask!Touched, Ask!TargetState
  <2>5. Ask!TypeOK'
    BY <1>9, <1>t, <2>2, <2>3, <2>4 DEF Ask!TypeOK, Ask!Act
  <2>6. v2'[r].status = "approved" /\ v2'[r].done <= 1
    BY <2>1, <2>2, <2>3, <1>t DEF Ask!TypeOK
  <2>7. \A q \in Ask!Ids : q # r => v2'[q] = v2[q]
    BY <2>3, <1>t DEF Ask!TypeOK
  <2>8. v5' = {} /\ v8' \subseteq v8 \cup {r} /\ UNCHANGED <<v3, v4, v6>>
    BY <1>9 DEF Ask!Act
  <2>9. \A q \in Ask!Ids : v2'[q].status = "pending" => q # r /\ v2'[q] = v2[q]
    BY <2>6, <2>7
  <2>10. Ask!ActedOnce'
    BY <2>6, <2>7 DEF Ask!IndInv, Ask!ActedOnce
  <2>11. \A i \in Issues, a \in Ask!Actions : Ask!Pending(i, a)' \subseteq Ask!Pending(i, a)
    BY <2>9 DEF Ask!Pending
  <2>12. \A q \in v4 : q \in Ask!Ids /\ q # r /\ v2'[q] = v2[q]
    BY <2>1, <2>7, <1>t DEF Ask!IndInv, Ask!TypeOK
  <2>13. v3 = "resolve"
    BY <1>9 DEF Ask!IndInv, Ask!Act
  <2>14. \A q \in v8' : v2'[q].status = "approved"
    BY <2>6, <2>7, <2>8, <1>t DEF Ask!IndInv, Ask!TypeOK
  <2> QED
    BY <2>5, <2>8, <2>9, <2>10, <2>11, <2>12, <2>13, <2>14 DEF Ask!IndInv, Ask!Pending
<1>10. ASSUME NEW a \in Ask!Actions, Ask!EndAsking(a) PROVE Ask!IndInv'
  <2>1. Ask!TypeOK'
    BY <1>10, <1>t DEF Ask!TypeOK, Ask!EndAsking, Ask!Off, Ask!Actions
  <2> QED
    BY <2>1, <1>10, <1>t DEF Ask!IndInv, Ask!TypeOK, Ask!EndAsking, Ask!ActedOnce, Ask!Pending, Ask!Off, Ask!Actions
<1>11. ASSUME NEW a \in Ask!Actions, NEW i \in Issues, Ask!Asked(a, i), Ask!TypeOK',
              v6[a].step = "post", i \in v6[a].todo
       PROVE  /\ \A b \in Ask!Actions : v6'[b].todo \subseteq v6[b].todo /\ v6'[b].step = v6[b].step
              /\ i \notin v6[a].twice => i \notin v6'[a].todo
              /\ v3 = "ask" /\ v4 = {} /\ v5 = {} /\ v8 = {}
  BY <1>11, <1>t DEF Ask!Asked, Ask!TypeOK, Ask!IndInv
<1>12. ASSUME NEW a \in Ask!Actions, NEW i \in Issues, Ask!Asked(a, i), i \in v6[a].todo
       PROVE  v6' \in [Ask!Actions -> [step : {"off", "list", "icebox", "post"},
                                      todo : SUBSET Issues, twice : SUBSET Issues]]
  BY <1>12, <1>t DEF Ask!Asked, Ask!TypeOK
<1>13. ASSUME NEW a \in Ask!Actions, NEW i \in Issues, Ask!NotAsked(a, i) PROVE Ask!IndInv'
  <2>1. Ask!TypeOK'
    BY <1>13, <1>12, <1>t DEF Ask!TypeOK, Ask!NotAsked
  <2> QED
    BY <2>1, <1>11, <1>13 DEF Ask!IndInv, Ask!NotAsked, Ask!ActedOnce, Ask!Pending
<1>14. ASSUME NEW a \in Ask!Actions, NEW i \in Issues, NEW r \in Ask!Ids, Ask!Ask(a, i, r)
       PROVE  Ask!IndInv'
  <2> DEFINE new == [status |-> "pending", issue |-> i, action |-> a,
                     again |-> i \in v6[a].twice, old |-> FALSE,
                     done |-> 0, reaction |-> "pending"]
  <2>1. v2' = [v2 EXCEPT ![r] = new] /\ UNCHANGED <<v1, v3, v4, v5, v7, v8>>
    BY <1>14 DEF Ask!Ask
  <2>2. new \in [status : {"pending", "approved"}, issue : Issues, action : Ask!Actions,
                 again : BOOLEAN, old : BOOLEAN, done : 0..2,
                 reaction : {"pending", "approved", "rejected"}]
    OBVIOUS
  <2> HIDE DEF new
  <2>3. Ask!TypeOK'
    BY <2>1, <2>2, <1>12, <1>14, <1>t DEF Ask!TypeOK, Ask!Ask
  <2>4. /\ \A b \in Ask!Actions : v6'[b].todo \subseteq v6[b].todo /\ v6'[b].step = v6[b].step
        /\ i \notin v6[a].twice => i \notin v6'[a].todo
        /\ v3 = "ask" /\ v4 = {} /\ v5 = {} /\ v8 = {}
    BY <2>3, <1>11, <1>14 DEF Ask!Ask
  <2>5. /\ v2'[r].status = "pending" /\ v2'[r].issue = i /\ v2'[r].action = a
        /\ v2'[r].again = (i \in v6[a].twice) /\ v2'[r].done = 0
    BY <2>1, <1>t DEF new, Ask!TypeOK
  <2>6. \A q \in Ask!Ids : q # r => v2'[q] = v2[q]
    BY <2>1, <1>t DEF Ask!TypeOK
  <2>7. \A j \in Issues, b \in Ask!Actions :
           Ask!Pending(j, b)' = IF j = i /\ b = a THEN Ask!Pending(i, a) \cup {r}
                                ELSE Ask!Pending(j, b)
    <3>1. v2[r].status # "pending"
      BY <1>14 DEF Ask!Ask, Ask!Unread
    <3> QED
      BY <2>5, <2>6, <3>1 DEF Ask!Pending
  <2>8. r \notin Ask!Pending(i, a)
    BY <1>14 DEF Ask!Ask, Ask!Unread, Ask!Pending
  <2>9. \A q \in Ask!Pending(i, a) : v2[q].again /\ v2'[q] = v2[q]
    BY <2>6, <2>8, <1>14 DEF Ask!IndInv, Ask!Ask, Ask!Pending
  <2>10. \A j \in Issues, b \in Ask!Actions : \A q \in Ask!Pending(j, b) : v2'[q] = v2[q]
    <3>1. v2[r].status # "pending"
      BY <1>14 DEF Ask!Ask, Ask!Unread
    <3> QED
      BY <2>6, <3>1 DEF Ask!Pending
  <2>11. \A b \in Ask!Actions : v6'[b].step = "post" =>
           \A j \in v6'[b].todo : \A q \in Ask!Pending(j, b)' : v2'[q].again
    <3> SUFFICES ASSUME NEW b \in Ask!Actions, v6'[b].step = "post", NEW j \in v6'[b].todo,
                        NEW q \in Ask!Pending(j, b)'
                 PROVE  v2'[q].again
      OBVIOUS
    <3>1. j \in v6[b].todo /\ v6[b].step = "post" /\ j \in Issues
      BY <2>4, <1>t DEF Ask!TypeOK
    <3>2. CASE q \in Ask!Pending(j, b)
      BY <3>1, <3>2, <2>10 DEF Ask!IndInv
    <3>3. CASE q \notin Ask!Pending(j, b)
      BY <3>1, <3>3, <2>4, <2>5, <2>7
    <3> QED
      BY <3>2, <3>3
  <2>12. \A j \in Issues, b \in Ask!Actions : \A q, s \in Ask!Pending(j, b)' :
           v2'[q].again \/ v2'[s].again \/ q = s
    <3> SUFFICES ASSUME NEW j \in Issues, NEW b \in Ask!Actions,
                        NEW q \in Ask!Pending(j, b)', NEW s \in Ask!Pending(j, b)'
                 PROVE  v2'[q].again \/ v2'[s].again \/ q = s
      OBVIOUS
    <3>1. CASE q \in Ask!Pending(j, b) /\ s \in Ask!Pending(j, b)
      BY <3>1, <2>10 DEF Ask!IndInv
    <3>2. CASE ~(q \in Ask!Pending(j, b) /\ s \in Ask!Pending(j, b))
      BY <3>2, <2>7, <2>9
    <3> QED
      BY <3>1, <3>2
  <2>13. Ask!ActedOnce'
    BY <2>5, <2>6 DEF Ask!IndInv, Ask!ActedOnce
  <2>14. \A q \in Ask!Ids : v2'[q].status = "pending" => v2'[q].done = 0
    BY <2>5, <2>6 DEF Ask!IndInv
  <2>15. v3' = "ask" /\ v4' = {} /\ v5' = {} /\ v8' = {}
    BY <2>1, <2>4
  <2> QED
    BY <2>3, <2>11, <2>12, <2>13, <2>14, <2>15 DEF Ask!IndInv
<1>15. ASSUME NEW text, Ask!SetPmPaused(text) PROVE Ask!IndInv'
  BY <1>15, <1>t, ApprovalsOther DEF Ask!TypeOK, Ask!SetPmPaused
<1>16. ASSUME NEW text, NEW i \in Issues, Ask!Command(text, i) PROVE Ask!IndInv'
  <2>1. Ask!TypeOK'
    BY <1>16, <1>t DEF Ask!TypeOK, Ask!Command, Ask!Touched
  <2> QED
    BY <2>1, <1>16, ApprovalsOther DEF Ask!Command
<1>17. ASSUME NEW r \in Ask!Ids, v2[r].status = "pending", NEW w, w = v2[r],
              NEW s \in {"pending", "approved", "rejected"},
              v2' = [v2 EXCEPT ![r] = [w EXCEPT !.reaction = s]]
              \/ v2' = [v2 EXCEPT ![r] = [w EXCEPT !.old = TRUE]],
              UNCHANGED <<v1, v3, v4, v5, v6, v7, v8>>
       PROVE  Ask!IndInv'
  <2>1. w \in [status : {"pending", "approved"}, issue : Issues, action : Ask!Actions,
               again : BOOLEAN, old : BOOLEAN, done : 0..2,
               reaction : {"pending", "approved", "rejected"}]
    BY <1>17, <1>t DEF Ask!TypeOK, Ask!Free
  <2>2. Ask!TypeOK'
    <3>1. PICK u : u \in [status : {"pending", "approved"}, issue : Issues, action : Ask!Actions,
                         again : BOOLEAN, old : BOOLEAN, done : 0..2,
                         reaction : {"pending", "approved", "rejected"}] /\ v2' = [v2 EXCEPT ![r] = u]
      BY <2>1, <1>17
    <3> QED
      BY <3>1, <1>17, <1>t DEF Ask!TypeOK
  <2>3. /\ v2'[r].status = w.status /\ v2'[r].issue = w.issue /\ v2'[r].action = w.action
        /\ v2'[r].again = w.again /\ v2'[r].done = w.done
    BY <2>1, <1>17, <1>t DEF Ask!TypeOK
  <2>4. \A q \in Ask!Ids : q # r => v2'[q] = v2[q]
    BY <1>17, <1>t DEF Ask!TypeOK
  <2>5. \A q \in Ask!Ids : /\ v2'[q].status = v2[q].status /\ v2'[q].issue = v2[q].issue
                           /\ v2'[q].action = v2[q].action
                           /\ v2'[q].again = v2[q].again /\ v2'[q].done = v2[q].done
    BY <2>3, <2>4, <1>17
  <2>6. \A j \in Issues, b \in Ask!Actions : Ask!Pending(j, b)' = Ask!Pending(j, b)
    BY <2>5 DEF Ask!Pending
  <2>7. \A j \in Issues, b \in Ask!Actions : Ask!Pending(j, b) \subseteq Ask!Ids
    BY DEF Ask!Pending
  <2>8. Ask!ActedOnce'
    BY <2>4, <2>5, <1>17 DEF Ask!IndInv, Ask!ActedOnce, Ask!Free
  <2>9. v4 \subseteq Ask!Ids /\ v5 \subseteq Ask!Ids /\ v8 \subseteq Ask!Ids
    BY <1>t DEF Ask!TypeOK
  <2>10. UNCHANGED <<v3, v4, v5, v6, v8>>
    BY <1>17
  <2>11. \A a \in Ask!Actions : v6[a].step = "post" =>
            \A i \in v6[a].todo : \A q \in Ask!Pending(i, a)' : v2'[q].again
    <3> SUFFICES ASSUME NEW a \in Ask!Actions, v6[a].step = "post", NEW i \in v6[a].todo
                 PROVE  \A q \in Ask!Pending(i, a)' : v2'[q].again
      OBVIOUS
    <3>1. i \in Issues
      BY <1>t DEF Ask!TypeOK
    <3> QED
      BY <3>1, <2>5, <2>6, <2>7 DEF Ask!IndInv
  <2>12. \A i \in Issues, a \in Ask!Actions : \A p, q \in Ask!Pending(i, a)' :
            v2'[p].again \/ v2'[q].again \/ p = q
    BY <2>5, <2>6, <2>7 DEF Ask!IndInv
  <2> QED
    BY <2>2, <2>5, <2>8, <2>9, <2>10, <2>11, <2>12 DEF Ask!IndInv
<1>18. ASSUME NEW r \in Ask!Ids, NEW s \in {"pending", "approved", "rejected"},
              Ask!React(r, s) \/ Ask!GrowOld(r)
       PROVE  Ask!IndInv'
  BY <1>17, <1>18 DEF Ask!React, Ask!GrowOld
<1>19. ASSUME NEW i \in Issues, Ask!LieIdle(i) PROVE Ask!IndInv'
  <2>1. Ask!TypeOK'
    BY <1>19, <1>t DEF Ask!TypeOK, Ask!LieIdle
  <2> QED
    BY <2>1, <1>19, ApprovalsOther DEF Ask!LieIdle
<1>20. ASSUME NEW i \in Issues, NEW s \in {"Backlog", "Icebox", "Other"}, Ask!MoveByPeople(i, s)
       PROVE Ask!IndInv'
  <2>1. Ask!TypeOK'
    BY <1>20, <1>t DEF Ask!TypeOK, Ask!MoveByPeople, Ask!Touched
  <2> QED
    BY <2>1, <1>20, ApprovalsOther DEF Ask!MoveByPeople
<1>21. CASE Ask!Restart
  <2>1. Ask!TypeOK'
    BY <1>21, <1>t DEF Ask!TypeOK, Ask!Restart, Ask!Off
  <2> QED
    BY <2>1, <1>21 DEF Ask!IndInv, Ask!Restart, Ask!Off, Ask!ActedOnce, Ask!Pending
<1>22. ASSUME NEW r \in Ask!Ids, Ask!Repeat(r) PROVE Ask!IndInv'
  <2>1. v2[r].status = "approved" /\ v2[r] # Ask!Free
    BY <1>22 DEF Ask!IndInv, Ask!Repeat, Ask!Free
  <2>2. v2[r].issue \in Issues /\ v2[r].action \in Ask!Actions
    BY <2>1, <1>t DEF Ask!TypeOK
  <2>3. v1' \in [Issues -> [state : {"Backlog", "Icebox", "Canceled", "Other"}, idle : 0..2]]
    BY <1>22, <1>t, <2>2 DEF Ask!Repeat, Ask!TypeOK, Ask!Carry, Ask!Touched, Ask!TargetState
  <2>4. v8' \subseteq v8 /\ UNCHANGED <<v2, v3, v4, v5, v6, v7>>
    BY <1>22 DEF Ask!Repeat
  <2>5. Ask!TypeOK'
    BY <1>t, <2>3, <2>4 DEF Ask!TypeOK
  <2> QED
    BY <2>4, <2>5, ApprovalsOther
<1>23. CASE UNCHANGED Ask!vars
  BY <1>23, <1>t, ApprovalsOther DEF Ask!TypeOK, Ask!vars
<1> QED
  BY <1>1, <1>2, <1>3, <1>4, <1>5, <1>6, <1>7, <1>8, <1>9, <1>10, <1>13, <1>14, <1>15, <1>16,
     <1>18, <1>19, <1>20, <1>21, <1>22, <1>23 DEF Ask!Next, Ask!TickStep, Ask!Environment

\* So no issue is asked about twice for an action, and none acted on twice.
LEMMA ApprovalsShow ==
  ASSUME ApprovalAssumption
  PROVE  Ask!IndInv => Ask!AskedOnce /\ Ask!ActedOnce
<1> SUFFICES ASSUME Ask!IndInv PROVE Ask!AskedOnce
  BY DEF Ask!IndInv
<1>1. ASSUME NEW i \in Issues, NEW a \in Ask!Actions
      PROVE  Ask!Cardinality({r \in Ask!Pending(i, a) : ~v2[r].again}) <= 1
  <2>1. \A q, r \in {r \in Ask!Pending(i, a) : ~v2[r].again} : q = r
    BY DEF Ask!IndInv
  <2>2. Cardinality({r \in Ask!Pending(i, a) : ~v2[r].again}) <= 1
    BY <2>1, AtMostOne
  <2> QED
    BY <2>2, CardinalityOfAsk
<1> QED
  BY <1>1, Zenon DEF Ask!AskedOnce

-----------------------------------------------------------------------------
(* BudgetAlerts: tier v1, claimed v2, posted v3, due v4, posting v5, marred v6.*)

\* No alert is claimed at the start.
LEMMA BudgetBegins == Budget!Init => Budget!IndInv
  BY DEF Budget!Init, Budget!IndInv, Budget!TypeOK, Budget!ClaimsAnnounced

\* A threshold is claimed by the tick that goes on to post it; a claim is left without
\* a post only by a failure or a crash that marks it.
LEMMA BudgetSteps == Budget!IndInv /\ [Budget!Next]_(Budget!vars) => Budget!IndInv'
<1> SUFFICES ASSUME Budget!IndInv, [Budget!Next]_(Budget!vars)
             PROVE  Budget!IndInv'
  OBVIOUS
<1> USE DEF Budget!IndInv, Budget!TypeOK, Budget!ClaimsAnnounced
<1>1. ASSUME NEW t \in Ticks, Budget!Fire(t) PROVE Budget!IndInv'
  BY <1>1 DEF Budget!Fire
<1>2. ASSUME NEW t \in Ticks, Budget!Post(t) PROVE Budget!IndInv'
  BY <1>2 DEF Budget!Post
<1>3. ASSUME NEW t \in Ticks, NEW a \in Budget!Alerts, Budget!Claim(t, a)
      PROVE  Budget!IndInv'
  BY <1>3 DEF Budget!Claim
<1>4. ASSUME NEW t \in Ticks, NEW a \in Budget!Alerts, Budget!ClaimFails(t, a)
      PROVE  Budget!IndInv'
  BY <1>4 DEF Budget!ClaimFails
<1>5. ASSUME NEW t \in Ticks, NEW shown \in BOOLEAN, NEW rolledBack \in BOOLEAN,
             Budget!PostFails(t, shown, rolledBack)
      PROVE  Budget!IndInv'
  BY <1>5 DEF Budget!PostFails
<1>6. ASSUME NEW t \in Ticks, Budget!Crash(t) PROVE Budget!IndInv'
  BY <1>6 DEF Budget!Crash
<1>7. ASSUME NEW s \in Scopes, Budget!Spend(s) PROVE Budget!IndInv'
  BY <1>7 DEF Budget!Spend
<1>8. CASE Budget!Midnight
  BY <1>8 DEF Budget!Midnight
<1>9. CASE UNCHANGED Budget!vars
  BY <1>9 DEF Budget!vars
<1> QED
  BY <1>1, <1>2, <1>3, <1>4, <1>5, <1>6, <1>7, <1>8, <1>9
     DEF Budget!Next, Budget!TickStep

\* So what is claimed was announced.
LEMMA BudgetShows == Budget!IndInv => Budget!ClaimsAnnounced
  BY DEF Budget!IndInv

-----------------------------------------------------------------------------
(* Bootstrap: attempt v1, step v2, opts v3, opened v4, secretOf v5,        *)
(* redirects v6, creds v7, hooks v8, env v9, compose v10, spoiled v11.     *)

\* No attempt was made at the start.
LEMMA SetupBegins ==
  ASSUME AttemptAssumption PROVE Onboarding!Init => Onboarding!IndInv
  BY DEF AttemptAssumption, Onboarding!Init, Onboarding!IndInv, Onboarding!Apps, Onboarding!SetupWorks, Onboarding!None

\* The files on the disk are those of the attempt that wrote them last, and the
\* secrets are the ones that the other side was told.
LEMMA SetupSteps ==
  ASSUME AttemptAssumption
  PROVE  Onboarding!IndInv /\ [Onboarding!Next]_(Onboarding!vars) => Onboarding!IndInv'
<1> SUFFICES ASSUME Onboarding!IndInv, [Onboarding!Next]_(Onboarding!vars)
             PROVE  Onboarding!IndInv'
  OBVIOUS
<1> USE DEF AttemptAssumption, Onboarding!IndInv, Onboarding!Apps, Onboarding!SetupWorks, Onboarding!EnvMatches, Onboarding!None, Onboarding!To, Onboarding!remote, Onboarding!disk, Onboarding!Attempts
<1>1. ASSUME NEW o \in Onboarding!Options, Onboarding!Begin(o) PROVE Onboarding!IndInv'
  BY <1>1 DEF Onboarding!Begin
<1>2. ASSUME NEW a \in Onboarding!Attempts, Onboarding!SkipApp(a) PROVE Onboarding!IndInv'
  BY <1>2 DEF Onboarding!SkipApp
<1>3. ASSUME NEW a \in Onboarding!Attempts, Onboarding!CreateApp(a) PROVE Onboarding!IndInv'
  BY <1>3 DEF Onboarding!CreateApp
<1>4. ASSUME NEW a \in Onboarding!Attempts, Onboarding!Callback(a) PROVE Onboarding!IndInv'
  BY <1>4 DEF Onboarding!Callback
<1>5. ASSUME NEW a \in Onboarding!Attempts, Onboarding!PasteSecret(a) PROVE Onboarding!IndInv'
  BY <1>5 DEF Onboarding!PasteSecret
<1>6. CASE Onboarding!Exit
  BY <1>6 DEF Onboarding!Exit
<1>7. CASE Onboarding!Preflight
  BY <1>7 DEF Onboarding!Preflight
<1>8. CASE Onboarding!OpenBrowser
  BY <1>8 DEF Onboarding!OpenBrowser
<1>9. CASE Onboarding!Exchange
  BY <1>9 DEF Onboarding!Exchange
<1>10. CASE Onboarding!TypeCredentials
  BY <1>10 DEF Onboarding!TypeCredentials
<1>11. CASE Onboarding!SkipLinear
  BY <1>11 DEF Onboarding!SkipLinear
<1>12. CASE Onboarding!RegisterLinearWebhook
  BY <1>12 DEF Onboarding!RegisterLinearWebhook
<1>13. ASSUME NEW b \in BOOLEAN, Onboarding!RegisterFails(b) PROVE Onboarding!IndInv'
  BY <1>13 DEF Onboarding!RegisterFails
<1>14. CASE Onboarding!GenerateEnvFile
  BY <1>14 DEF Onboarding!GenerateEnvFile
<1>15. CASE Onboarding!EnvFileLost
  BY <1>15 DEF Onboarding!EnvFileLost
<1>16. CASE Onboarding!GenerateDockerCompose
  BY <1>16 DEF Onboarding!GenerateDockerCompose
<1>17. CASE Onboarding!Finish
  BY <1>17 DEF Onboarding!Finish
<1>18. CASE UNCHANGED Onboarding!vars
  BY <1>18 DEF Onboarding!vars
<1> QED
  BY <1>1, <1>2, <1>3, <1>4, <1>5, <1>6, <1>7, <1>8, <1>9, <1>10, <1>11, <1>12, <1>13,
     <1>14, <1>15, <1>16, <1>17, <1>18
     DEF Onboarding!Next

\* So a server that was set up to the end works, unless an attempt spoiled it.
LEMMA SetupShows == Onboarding!IndInv => Onboarding!SetupWorks
  BY DEF Onboarding!IndInv

-----------------------------------------------------------------------------
(* Migrator: release v1, phase v2, at v3, statement v4, effects v5,        *)
(* recorded v6.                                                            *)

\* No file is applied at the start.
LEMMA DbBegins ==
  ASSUME SchemaAssumption PROVE Db!Init => Db!IndInv
  BY DEF SchemaAssumption, Db!Init, Db!IndInv, Db!TypeOK, Db!ServingMigrated, Db!Files

\* What is recorded was applied to its end, and the files behind the current one
\* are recorded.
LEMMA DbSteps ==
  ASSUME SchemaAssumption PROVE Db!IndInv /\ [Db!Next]_(Db!vars) => Db!IndInv'
<1> SUFFICES ASSUME Db!IndInv, [Db!Next]_(Db!vars)
             PROVE  Db!IndInv'
  OBVIOUS
<1> USE DEF SchemaAssumption, Db!IndInv, Db!TypeOK, Db!ServingMigrated, Db!Files, Db!Applied, Db!NameIn
<1>1. CASE Db!Boot
  BY <1>1 DEF Db!Boot
<1>2. CASE Db!RenameRecords
  <2>1. v6' \subseteq Db!Files \X {"old", "new"} /\ \A n \in v6' : \E q \in v6 : n[1] = q[1]
    BY <1>2 DEF Db!RenameRecords, Db!WithNewNames
  <2>2. Db!TypeOK' /\ \A n \in v6' : v5[n[1]] = Statements
    BY <1>2, <2>1 DEF Db!RenameRecords
  <2> QED
    BY <1>2, <2>2 DEF Db!RenameRecords
<1>3. CASE Db!Skip
  BY <1>3 DEF Db!Skip
<1>4. CASE Db!RunStatement
  BY <1>4 DEF Db!RunStatement
<1>5. CASE Db!RunFile
  BY <1>5 DEF Db!RunFile
<1>6. CASE Db!Record
  BY <1>6 DEF Db!Record, Db!Complete
<1>7. CASE Db!Serve
  BY <1>7 DEF Db!Serve
<1>8. CASE Db!Down
  BY <1>8 DEF Db!Down
<1>9. ASSUME NEW r \in {"old", "new"}, Db!Install(r) PROVE Db!IndInv'
  BY <1>9 DEF Db!Install
<1>10. ASSUME NEW S \in SUBSET Renamed, Db!RenamesCutOff(S) PROVE Db!IndInv'
  BY <1>10 DEF Db!RenamesCutOff, Db!WithNewNames
<1>11. CASE UNCHANGED Db!vars
  BY <1>11 DEF Db!vars
<1> QED
  BY <1>1, <1>2, <1>3, <1>4, <1>5, <1>6, <1>7, <1>8, <1>9, <1>10, <1>11 DEF Db!Next

\* So the server serves on a schema that is whole.
LEMMA DbShows == Db!IndInv => Db!ServingMigrated
  BY DEF Db!IndInv

-----------------------------------------------------------------------------
(* Tunnel: daemon v1, mode v2, child v3, timer v4, restartCount v5,        *)
(* shuttingDown v6, awaited v7, held v8, listened v9.                      *)

\* No tunnel runs at the start.
LEMMA TunnelBegins == Public!Init => Public!IndInv
  BY DEF Public!Init, Public!IndInv

\* The search for a URL ends before the server can be stopped, and the stop of the manager
\* that is held ends its child and its timer.
LEMMA TunnelSteps == Public!IndInv /\ [Public!Next]_(Public!vars) => Public!IndInv'
<1> SUFFICES ASSUME Public!IndInv, [Public!Next]_(Public!vars)
             PROVE  Public!IndInv'
  OBVIOUS
<1> USE DEF Public!IndInv
<1>1. CASE Public!Start
  BY <1>1 DEF Public!Start
<1>2. CASE Public!StartMissing
  BY <1>2 DEF Public!StartMissing
<1>3. ASSUME NEW w \in {"start", "restart"}, Public!UrlSeen(w) PROVE Public!IndInv'
  BY <1>3 DEF Public!UrlSeen, Public!Alive
<1>4. ASSUME NEW w \in {"start", "restart"}, Public!UrlTimeout(w) PROVE Public!IndInv'
  BY <1>4 DEF Public!UrlTimeout, Public!Alive, Public!EmitError
<1>5. CASE Public!ChildExits
  BY <1>5 DEF Public!ChildExits, Public!EmitError, Public!Alive
<1>6. CASE Public!TimerFires
  BY <1>6 DEF Public!TimerFires, Public!Alive
<1>7. CASE Public!RestartMissing
  BY <1>7 DEF Public!RestartMissing, Public!EmitError, Public!Alive
<1>8. CASE Public!Shutdown
  BY <1>8 DEF Public!Shutdown, Public!Stop
<1>9. ASSUME NEW again \in BOOLEAN, Public!Stopped(again) PROVE Public!IndInv'
  BY <1>9 DEF Public!Stopped
<1>10. CASE Public!Exit
  BY <1>10 DEF Public!Exit
<1>11. CASE Public!Killed
  BY <1>11 DEF Public!Killed, Public!Alive
<1>12. CASE UNCHANGED Public!vars
  BY <1>12 DEF Public!vars
<1> QED
  BY <1>1, <1>2, <1>3, <1>4, <1>5, <1>6, <1>7, <1>8, <1>9, <1>10, <1>11, <1>12
     DEF Public!Next

\* So the stop is final.
LEMMA TunnelShows == Public!IndInv => Public!StopIsFinal
  BY DEF Public!IndInv, Public!StopIsFinal

-----------------------------------------------------------------------------
(* ConfigReload: file v1, readable v2, watching v3, pending v4, current v5,*)
(* live v6, missed v7, passed v8.                                          *)

\* An order of the entries has each of them once.
LEMMA OrderIs ==
  ASSUME ConfigAssumption, NEW S \in SUBSET Urls, NEW order \in Config!SetToSeqs(S)
  PROVE  /\ Len(order) \in Nat /\ order \in [1..Len(order) -> S]
         /\ \A m, n \in 1..Len(order) : order[m] = order[n] => m = n
         /\ \A u \in S : \E n \in 1..Len(order) : order[n] = u
<1> DEFINE c == Cardinality(S)
<1>1. IsFiniteSet(S) /\ c \in Nat
  BY FS_Subset, FS_CardinalityType DEF ConfigAssumption
<1>2. \A T : Config!Cardinality(T) = Cardinality(T)
  BY Zenon DEF Config!Cardinality, Cardinality
<1>3. order \in [1..c -> S] /\ \A m, n \in 1..c : m # n => order[m] # order[n]
  BY <1>2 DEF Config!SetToSeqs
<1> HIDE DEF c
<1>4. order \in Seq(S) /\ Len(order) = c
  BY <1>1, <1>3
<1>5. order \in Injection(1..c, S)
  BY <1>3 DEF Injection, IsInjective
<1>6. Cardinality(1..c) = c
  BY <1>1, FS_Interval
<1>7. order \in Surjection(1..c, S)
  <2>1. c = Cardinality(S)
    BY DEF c
  <2> QED
    BY <1>1, <1>5, <1>6, <2>1, FS_Injection
<1> QED
  BY <1>1, <1>3, <1>4, <1>7 DEF Surjection

\* The entries of a file have keys and values of the map.
LEMMA ConfigTypes ==
  ASSUME NEW f \in Config!Files
  PROVE  /\ Config!Listed(f) \in SUBSET Urls
         /\ \A u \in Urls : Config!KeyOf(u, f) \in Config!Keys /\ Config!Entry(u, f) \in Config!Maps
  BY DEF Config!Files, Config!Entries, Config!Absent, Config!Listed, Config!KeyOf, Config!Keys,
         Config!Entry, Config!Maps

\* What a map of the file f has at a key.
Wanted(f, k) ==
  IF \E u \in Config!Listed(f) : Config!KeyOf(u, f) = k
  THEN Config!Entry(CHOOSE u \in Config!Listed(f) : Config!KeyOf(u, f) = k, f)
  ELSE Config!Nobody

\* Where no two entries have the same key, an entry is wanted at its own.
LEMMA OwnerFound ==
  ASSUME NEW f, ~Config!Passes(f, f), NEW u \in Config!Listed(f)
  PROVE  Wanted(f, Config!KeyOf(u, f)) = Config!Entry(u, f)
<1> DEFINE w == CHOOSE v \in Config!Listed(f) : Config!KeyOf(v, f) = Config!KeyOf(u, f)
<1>1. w \in Config!Listed(f) /\ Config!KeyOf(w, f) = Config!KeyOf(u, f)
  OBVIOUS
<1>2. w = u
  BY <1>1 DEF Config!Passes
<1> QED
  BY <1>2 DEF Wanted

\* buildRepoConfigsFromEnv goes through the entries one by one.
LEMMA BuiltInTurn ==
  ASSUME ConfigAssumption, NEW f \in Config!Files, NEW order \in Config!SetToSeqs(Config!Listed(f))
  PROVE  \E m : /\ m[0] = [k \in Config!Keys |-> Config!Nobody]
                /\ \A n \in 1..Len(order) :
                     m[n] = [m[n - 1] EXCEPT ![Config!KeyOf(order[n], f)] = Config!Entry(order[n], f)]
                /\ \A n \in 0..Len(order) : m[n] \in [Config!Keys -> Config!Maps]
                /\ Config!Built(f, order) = m[Len(order)]
<1> DEFINE S == [Config!Keys -> Config!Maps]
           L == Len(order)
           base == [k \in Config!Keys |-> Config!Nobody]
           Put(m, n) == [m EXCEPT ![Config!KeyOf(order[n], f)] = Config!Entry(order[n], f)]
           step == [n \in 1..L |-> [m \in S |-> Put(m, n)]]
           Unrolls(h) == h = [n \in 0..L |-> IF n = 0 THEN base ELSE Put(h[n - 1], n)]
           c == CHOOSE h : Unrolls(h)
<1>1. L \in Nat /\ \A n \in 1..L : order[n] \in Urls
  BY OrderIs, ConfigTypes
<1>2. base \in S
  BY DEF Config!Maps, Config!Nobody
<1>3. \A n \in 1..L, m \in S : Put(m, n) \in S
  BY <1>1, ConfigTypes
<1>4. step \in [1..L -> [S -> S]]
  <2> HIDE DEF S, L, Put
  <2> QED
    BY <1>3
<1>5. PICK g \in [0..L -> S] : g[0] = base /\ \A n \in 1..L : g[n] = step[n][g[n - 1]]
  <2>1. L \in Nat
    BY <1>1
  <2> HIDE DEF S, L, step, base
  <2>2. Unfolds(S, base, L, step)
    BY <1>2, <1>4, <2>1, Recursion
  <2> QED
    BY <2>2, Zenon DEF Unfolds
<1>6. Unrolls(g)
  <2> HIDE DEF S, L, base, Put
  <2>1. \A n \in 1..L : g[n - 1] \in S
    BY <1>1
  <2>2. \A n \in 1..L : g[n] = Put(g[n - 1], n)
    BY <1>5, <2>1
  <2>3. \A n \in 0..L : n = 0 \/ n \in 1..L
    BY <1>1
  <2>4. \A n \in 0..L : g[n] = IF n = 0 THEN base ELSE Put(g[n - 1], n)
    BY <1>5, <2>2, <2>3
  <2> QED
    BY <2>4
<1>7. Unrolls(c)
  <2> HIDE DEF Unrolls
  <2> QED
    BY <1>6
<1>8. c[0] = base /\ \A n \in 1..L : c[n] = Put(c[n - 1], n)
  <2> HIDE DEF c, L, base, Put
  <2>1. \A n \in 0..L : c[n] = IF n = 0 THEN base ELSE Put(c[n - 1], n)
    BY <1>7
  <2> QED
    BY <1>1, <2>1
<1>9. \A n \in 0..L : c[n] \in S
  <2>1. \A n \in 1..L : c[n - 1] \in S => c[n] \in S
    <3> HIDE DEF c, L, S, base, Put
    <3> QED
      BY <1>3, <1>8
  <2>2. L \in Nat
    BY <1>1
  <2> HIDE DEF c, L, S, base, Put
  <2> QED
    BY <1>2, <1>8, <2>1, <2>2, RecursionIn
<1>10. Config!Built(f, order) = c[L]
  BY DEF Config!Built
<1> HIDE DEF c
<1> QED
  BY <1>8, <1>9, <1>10

\* What is made of a whole file: every key has what is wanted there, unless two entries
\* have the same.
LEMMA BuiltIsWanted ==
  ASSUME ConfigAssumption, NEW f \in Config!Files, NEW order \in Config!SetToSeqs(Config!Listed(f))
  PROVE  /\ Config!Built(f, order) \in [Config!Keys -> Config!Maps]
         /\ ~Config!Passes(f, f) => \A k \in Config!Keys : Config!Built(f, order)[k] = Wanted(f, k)
<1> DEFINE L == Len(order)
           Put(n) == Config!KeyOf(order[n], f)
<1>1. /\ L \in Nat /\ order \in [1..L -> Config!Listed(f)]
      /\ \A u \in Config!Listed(f) : \E n \in 1..L : order[n] = u
  BY OrderIs, ConfigTypes
<1>2. PICK m : /\ m[0] = [k \in Config!Keys |-> Config!Nobody]
               /\ \A n \in 1..L : m[n] = [m[n - 1] EXCEPT ![Put(n)] = Config!Entry(order[n], f)]
               /\ \A n \in 0..L : m[n] \in [Config!Keys -> Config!Maps]
               /\ Config!Built(f, order) = m[L]
  BY BuiltInTurn
<1> HIDE DEF L
<1>3. m[L] \in [Config!Keys -> Config!Maps]
  BY <1>1, <1>2
<1>4. ASSUME ~Config!Passes(f, f), NEW k \in Config!Keys
      PROVE  m[L][k] = Wanted(f, k)
  <2> DEFINE Filled(n) == m[n][k] = IF \E j \in 1..n : Put(j) = k THEN Wanted(f, k) ELSE Config!Nobody
             T == {n \in 0..L : Filled(n)}
  <2>1. 0 \in T
    BY <1>1, <1>2
  <2>2. ASSUME NEW n \in T, n < L PROVE n + 1 \in T
    <3>1. n \in Nat /\ n + 1 \in 1..L /\ n \in 0..L /\ (n + 1) - 1 = n /\ Filled(n)
      BY <1>1, <2>2
    <3>2. \A j : j \in 1..(n + 1) <=> j \in 1..n \/ j = n + 1
      BY <3>1
    <3>3. m[n] \in [Config!Keys -> Config!Maps]
      BY <1>2, <3>1
    <3>4. m[n + 1] = [m[n] EXCEPT ![Put(n + 1)] = Config!Entry(order[n + 1], f)]
      BY <1>2, <3>1
    <3>5. Put(n + 1) \in Config!Keys /\ Wanted(f, Put(n + 1)) = Config!Entry(order[n + 1], f)
      <4>1. order[n + 1] \in Config!Listed(f)
        BY <1>1, <3>1
      <4> QED
        BY <1>4, <4>1, OwnerFound, ConfigTypes
    <3> HIDE DEF Put
    <3>6. CASE Put(n + 1) = k
      <4>1. m[n + 1][k] = Wanted(f, k)
        BY <3>3, <3>4, <3>5, <3>6
      <4> QED
        BY <3>1, <3>2, <3>6, <4>1
    <3>7. CASE Put(n + 1) # k
      <4>1. m[n + 1][k] = m[n][k]
        BY <3>3, <3>4, <3>5, <3>7
      <4>2. (\E j \in 1..(n + 1) : Put(j) = k) <=> (\E j \in 1..n : Put(j) = k)
        BY <3>2, <3>7
      <4> QED
        BY <3>1, <4>1, <4>2
    <3> QED
      BY <3>6, <3>7
  <2>3. L \in T
    <3>1. T \in SUBSET (0..L)
      OBVIOUS
    <3> HIDE DEF T
    <3>2. T = 0..L
      BY <1>1, <2>1, <2>2, <3>1, UpTo
    <3> QED
      BY <1>1, <3>2
  <2>4. Filled(L)
    BY <2>3
  <2>5. CASE \E j \in 1..L : Put(j) = k
    BY <2>4, <2>5
  <2>6. CASE ~ \E j \in 1..L : Put(j) = k
    <3>1. ~ \E u \in Config!Listed(f) : Config!KeyOf(u, f) = k
      BY <1>1, <2>6
    <3> QED
      BY <2>4, <2>6, <3>1 DEF Wanted
  <2> QED
    BY <2>5, <2>6
<1> QED
  BY <1>2, <1>3, <1>4

\* An edit leaves a map.
LEMMA EditTypes ==
  ASSUME v1 \in Config!Files, v5 \in Config!Files, NEW map \in [Config!Keys -> Config!Maps],
         NEW u \in Config!Edits
  PROVE  Config!Edit(map, u) \in [Config!Keys -> Config!Maps]
<1> DEFINE S == [Config!Keys -> Config!Maps]
<1>1. /\ u \in Urls /\ Config!KeyOf(u, v1) \in Config!Keys /\ Config!KeyOf(u, v5) \in Config!Keys
      /\ Config!Entry(u, v1) \in Config!Maps /\ v1[u].test \in TestCommands \cup {"none"}
  BY ConfigTypes DEF Config!Edits, Config!Added, Config!ModifiedSafe, Config!Removed,
     Config!Files, Config!Entries, Config!Absent
<1>2. Config!Nobody \in Config!Maps
  BY DEF Config!Nobody, Config!Maps
<1>3. Config!AddEntry(map, u) \in S
  BY <1>1 DEF Config!AddEntry
<1>4. Config!RemoveEntry(map, u) \in S
  BY <1>1, <1>2 DEF Config!RemoveEntry
<1>5. Config!ModifyEntry(map, u) \in S
  <2> DEFINE old == Config!KeyOf(u, v5)
             entry == [map[old] EXCEPT !.test = IF v1[u].test # v5[u].test THEN v1[u].test ELSE @]
  <2>1. map[old] \in Config!Maps
    BY <1>1
  <2>2. entry \in Config!Maps
    BY <1>1, <2>1 DEF Config!Maps
  <2>3. [map EXCEPT ![old] = Config!Nobody] \in S
    BY <1>2
  <2> HIDE DEF entry
  <2>4. [[map EXCEPT ![old] = Config!Nobody] EXCEPT ![Config!KeyOf(u, v1)] = entry] \in S
    BY <1>1, <2>2, <2>3
  <2> QED
    BY <2>4 DEF Config!ModifyEntry, Config!FormerKey, entry
<1> HIDE DEF S
<1>6. Config!Edit(map, u) \in S
  BY <1>3, <1>4, <1>5 DEF Config!Edit
<1> QED
  BY <1>6 DEF S

\* The handler of "applied" makes the edits one by one.
LEMMA AppliedInTurn ==
  ASSUME ConfigAssumption, v1 \in Config!Files, v5 \in Config!Files,
         v6 \in [Config!Keys -> Config!Maps], NEW order \in Config!SetToSeqs(Config!Edits)
  PROVE  \E m : /\ m[0] = v6
                /\ \A n \in 1..Len(order) : m[n] = Config!Edit(m[n - 1], order[n])
                /\ \A n \in 0..Len(order) : m[n] \in [Config!Keys -> Config!Maps]
                /\ Config!Applied(order) = m[Len(order)]
<1> DEFINE S == [Config!Keys -> Config!Maps]
           L == Len(order)
           base == v6
           step == [n \in 1..L |-> [m \in S |-> Config!Edit(m, order[n])]]
           Turns(h) == h = [n \in 0..L |-> IF n = 0 THEN v6 ELSE Config!Edit(h[n - 1], order[n])]
           c == CHOOSE h : Turns(h)
<1>1. L \in Nat /\ \A n \in 1..L : order[n] \in Config!Edits
  <2>1. Config!Edits \in SUBSET Urls
    BY DEF Config!Edits, Config!Added, Config!Removed, Config!ModifiedSafe, Config!Listed
  <2> QED
    BY <2>1, OrderIs
<1>2. base \in S
  OBVIOUS
<1>3. \A n \in 1..L, m \in S : Config!Edit(m, order[n]) \in S
  BY <1>1, EditTypes
<1>4. step \in [1..L -> [S -> S]]
  <2> HIDE DEF S, L
  <2> QED
    BY <1>3
<1>5. PICK g \in [0..L -> S] : g[0] = base /\ \A n \in 1..L : g[n] = step[n][g[n - 1]]
  <2>1. L \in Nat
    BY <1>1
  <2> HIDE DEF S, L, base, step
  <2>2. Unfolds(S, base, L, step)
    BY <1>2, <1>4, <2>1, Recursion
  <2> QED
    BY <2>2, Zenon DEF Unfolds
<1>6. Turns(g)
  <2> HIDE DEF S, L
  <2>1. \A n \in 1..L : g[n - 1] \in S
    BY <1>1
  <2>2. \A n \in 1..L : g[n] = Config!Edit(g[n - 1], order[n])
    BY <1>5, <2>1
  <2>3. \A n \in 0..L : n = 0 \/ n \in 1..L
    BY <1>1
  <2>4. \A n \in 0..L : g[n] = IF n = 0 THEN v6 ELSE Config!Edit(g[n - 1], order[n])
    BY <1>5, <2>2, <2>3
  <2> QED
    BY <2>4
<1>7. Turns(c)
  <2> HIDE DEF Turns
  <2> QED
    BY <1>6
<1>8. c[0] = v6 /\ \A n \in 1..L : c[n] = Config!Edit(c[n - 1], order[n])
  <2> HIDE DEF c, L
  <2>1. \A n \in 0..L : c[n] = IF n = 0 THEN v6 ELSE Config!Edit(c[n - 1], order[n])
    BY <1>7
  <2> QED
    BY <1>1, <2>1
<1>9. \A n \in 0..L : c[n] \in S
  <2>1. \A n \in 1..L : c[n - 1] \in S => c[n] \in S
    <3> HIDE DEF c, L, S
    <3> QED
      BY <1>3, <1>8
  <2>2. L \in Nat /\ v6 \in S
    BY <1>1
  <2> HIDE DEF c, L, S
  <2>3. c[0] \in S
    BY <1>8, <2>2
  <2> QED
    BY <2>1, <2>2, <2>3, RecursionIn
<1>10. Config!Applied(order) = c[L]
  BY DEF Config!Applied
<1> HIDE DEF c
<1> QED
  BY <1>8, <1>9, <1>10

\* The keys that the edit of a repository changes.
Touches(u, k) == \/ u \in Config!Listed(v1) /\ Config!KeyOf(u, v1) = k
                 \/ u \in Config!Listed(v5) /\ Config!KeyOf(u, v5) = k

\* One edit: the keys of its repository get what the file has there, the others stay.
LEMMA EditOne ==
  ASSUME ConfigAssumption, v1 \in Config!Files, v5 \in Config!Files,
         ~Config!Passes(v5, v5), ~Config!Passes(v5, v1), ~Config!Passes(v1, v1),
         NEW map \in [Config!Keys -> Config!Maps], NEW u \in Config!Edits,
         \A k \in Config!Keys : Touches(u, k) => map[k] = Wanted(v5, k),
         NEW k \in Config!Keys
  PROVE  Config!Edit(map, u)[k] = IF Touches(u, k) THEN Wanted(v1, k) ELSE map[k]
<1> DEFINE new == Config!KeyOf(u, v1)
           old == Config!KeyOf(u, v5)
<1>1. /\ u \in Urls /\ new \in Config!Keys /\ old \in Config!Keys
      /\ Config!Entry(u, v1) \in Config!Maps
  BY ConfigTypes DEF Config!Edits, Config!Added, Config!ModifiedSafe, Config!Removed
<1>2. u \in Config!Listed(v5) => (Wanted(v1, old) = IF u \in Config!Listed(v1) /\ new = old
                                                    THEN Config!Entry(u, v1) ELSE Config!Nobody)
  <2>1. ASSUME u \in Config!Listed(v5), NEW v \in Config!Listed(v1), Config!KeyOf(v, v1) = old
        PROVE  v = u
    BY <2>1 DEF Config!Passes
  <2> QED
    BY <2>1, OwnerFound DEF Wanted
<1>3. u \in Config!Listed(v1) => Wanted(v1, new) = Config!Entry(u, v1)
  BY OwnerFound
<1>4. CASE u \in Config!Added
  <2>1. /\ u \in Config!Listed(v1) /\ u \notin Config!Listed(v5)
        /\ u \notin Config!ModifiedSafe /\ u \notin Config!Removed
    BY <1>4 DEF Config!Added, Config!ModifiedSafe, Config!Removed
  <2>2. Config!Edit(map, u) = [map EXCEPT ![new] = Config!Entry(u, v1)]
    BY <1>4, <2>1 DEF Config!Edit, Config!AddEntry
  <2> HIDE DEF new
  <2>3. Touches(u, k) <=> k = new
    BY <2>1 DEF Touches, new
  <2> QED
    BY <1>1, <1>3, <2>1, <2>2, <2>3
<1>5. CASE u \in Config!ModifiedSafe
  <2>1. u \in Config!Listed(v1) /\ u \in Config!Listed(v5) /\ u \notin Config!Added
    BY <1>5 DEF Config!ModifiedSafe, Config!Added
  <2>2. Touches(u, k) <=> k = new \/ k = old
    BY <2>1 DEF Touches
  <2>3. map[old] = Config!Entry(u, v5)
    <3>1. Touches(u, old)
      BY <2>1 DEF Touches
    <3> QED
      BY <1>1, <2>1, <3>1, OwnerFound
  <2>4. map[old] # Config!Nobody
    BY <1>1, <2>3 DEF ConfigAssumption, Config!Entry, Config!Nobody
  <2>5. [map[old] EXCEPT !.test = IF v1[u].test # v5[u].test THEN v1[u].test ELSE @]
          = Config!Entry(u, v1)
    BY <2>3 DEF Config!Entry
  <2>6. Config!Edit(map, u) = [[map EXCEPT ![old] = Config!Nobody] EXCEPT ![new] = Config!Entry(u, v1)]
    <3>1. Config!Edit(map, u) = Config!ModifyEntry(map, u)
      BY <1>5, <2>1 DEF Config!Edit
    <3>2. Config!ModifyEntry(map, u) = IF map[old] = Config!Nobody THEN map
            ELSE [[map EXCEPT ![old] = Config!Nobody] EXCEPT ![new] =
                    [map[old] EXCEPT !.test = IF v1[u].test # v5[u].test THEN v1[u].test ELSE @]]
      BY DEF Config!ModifyEntry, Config!FormerKey
    <3> QED
      BY <2>4, <2>5, <3>1, <3>2
  <2> HIDE DEF new, old
  <2>7. Config!Edit(map, u)[k] = IF k = new THEN Config!Entry(u, v1)
                                 ELSE IF k = old THEN Config!Nobody ELSE map[k]
    BY <1>1, <2>6
  <2> QED
    BY <1>2, <1>3, <2>1, <2>2, <2>7
<1>6. CASE u \in Config!Removed
  <2>1. u \notin Config!Listed(v1) /\ u \in Config!Listed(v5)
        /\ u \notin Config!Added /\ u \notin Config!ModifiedSafe
    BY <1>6 DEF Config!Removed, Config!Added, Config!ModifiedSafe
  <2>2. Config!Edit(map, u) = [map EXCEPT ![old] = Config!Nobody]
    BY <2>1 DEF Config!Edit, Config!RemoveEntry
  <2>3. Touches(u, k) <=> k = old
    BY <2>1 DEF Touches
  <2> HIDE DEF old
  <2> QED
    BY <1>1, <1>2, <2>1, <2>2, <2>3
<1> QED
  BY <1>4, <1>5, <1>6 DEF Config!Edits

\* All edits together turn the map of what was read last into one of the file.
LEMMA AppliedIsWanted ==
  ASSUME ConfigAssumption, v1 \in Config!Files, v5 \in Config!Files,
         v6 \in [Config!Keys -> Config!Maps], NEW order \in Config!SetToSeqs(Config!Edits)
  PROVE  /\ Config!Applied(order) \in [Config!Keys -> Config!Maps]
         /\ /\ \A k \in Config!Keys : v6[k] = Wanted(v5, k)
            /\ ~Config!Passes(v5, v5) /\ ~Config!Passes(v5, v1) /\ ~Config!Passes(v1, v1)
            => \A k \in Config!Keys : Config!Applied(order)[k] = Wanted(v1, k)
<1> DEFINE L == Len(order)
<1>1. /\ L \in Nat /\ order \in [1..L -> Config!Edits]
      /\ \A m, n \in 1..L : order[m] = order[n] => m = n
      /\ \A u \in Config!Edits : \E n \in 1..L : order[n] = u
  <2>1. Config!Edits \in SUBSET Urls
    BY DEF Config!Edits, Config!Added, Config!Removed, Config!ModifiedSafe, Config!Listed
  <2> QED
    BY <2>1, OrderIs
<1>2. PICK m : /\ m[0] = v6
               /\ \A n \in 1..L : m[n] = Config!Edit(m[n - 1], order[n])
               /\ \A n \in 0..L : m[n] \in [Config!Keys -> Config!Maps]
               /\ Config!Applied(order) = m[L]
  BY AppliedInTurn
<1> HIDE DEF L
<1>3. m[L] \in [Config!Keys -> Config!Maps]
  BY <1>1, <1>2
<1>4. ASSUME \A k \in Config!Keys : v6[k] = Wanted(v5, k),
             ~Config!Passes(v5, v5), ~Config!Passes(v5, v1), ~Config!Passes(v1, v1)
      PROVE  \A k \in Config!Keys : m[L][k] = Wanted(v1, k)
  <2> DEFINE Turned(n) == \A k \in Config!Keys :
               m[n][k] = IF \E j \in 1..n : Touches(order[j], k) THEN Wanted(v1, k) ELSE Wanted(v5, k)
             T == {n \in 0..L : Turned(n)}
  <2>1. 0 \in T
    BY <1>1, <1>2, <1>4
  <2>2. ASSUME NEW n \in T, n < L PROVE n + 1 \in T
    <3>1. n \in Nat /\ n + 1 \in 1..L /\ n \in 0..L /\ (n + 1) - 1 = n /\ Turned(n)
      BY <1>1, <2>2
    <3>2. \A j : j \in 1..(n + 1) <=> j \in 1..n \/ j = n + 1
      BY <3>1
    <3>3. m[n] \in [Config!Keys -> Config!Maps] /\ m[n + 1] = Config!Edit(m[n], order[n + 1])
      BY <1>2, <3>1
    <3>4. \A j \in 1..n : order[j] \in Urls /\ order[j] # order[n + 1] /\ order[j] \in Config!Edits
      <4>1. \A j \in 1..n : j \in 1..L /\ j # n + 1
        BY <1>1, <3>1
      <4> QED
        BY <1>1, <3>1, <4>1 DEF Config!Edits, Config!Added, Config!Removed, Config!ModifiedSafe,
           Config!Listed
    <3>5. \A k \in Config!Keys : Touches(order[n + 1], k) => \A j \in 1..n : ~Touches(order[j], k)
      BY <1>4, <3>4 DEF Touches, Config!Passes
    <3>6. \A k \in Config!Keys : Touches(order[n + 1], k) => m[n][k] = Wanted(v5, k)
      BY <3>1, <3>5
    <3>7. order[n + 1] \in Config!Edits
      BY <1>1, <3>1
    <3>8. \A k \in Config!Keys :
            m[n + 1][k] = IF Touches(order[n + 1], k) THEN Wanted(v1, k) ELSE m[n][k]
      BY <1>4, <3>3, <3>6, <3>7, EditOne
    <3>9. Turned(n + 1)
      <4> SUFFICES ASSUME NEW k \in Config!Keys
                   PROVE  m[n + 1][k] = IF \E j \in 1..(n + 1) : Touches(order[j], k)
                                        THEN Wanted(v1, k) ELSE Wanted(v5, k)
        OBVIOUS
      <4>1. (\E j \in 1..(n + 1) : Touches(order[j], k))
              <=> Touches(order[n + 1], k) \/ \E j \in 1..n : Touches(order[j], k)
        BY <3>2
      <4> QED
        BY <3>1, <3>8, <4>1
    <3> HIDE DEF Turned
    <3> QED
      BY <3>1, <3>9
  <2>3. L \in T
    <3>1. T \in SUBSET (0..L)
      OBVIOUS
    <3> HIDE DEF T
    <3>2. T = 0..L
      BY <1>1, <2>1, <2>2, <3>1, UpTo
    <3> QED
      BY <1>1, <3>2
  <2>4. Turned(L)
    BY <2>3
  <2> SUFFICES ASSUME NEW k \in Config!Keys PROVE m[L][k] = Wanted(v1, k)
    OBVIOUS
  <2>5. CASE \E j \in 1..L : Touches(order[j], k)
    BY <2>4, <2>5
  <2>6. CASE ~ \E j \in 1..L : Touches(order[j], k)
    <3>1. \A u \in Config!Edits : ~Touches(u, k)
      BY <1>1, <2>6
    <3>2. ASSUME NEW u, u \in Config!Listed(v1) \cup Config!Listed(v5), Touches(u, k)
          PROVE  /\ u \in Config!Listed(v1) /\ u \in Config!Listed(v5) /\ v1[u] = v5[u]
                 /\ Config!KeyOf(u, v1) = k /\ Config!KeyOf(u, v5) = k
      <4>1. u \notin Config!Added /\ u \notin Config!Removed /\ u \notin Config!ModifiedSafe
        BY <3>1, <3>2 DEF Config!Edits
      <4>2. u \in Config!Listed(v1) /\ u \in Config!Listed(v5) /\ v1[u] = v5[u]
        BY <3>2, <4>1 DEF Config!Added, Config!Removed, Config!ModifiedSafe
      <4> QED
        BY <3>2, <4>2 DEF Touches, Config!KeyOf
    <3>3. CASE \E u \in Config!Listed(v1) \cup Config!Listed(v5) : Touches(u, k)
      <4>1. PICK u \in Config!Listed(v1) \cup Config!Listed(v5) : Touches(u, k)
        BY <3>3
      <4>2. Wanted(v1, k) = Config!Entry(u, v1) /\ Wanted(v5, k) = Config!Entry(u, v5)
        BY <1>4, <3>2, <4>1, OwnerFound
      <4>3. Config!Entry(u, v1) = Config!Entry(u, v5)
        BY <3>2, <4>1 DEF Config!Entry
      <4> QED
        BY <2>4, <2>6, <4>2, <4>3
    <3>4. CASE ~ \E u \in Config!Listed(v1) \cup Config!Listed(v5) : Touches(u, k)
      <4>1. Wanted(v1, k) = Config!Nobody /\ Wanted(v5, k) = Config!Nobody
        BY <3>4 DEF Touches, Wanted
      <4> QED
        BY <2>4, <2>6, <4>1
    <3> QED
      BY <3>3, <3>4
  <2> QED
    BY <2>5, <2>6
<1> QED
  BY <1>2, <1>3, <1>4

\* The map is built from the file at the start.
LEMMA ConfigBegins ==
  ASSUME ConfigAssumption PROVE Config!Init => Config!IndInv
<1> SUFFICES ASSUME Config!Init PROVE Config!IndInv
  OBVIOUS
<1>1. PICK order \in Config!SetToSeqs(Config!Listed(v1)) : v6 = Config!Built(v1, order)
  BY DEF Config!Init
<1>2. v1 \in Config!Files /\ v5 = v1 /\ (v8 <=> Config!Passes(v1, v1))
  BY DEF Config!Init
<1>3. /\ v6 \in [Config!Keys -> Config!Maps]
      /\ ~v8 => \A k \in Config!Keys : v6[k] = Wanted(v5, k)
  BY <1>1, <1>2, BuiltIsWanted
<1> QED
  BY <1>2, <1>3 DEF Config!IndInv, Config!LiveFollowsFile, Wanted

\* The edits turn the map into the one of the new file, unless a key passes.
LEMMA ConfigSteps ==
  ASSUME ConfigAssumption
  PROVE  Config!IndInv /\ [Config!Next]_(Config!vars) => Config!IndInv'
<1> SUFFICES ASSUME Config!IndInv, [Config!Next]_(Config!vars)
             PROVE  Config!IndInv'
  OBVIOUS
<1>i. /\ v1 \in Config!Files /\ v5 \in Config!Files /\ v6 \in [Config!Keys -> Config!Maps]
      /\ ~v4 /\ v2 /\ ~v7 => v5 = v1
      /\ ~v8 => (\A k \in Config!Keys : v6[k] = Wanted(v5, k)) /\ ~Config!Passes(v5, v5)
  BY DEF Config!IndInv, Config!LiveFollowsFile, Wanted
<1> SUFFICES /\ v1' \in Config!Files /\ v5' \in Config!Files /\ v6' \in [Config!Keys -> Config!Maps]
             /\ ~v4' /\ v2' /\ ~v7' => v5' = v1'
             /\ ~v8' => (\A k \in Config!Keys : v6'[k] = Wanted(v5', k)) /\ ~Config!Passes(v5', v5')
  BY DEF Config!IndInv, Config!LiveFollowsFile, Wanted
<1>1. ASSUME NEW f \in Config!Files, NEW whole, NEW replaced, Config!Save(f, whole, replaced)
      PROVE  /\ v1' \in Config!Files /\ v5' \in Config!Files /\ v6' \in [Config!Keys -> Config!Maps]
             /\ ~v4' /\ v2' /\ ~v7' => v5' = v1'
             /\ ~v8' => (\A k \in Config!Keys : v6'[k] = Wanted(v5', k)) /\ ~Config!Passes(v5', v5')
  <2>1. v1' = f /\ UNCHANGED <<v5, v6, v8>>
    BY <1>1 DEF Config!Save
  <2>2. v4' = (v4 \/ v3) /\ v7' = (v7 \/ ~v3)
    BY <1>1 DEF Config!Save
  <2>3. v4' \/ v7'
    BY <2>2, Zenon
  <2> QED
    BY <1>i, <2>1, <2>3
<1>2. CASE Config!Reload
  <2>1. PICK order \in Config!SetToSeqs(Config!Edits) : v6' = Config!Applied(order)
    BY <1>2 DEF Config!Reload
  <2>2. v1' = v1 /\ v5' = v1
    BY <1>2 DEF Config!Reload
  <2>3. v8' = (v8 \/ Config!Passes(v5, v1) \/ Config!Passes(v1, v1))
    BY <1>2 DEF Config!Reload
  <2>4. ~v8' => ~v8 /\ ~Config!Passes(v5, v1) /\ ~Config!Passes(v1, v1)
    BY <2>3, Zenon
  <2>5. v6' \in [Config!Keys -> Config!Maps]
    BY <1>i, <2>1, AppliedIsWanted
  <2>6. ~v8' => \A k \in Config!Keys : v6'[k] = Wanted(v1, k)
    BY <1>i, <2>1, <2>4, AppliedIsWanted
  <2> QED
    BY <1>i, <2>2, <2>4, <2>5, <2>6
<1>3. CASE Config!ReloadFails
  <2>1. UNCHANGED <<v1, v2, v5, v6, v7, v8>> /\ ~v2
    BY <1>3 DEF Config!ReloadFails
  <2> QED
    BY <1>i, <2>1
<1>4. CASE Config!Restart
  <2>1. PICK order \in Config!SetToSeqs(Config!Listed(v1)) : v6' = Config!Built(v1, order)
    BY <1>4 DEF Config!Restart
  <2>2. v1' = v1 /\ v5' = v1 /\ (v8' <=> Config!Passes(v1, v1))
    BY <1>4 DEF Config!Restart
  <2>3. /\ v6' \in [Config!Keys -> Config!Maps]
        /\ ~v8' => \A k \in Config!Keys : v6'[k] = Wanted(v1, k)
    BY <1>i, <2>1, <2>2, BuiltIsWanted
  <2> QED
    BY <1>i, <2>2, <2>3
<1>5. CASE UNCHANGED Config!vars
  <2>1. UNCHANGED <<v1, v2, v4, v5, v6, v7, v8>>
    BY <1>5 DEF Config!vars
  <2> QED
    BY <1>i, <2>1
<1> QED
  BY <1>i, <1>1, <1>2, <1>3, <1>4, <1>5 DEF Config!Next

\* So the map is what a restart would make of the file that was read last.
LEMMA ConfigShows == Config!IndInv => Config!LiveFollowsFile
  BY DEF Config!IndInv

-----------------------------------------------------------------------------
(* AlertIntake: tickets v1, delivery v2, answers v3, doubled v4.           *)

\* A sanitized name has no bracket.
LEMMA SanitizedClean ==
  ASSUME NEW name \in Seq(Nat)
  PROVE  Intake!Sanitized(name) \in Seq(Nat \ {0})
<1> DEFINE S == Seq(Nat \ {0})
           L == Len(name)
           none == <<>>
           step == [n \in 1..L |-> [s \in S |-> IF name[n] = 0 THEN s ELSE Append(s, name[n])]]
           Unrolls(h) == h = [n \in 0..L |-> IF n = 0 THEN none
                             ELSE IF name[n] = Intake!Bracket THEN h[n - 1]
                             ELSE Append(h[n - 1], name[n])]
           c == CHOOSE h : Unrolls(h)
<1>1. L \in Nat /\ \A n \in 1..L : name[n] \in Nat
  OBVIOUS
<1>2. none \in S
  OBVIOUS
<1>3. \A n \in 1..L, s \in S : name[n] # 0 => Append(s, name[n]) \in S
  BY <1>1
<1>4. step \in [1..L -> [S -> S]]
  <2> HIDE DEF S, L
  <2> QED
    BY <1>3
<1>5. PICK g \in [0..L -> S] : g[0] = none /\ \A n \in 1..L : g[n] = step[n][g[n - 1]]
  <2>1. L \in Nat
    OBVIOUS
  <2> HIDE DEF S, L, step, none
  <2>2. Unfolds(S, none, L, step)
    BY <1>2, <1>4, <2>1, Recursion
  <2> QED
    BY <2>2, Zenon DEF Unfolds
<1>6. Unrolls(g)
  <2> HIDE DEF S, L, none
  <2>1. \A n \in 1..L : g[n - 1] \in S
    BY <1>1
  <2>2. \A n \in 1..L : g[n] = IF name[n] = Intake!Bracket THEN g[n - 1]
                               ELSE Append(g[n - 1], name[n])
    BY <1>5, <2>1 DEF Intake!Bracket
  <2>3. \A n \in 0..L : g[n] = IF n = 0 THEN none
                               ELSE IF name[n] = Intake!Bracket THEN g[n - 1]
                               ELSE Append(g[n - 1], name[n])
    <3>1. \A n \in 0..L : n = 0 \/ n \in 1..L
      BY <1>1
    <3> QED
      BY <1>5, <2>2, <3>1
  <2> QED
    BY <2>3
<1>7. Unrolls(c)
  <2> HIDE DEF Unrolls
  <2> QED
    BY <1>6
<1>8. c[0] = none /\ \A n \in 1..L : c[n] = IF name[n] = 0 THEN c[n - 1] ELSE Append(c[n - 1], name[n])
  <2> HIDE DEF c, L, none
  <2>1. \A n \in 0..L : c[n] = IF n = 0 THEN none
                               ELSE IF name[n] = Intake!Bracket THEN c[n - 1]
                               ELSE Append(c[n - 1], name[n])
    BY <1>7
  <2> QED
    BY <1>1, <2>1 DEF Intake!Bracket
<1>9. c[L] \in S
  <2>1. \A n \in 1..L : c[n - 1] \in S => c[n] \in S
    <3> HIDE DEF c, L, S, none
    <3> QED
      BY <1>3, <1>8
  <2>2. \A n \in 0..L : c[n] \in S
    <3> HIDE DEF c, L, S, none
    <3> QED
      BY <1>1, <1>2, <1>8, <2>1, RecursionIn
  <2>3. L \in 0..L
    BY <1>1
  <2> HIDE DEF c, L, S, none
  <2> QED
    BY <2>2, <2>3
<1>10. Intake!Sanitized(name) = c[L]
  BY DEF Intake!Sanitized
<1> QED
  BY <1>9, <1>10

\* A tag that has one bracket, at its end, begins no other.
LEMMA TagsApart ==
  ASSUME NEW b \in Seq(Nat \ {0}), NEW c \in Seq(Nat \ {0}),
         Intake!IsPrefix(Append(b, 0), Append(c, 0))
  PROVE  Append(b, 0) = Append(c, 0)
<1> DEFINE s == Append(b, 0)
           t == Append(c, 0)
<1>1. /\ s \in Seq(Nat) /\ Len(s) = Len(b) + 1 /\ s[Len(b) + 1] = 0
      /\ \A n \in 1..Len(b) : s[n] # 0
  OBVIOUS
<1>2. /\ t \in Seq(Nat) /\ Len(t) = Len(c) + 1 /\ t[Len(c) + 1] = 0
      /\ \A n \in 1..Len(c) : t[n] # 0
  OBVIOUS
<1>3. Len(s) <= Len(t) /\ SubSeq(s, 1, Len(s)) = SubSeq(t, 1, Len(s))
  BY DEF Intake!IsPrefix
<1>4. Len(b) \in Nat /\ Len(c) \in Nat
  OBVIOUS
<1> HIDE DEF s, t
<1>5. \A n \in 1..Len(s) : s[n] = t[n]
  BY <1>1, <1>2, <1>3, <1>4
<1>6. Len(s) = Len(t)
  <2>1. Len(b) + 1 \in 1..Len(s) /\ Len(b) + 1 \in 1..(Len(c) + 1)
    BY <1>1, <1>2, <1>3, <1>4
  <2>3. t[Len(b) + 1] = 0
    BY <1>1, <1>5, <2>1
  <2>2. Len(b) + 1 \notin 1..Len(c)
    BY <1>2, <2>3
  <2> QED
    BY <1>1, <1>2, <1>4, <2>1, <2>2
<1>7. s = t
  BY <1>1, <1>2, <1>5, <1>6, SeqEqual
<1> QED
  BY <1>7 DEF s, t

\* The tag of an alert has its bracket at the end only.
LEMMA AlertTags ==
  ASSUME AlertAssumption, NEW a \in Intake!Alerts
  PROVE  /\ Intake!Body(a) \in Seq(Nat \ {0}) /\ Intake!Title(a) \in Seq(Nat)
         /\ a[1] \in Intake!Sources
<1>1. Intake!Body(a) \in Seq(Nat \ {0}) /\ a[1] \in Intake!Sources
  <2>1. CASE a \in {"sentry"} \X SentryIds
    BY <2>1 DEF AlertAssumption, Intake!Body, Intake!Sources
  <2>2. CASE a \in {"cloudwatch"} \X AlarmNames
    <3>1. a[1] = "cloudwatch" /\ a[2] \in Seq(Nat)
      BY <2>2 DEF AlertAssumption
    <3> QED
      BY <3>1, SanitizedClean DEF Intake!Body, Intake!Sources
  <2> QED
    BY <2>1, <2>2 DEF Intake!Alerts
<1>2. Append(Intake!Body(a), 0) \in Seq(Nat)
  BY <1>1
<1> QED
  BY <1>1, <1>2 DEF Intake!Title, Intake!Bracket

\* The search of an alert finds the tickets of its own tag.
LEMMA TagFinds ==
  ASSUME AlertAssumption, NEW a \in Intake!Alerts, NEW b \in Intake!Alerts
  PROVE  Intake!IsPrefix(Intake!TitlePrefix(a), Intake!Title(b)) <=> Intake!Title(a) = Intake!Title(b)
<1>1. Intake!TitlePrefix(a) = Append(Intake!Body(a), 0) /\ Intake!Title(a) = Append(Intake!Body(a), 0)
  BY DEF Intake!TitlePrefix, Intake!Title, Intake!Bracket
<1>2. Intake!Title(b) = Append(Intake!Body(b), 0)
  BY DEF Intake!Title, Intake!Bracket
<1>3. Intake!Body(a) \in Seq(Nat \ {0}) /\ Intake!Body(b) \in Seq(Nat \ {0})
  BY AlertTags
<1>4. ASSUME Intake!IsPrefix(Intake!TitlePrefix(a), Intake!Title(b))
      PROVE  Intake!Title(a) = Intake!Title(b)
  BY <1>1, <1>2, <1>3, <1>4, TagsApart
<1>5. ASSUME Intake!Title(a) = Intake!Title(b)
      PROVE  Intake!IsPrefix(Intake!TitlePrefix(a), Intake!Title(b))
  <2>1. Len(Intake!Title(b)) \in Nat
    BY AlertTags
  <2> QED
    BY <1>1, <1>5, <2>1 DEF Intake!IsPrefix
<1> QED
  BY <1>4, <1>5

\* No ticket is there at the start.
LEMMA IntakeBegins ==
  ASSUME AlertAssumption PROVE Intake!Init => Intake!IndInv
  BY DEF Intake!Init, Intake!IndInv, Intake!OwnTicket, Intake!Active

\* A delivery comes to a ticket of its own alert: what its search finds has its tag.
LEMMA IntakeSteps ==
  ASSUME AlertAssumption
  PROVE  Intake!IndInv /\ [Intake!Next]_(Intake!vars) => Intake!IndInv'
<1> SUFFICES ASSUME Intake!IndInv, [Intake!Next]_(Intake!vars)
             PROVE  Intake!IndInv'
  OBVIOUS
<1> DEFINE Ticket == [title : Seq(Nat), source : Intake!Sources, alert : Intake!Alerts,
                      recent : BOOLEAN]
           Handled == [alert : Intake!Alerts, step : {"resolving", "looking", "creating"}]
<1>t. /\ v1 \in Seq(Ticket) /\ Len(v1) \in Nat /\ DOMAIN v1 = 1..Len(v1)
      /\ \A n \in DOMAIN v1 : v1[n] \in Ticket
      /\ v2 \in [Deliveries -> Handled \cup {Intake!Idle}]
  <2>1. v1 \in Seq(Ticket) /\ v2 \in [Deliveries -> Handled \cup {Intake!Idle}]
    BY DEF Intake!IndInv
  <2> HIDE DEF Ticket, Handled
  <2> QED
    BY <2>1
<1>a. \A d \in Intake!Active : d \in Deliveries /\ v2[d] \in Handled
  BY <1>t DEF Intake!Active
<1>1. ASSUME NEW d \in Deliveries, NEW a \in Intake!Alerts, Intake!Receive(d, a)
      PROVE  Intake!IndInv'
  <2>1. [alert |-> a, step |-> "resolving"] \in Handled
    OBVIOUS
  <2>2. v2' \in [Deliveries -> Handled \cup {Intake!Idle}] /\ UNCHANGED <<v1, v3>>
    BY <1>1, <1>t, <2>1 DEF Intake!Receive
  <2>3. \A e \in Deliveries : e # d => v2'[e] = v2[e]
    BY <1>1, <1>t DEF Intake!Receive
  <2>4. v2'[d].alert = a /\ v2'[d].step = "resolving"
    BY <1>1, <1>t DEF Intake!Receive
  <2>5. v4 \subseteq v4' /\ \A e \in Intake!Active : Intake!SameTag(v2[e].alert, a) => Intake!Title(a) \in v4'
    BY <1>1 DEF Intake!Receive
  <2>6. \A e \in Intake!Active' : e \in Deliveries /\ (e = d \/ e \in Intake!Active)
    BY <2>3 DEF Intake!Active
  <2>7. \A e, f \in Intake!Active' : e # f /\ Intake!SameTag(v2'[e].alert, v2'[f].alert)
           => Intake!Title(v2'[e].alert) \in v4'
    <3> SUFFICES ASSUME NEW e \in Intake!Active', NEW f \in Intake!Active', e # f,
                        Intake!SameTag(v2'[e].alert, v2'[f].alert)
                 PROVE  Intake!Title(v2'[e].alert) \in v4'
      OBVIOUS
    <3>1. CASE e = d
      BY <2>3, <2>4, <2>5, <2>6, <3>1 DEF Intake!SameTag
    <3>2. CASE f = d
      BY <2>3, <2>4, <2>5, <2>6, <3>2 DEF Intake!SameTag
    <3>3. CASE e # d /\ f # d
      BY <2>3, <2>5, <2>6, <3>3 DEF Intake!IndInv
    <3> QED
      BY <3>1, <3>2, <3>3
  <2>8. \A e \in Intake!Active', n \in DOMAIN v1' :
           /\ v2'[e].step = "creating" /\ v1'[n].recent
           /\ Intake!SameTag(v1'[n].alert, v2'[e].alert)
           => Intake!Title(v2'[e].alert) \in v4'
    BY <2>2, <2>3, <2>4, <2>5, <2>6 DEF Intake!IndInv
  <2>9. Intake!OwnTicket'
    BY <2>2, <2>5 DEF Intake!IndInv, Intake!OwnTicket, Intake!SameTag, Intake!Title, Intake!Body
  <2> QED
    BY <2>2, <2>7, <2>8, <2>9 DEF Intake!IndInv
<1>2. ASSUME NEW d \in Intake!Active, UNCHANGED <<v1, v4>>,
             NEW w, w = Intake!Idle \/ (w \in Handled /\ w.alert = v2[d].alert),
             v2' = [v2 EXCEPT ![d] = w],
             w.step = "creating" => Intake!Found(v2[d].alert) = {},
             \A x \in v3' : x[1] \in Intake!Alerts /\ x[2] \in DOMAIN v1
                            /\ Intake!SameTag(x[1], v1[x[2]].alert)
      PROVE  Intake!IndInv'
  <2>1. v2' \in [Deliveries -> Handled \cup {Intake!Idle}]
    BY <1>2, <1>t
  <2>2. \A e \in Deliveries : e # d => v2'[e] = v2[e]
    BY <1>2, <1>t
  <2>3. d \in Deliveries /\ v2'[d] = w
    BY <1>2, <1>a, <1>t
  <2>4. \A e \in Intake!Active' : e \in Intake!Active /\ v2'[e].alert = v2[e].alert
    BY <1>2, <2>2, <2>3 DEF Intake!Active
  <2>5. \A e, f \in Intake!Active' : e # f /\ Intake!SameTag(v2'[e].alert, v2'[f].alert)
           => Intake!Title(v2'[e].alert) \in v4'
    BY <1>2, <2>4 DEF Intake!IndInv
  <2>6. \A e \in Intake!Active', n \in DOMAIN v1' :
           /\ v2'[e].step = "creating" /\ v1'[n].recent
           /\ Intake!SameTag(v1'[n].alert, v2'[e].alert)
           => Intake!Title(v2'[e].alert) \in v4'
    <3> SUFFICES ASSUME NEW e \in Intake!Active', NEW n \in DOMAIN v1,
                        v2'[e].step = "creating", v1[n].recent,
                        Intake!SameTag(v1[n].alert, v2'[e].alert)
                 PROVE  Intake!Title(v2'[e].alert) \in v4
      BY <1>2
    <3>1. CASE e # d
      BY <1>2, <2>2, <2>4, <3>1, <1>a DEF Intake!IndInv
    <3>2. CASE e = d
      <4> DEFINE a == v2[d].alert
      <4>1. a \in Intake!Alerts /\ v1[n].alert \in Intake!Alerts
        BY <1>2, <1>a, <1>t
      <4>2. v1[n].title = Intake!Title(v1[n].alert) /\ v1[n].source = v1[n].alert[1]
        BY DEF Intake!IndInv
      <4>3. v1[n].source = a[1] /\ Intake!Title(a) = v1[n].title
        BY <2>4, <3>2, <4>2 DEF Intake!SameTag
      <4>4. Intake!IsPrefix(Intake!TitlePrefix(a), v1[n].title)
        <5> HIDE DEF a
        <5> QED
          BY <4>1, <4>2, <4>3, TagFinds
      <4>5. n \in Intake!Found(a)
        BY <4>3, <4>4 DEF Intake!Found
      <4> QED
        BY <1>2, <2>3, <3>2, <4>5
    <3> QED
      BY <3>1, <3>2
  <2>7. Intake!OwnTicket'
    <3>1. \A x \in v3' : Intake!SameTag(x[1], v1'[x[2]].alert)
      BY <1>2
    <3>2. \A m, n \in DOMAIN v1' :
             /\ m # n /\ v1'[m].recent /\ v1'[n].recent
             /\ Intake!SameTag(v1'[m].alert, v1'[n].alert)
             => v1'[m].title \in v4'
      BY <1>2 DEF Intake!IndInv, Intake!OwnTicket
    <3> QED
      BY <3>1, <3>2, Zenon DEF Intake!OwnTicket, Intake!SameTag, Intake!Title, Intake!Body
  <2> QED
    BY <1>2, <2>1, <2>5, <2>6, <2>7 DEF Intake!IndInv
<1>3. ASSUME UNCHANGED v3, UNCHANGED v1
      PROVE  \A x \in v3' : x[1] \in Intake!Alerts /\ x[2] \in DOMAIN v1
                            /\ Intake!SameTag(x[1], v1[x[2]].alert)
  BY <1>3 DEF Intake!IndInv, Intake!OwnTicket
<1>4. ASSUME NEW d \in Deliveries, Intake!Resolve(d) PROVE Intake!IndInv'
  <2>1. d \in Intake!Active /\ UNCHANGED <<v1, v3, v4>>
    BY <1>4 DEF Intake!Resolve, Intake!Active, Intake!Idle
  <2> DEFINE w == [v2[d] EXCEPT !.step = "looking"]
  <2>2. w \in Handled /\ w.alert = v2[d].alert /\ w.step = "looking"
    BY <2>1, <1>a
  <2>3. v2' = [v2 EXCEPT ![d] = w]
    BY <1>4 DEF Intake!Resolve, Intake!To
  <2> HIDE DEF w
  <2> QED
    BY <1>2, <1>3, <2>1, <2>2, <2>3
<1>5. ASSUME NEW d \in Deliveries, Intake!Refuse(d) PROVE Intake!IndInv'
  <2>1. d \in Intake!Active /\ UNCHANGED <<v1, v3, v4>> /\ v2' = [v2 EXCEPT ![d] = Intake!Idle]
    BY <1>5 DEF Intake!Refuse, Intake!End
  <2>2. Intake!Idle.step # "creating"
    BY DEF Intake!Idle
  <2> QED
    BY <1>2, <1>3, <2>1, <2>2
<1>6. ASSUME NEW d \in Deliveries, Intake!LookUp(d) PROVE Intake!IndInv'
  <2>1. d \in Intake!Active /\ UNCHANGED <<v1, v3, v4>> /\ Intake!Found(v2[d].alert) = {}
    BY <1>6 DEF Intake!LookUp, Intake!Active, Intake!Idle
  <2> DEFINE w == [v2[d] EXCEPT !.step = "creating"]
  <2>2. w \in Handled /\ w.alert = v2[d].alert
    BY <2>1, <1>a
  <2>3. v2' = [v2 EXCEPT ![d] = w]
    BY <1>6 DEF Intake!LookUp, Intake!To
  <2> HIDE DEF w
  <2> QED
    BY <1>2, <1>3, <2>1, <2>2, <2>3
<1>7. ASSUME NEW d \in Deliveries, NEW n, Intake!Deduplicate(d, n) PROVE Intake!IndInv'
  <2> DEFINE a == v2[d].alert
  <2>1. d \in Intake!Active /\ UNCHANGED <<v1, v4>> /\ v2' = [v2 EXCEPT ![d] = Intake!Idle]
    BY <1>7 DEF Intake!Deduplicate, Intake!End, Intake!Active, Intake!Idle
  <2>2. Intake!Idle.step # "creating"
    BY DEF Intake!Idle
  <2>3. /\ v3' = v3 \cup {<<a, n>>} /\ n \in DOMAIN v1 /\ v1[n].source = a[1]
        /\ Intake!IsPrefix(Intake!TitlePrefix(a), v1[n].title)
    BY <1>7 DEF Intake!Deduplicate, Intake!Found
  <2>4. a \in Intake!Alerts /\ v1[n].alert \in Intake!Alerts
    BY <2>1, <2>3, <1>a, <1>t
  <2>5. v1[n].title = Intake!Title(v1[n].alert) /\ v1[n].source = v1[n].alert[1]
    BY <2>3 DEF Intake!IndInv
  <2>6. Intake!SameTag(a, v1[n].alert)
    <3>1. Intake!Title(a) = Intake!Title(v1[n].alert)
      <4> HIDE DEF a
      <4> QED
        BY <2>3, <2>4, <2>5, TagFinds
    <3> QED
      BY <2>3, <2>5, <3>1 DEF Intake!SameTag
  <2>7. \A x \in v3' : x[1] \in Intake!Alerts /\ x[2] \in DOMAIN v1
                       /\ Intake!SameTag(x[1], v1[x[2]].alert)
    <3> HIDE DEF a
    <3> QED
      BY <2>3, <2>4, <2>6 DEF Intake!IndInv, Intake!OwnTicket
  <2> QED
    BY <1>2, <2>1, <2>2, <2>7
<1>8. ASSUME NEW d \in Deliveries, NEW answered \in BOOLEAN, Intake!Create(d, answered)
      PROVE  Intake!IndInv'
  <2> DEFINE a == v2[d].alert
             new == [title |-> Intake!Title(a), source |-> a[1], alert |-> a, recent |-> TRUE]
             N == Len(v1) + 1
  <2>1. d \in Intake!Active /\ v2[d].step = "creating" /\ UNCHANGED v4
    BY <1>8 DEF Intake!Create, Intake!Active, Intake!Idle
  <2>2. a \in Intake!Alerts
    BY <2>1, <1>a
  <2>3. new \in Ticket
    BY <2>2, AlertTags
  <2>4. v1' = Append(v1, new) /\ v3' = IF answered THEN v3 \cup {<<a, N>>} ELSE v3
    BY <1>8 DEF Intake!Create
  <2>5. v2' = [v2 EXCEPT ![d] = Intake!Idle]
    BY <1>8 DEF Intake!Create, Intake!End
  <2>6. new.title = Intake!Title(a) /\ new.source = a[1] /\ new.alert = a
    OBVIOUS
  <2> HIDE DEF new, a
  <2>7. /\ v1' \in Seq(Ticket) /\ DOMAIN v1' = 1..N /\ v1'[N] = new
        /\ \A n \in DOMAIN v1 : v1'[n] = v1[n] /\ n \in DOMAIN v1'
        /\ \A n \in DOMAIN v1' : n = N \/ n \in DOMAIN v1
    <3> HIDE DEF Ticket
    <3> QED
      BY <1>t, <2>3, <2>4
  <2>8. N \in DOMAIN v1'
    BY <1>t, <2>7
  <2>9. v2' \in [Deliveries -> Handled \cup {Intake!Idle}]
    BY <1>t, <2>5
  <2>10. \A e \in Intake!Active' : e # d /\ e \in Intake!Active /\ v2'[e] = v2[e]
    BY <1>t, <2>5 DEF Intake!Active
  <2> HIDE DEF N
  <2>11. \A n \in DOMAIN v1' : v1'[n].title = Intake!Title(v1'[n].alert)
                             /\ v1'[n].source = v1'[n].alert[1]
    BY <2>6, <2>7 DEF Intake!IndInv
  <2>12. \A x \in v3' : x[1] \in Intake!Alerts /\ x[2] \in DOMAIN v1'
                       /\ Intake!SameTag(x[1], v1'[x[2]].alert)
    <3>1. Intake!SameTag(a, a)
      BY DEF Intake!SameTag
    <3>2. ASSUME NEW x \in v3
          PROVE  x[1] \in Intake!Alerts /\ x[2] \in DOMAIN v1'
                 /\ Intake!SameTag(x[1], v1'[x[2]].alert)
      <4>1. x[1] \in Intake!Alerts /\ x[2] \in DOMAIN v1 /\ Intake!SameTag(x[1], v1[x[2]].alert)
        BY DEF Intake!IndInv, Intake!OwnTicket
      <4> QED
        BY <2>7, <4>1
    <3> QED
      BY <2>2, <2>4, <2>6, <2>7, <2>8, <3>1, <3>2
  <2>13. \A n \in DOMAIN v1 : v1[n].recent /\ Intake!SameTag(v1[n].alert, a)
            => Intake!Title(a) \in v4
    BY <2>1 DEF Intake!IndInv, a
  <2>14. \A n \in DOMAIN v1 : v1[n].recent /\ Intake!SameTag(a, v1[n].alert)
            => Intake!Title(a) \in v4
    BY <2>13 DEF Intake!SameTag
  <2>15. \A m, n \in DOMAIN v1' :
            /\ m # n /\ v1'[m].recent /\ v1'[n].recent
            /\ Intake!SameTag(v1'[m].alert, v1'[n].alert)
            => v1'[m].title \in v4'
    <3> SUFFICES ASSUME NEW m \in DOMAIN v1', NEW n \in DOMAIN v1', m # n, v1'[m].recent,
                        v1'[n].recent, Intake!SameTag(v1'[m].alert, v1'[n].alert)
                 PROVE  v1'[m].title \in v4
      BY <2>1
    <3>1. CASE m = N
      BY <2>6, <2>7, <2>14, <3>1
    <3>2. CASE n = N
      BY <2>6, <2>7, <2>11, <2>13, <3>2 DEF Intake!SameTag
    <3>3. CASE m # N /\ n # N
      BY <2>7, <3>3 DEF Intake!IndInv, Intake!OwnTicket
    <3> QED
      BY <3>1, <3>2, <3>3
  <2>16. Intake!OwnTicket'
    <3>1. \A x \in v3' : Intake!SameTag(x[1], v1'[x[2]].alert)
      BY <2>12
    <3> QED
      BY <2>15, <3>1, Zenon DEF Intake!OwnTicket, Intake!SameTag, Intake!Title, Intake!Body
  <2>17. \A e, f \in Intake!Active' : e # f /\ Intake!SameTag(v2'[e].alert, v2'[f].alert)
            => Intake!Title(v2'[e].alert) \in v4'
    BY <2>1, <2>10 DEF Intake!IndInv
  <2>18. \A e \in Intake!Active', n \in DOMAIN v1' :
            /\ v2'[e].step = "creating" /\ v1'[n].recent
            /\ Intake!SameTag(v1'[n].alert, v2'[e].alert)
            => Intake!Title(v2'[e].alert) \in v4'
    <3> SUFFICES ASSUME NEW e \in Intake!Active', NEW n \in DOMAIN v1',
                        v2[e].step = "creating", v1'[n].recent,
                        Intake!SameTag(v1'[n].alert, v2[e].alert)
                 PROVE  Intake!Title(v2[e].alert) \in v4
      BY <2>1, <2>10
    <3>1. CASE n = N
      <4>1. Intake!SameTag(v2[e].alert, v2[d].alert)
        BY <2>6, <2>7, <3>1 DEF Intake!SameTag, a
      <4> QED
        BY <2>1, <2>10, <4>1 DEF Intake!IndInv
    <3>2. CASE n # N
      BY <2>7, <2>10, <3>2 DEF Intake!IndInv
    <3> QED
      BY <3>1, <3>2
  <2> QED
    BY <2>7, <2>9, <2>11, <2>12, <2>16, <2>17, <2>18 DEF Intake!IndInv
<1>9. ASSUME NEW k, Intake!Age(k) PROVE Intake!IndInv'
  <2> DEFINE old == [v1[k] EXCEPT !.recent = FALSE]
  <2>1. k \in DOMAIN v1 /\ v1' = [v1 EXCEPT ![k] = old] /\ UNCHANGED <<v2, v3, v4>>
    BY <1>9 DEF Intake!Age
  <2>2. /\ old \in Ticket /\ old.title = v1[k].title /\ old.source = v1[k].source
        /\ old.alert = v1[k].alert /\ old.recent = FALSE
    BY <1>t, <2>1
  <2> HIDE DEF old
  <2>3. /\ v1' \in Seq(Ticket) /\ DOMAIN v1' = DOMAIN v1 /\ v1'[k] = old
        /\ \A n \in DOMAIN v1 : n # k => v1'[n] = v1[n]
    <3> HIDE DEF Ticket
    <3> QED
      BY <1>t, <2>1, <2>2
  <2>4. \A n \in DOMAIN v1 : /\ v1'[n].title = v1[n].title /\ v1'[n].source = v1[n].source
                            /\ v1'[n].alert = v1[n].alert
                            /\ (v1'[n].recent => v1[n].recent)
    BY <2>2, <2>3
  <2>5. \A n \in DOMAIN v1' : v1'[n].title = Intake!Title(v1'[n].alert)
                            /\ v1'[n].source = v1'[n].alert[1]
    BY <2>3, <2>4 DEF Intake!IndInv
  <2>6. \A x \in v3' : x[1] \in Intake!Alerts /\ x[2] \in DOMAIN v1'
                      /\ Intake!SameTag(x[1], v1'[x[2]].alert)
    <3> SUFFICES ASSUME NEW x \in v3
                 PROVE  x[1] \in Intake!Alerts /\ x[2] \in DOMAIN v1'
                        /\ Intake!SameTag(x[1], v1'[x[2]].alert)
      BY <2>1
    <3>1. x[1] \in Intake!Alerts /\ x[2] \in DOMAIN v1 /\ Intake!SameTag(x[1], v1[x[2]].alert)
      BY DEF Intake!IndInv, Intake!OwnTicket
    <3> QED
      BY <2>3, <2>4, <3>1
  <2>7. \A m, n \in DOMAIN v1' :
           /\ m # n /\ v1'[m].recent /\ v1'[n].recent
           /\ Intake!SameTag(v1'[m].alert, v1'[n].alert)
           => v1'[m].title \in v4'
    BY <2>1, <2>3, <2>4 DEF Intake!IndInv, Intake!OwnTicket
  <2>8. Intake!OwnTicket'
    <3>1. \A x \in v3' : Intake!SameTag(x[1], v1'[x[2]].alert)
      BY <2>6
    <3> QED
      BY <2>7, <3>1, Zenon DEF Intake!OwnTicket, Intake!SameTag, Intake!Title, Intake!Body
  <2>9. Intake!Active' = Intake!Active
    BY <2>1 DEF Intake!Active
  <2>10. \A e, f \in Intake!Active' : e # f /\ Intake!SameTag(v2'[e].alert, v2'[f].alert)
            => Intake!Title(v2'[e].alert) \in v4'
    BY <2>1, <2>9 DEF Intake!IndInv
  <2>11. \A e \in Intake!Active', n \in DOMAIN v1' :
            /\ v2'[e].step = "creating" /\ v1'[n].recent
            /\ Intake!SameTag(v1'[n].alert, v2'[e].alert)
            => Intake!Title(v2'[e].alert) \in v4'
    BY <2>1, <2>3, <2>4, <2>9 DEF Intake!IndInv
  <2> QED
    BY <1>t, <2>1, <2>3, <2>5, <2>6, <2>8, <2>10, <2>11 DEF Intake!IndInv
<1>10. CASE UNCHANGED Intake!vars
  BY <1>10 DEF Intake!vars, Intake!IndInv, Intake!OwnTicket, Intake!Active
<1> QED
  BY <1>1, <1>4, <1>5, <1>6, <1>7, <1>8, <1>9, <1>10 DEF Intake!Next

\* So every alert that was answered has a ticket of its own.
LEMMA IntakeShows == Intake!IndInv => Intake!OwnTicket
  BY DEF Intake!IndInv

-----------------------------------------------------------------------------
(* CostRollup: today v1, ended v2, rows v3, rolling v4, ends v5, rolled v6,*)
(* excused v7.                                                             *)

\* The operators on sets that CostRollup sees are the usual ones.
LEMMA RollupNames ==
  /\ \A S : Rollup!Cardinality(S) = Cardinality(S)
  /\ \A S : Rollup!Max(S) = CHOOSE x \in S : \A y \in S : x >= y
  /\ \A S : Rollup!Min(S) = CHOOSE x \in S : \A y \in S : x <= y
<1>1. \A S : Rollup!Cardinality(S) = Cardinality(S)
  BY Zenon DEF Rollup!Cardinality, Cardinality
<1>2. \A S : Rollup!Max(S) = CHOOSE x \in S : \A y \in S : x >= y
  BY DEF Rollup!Max
<1>3. \A S : Rollup!Min(S) = CHOOSE x \in S : \A y \in S : x <= y
  BY DEF Rollup!Min
<1> QED
  BY <1>1, <1>2, <1>3

\* A set of numbers up to L has a least one and a greatest one.
LEMMA LeastExists ==
  ASSUME NEW L \in Nat, NEW S \in SUBSET (0..L), S # {}
  PROVE  \E m \in S : \A k \in S : m <= k
<1> SUFFICES ASSUME \A m \in S : \E k \in S : k < m
             PROVE  FALSE
  OBVIOUS
<1> DEFINE T == {n \in 0..L : \A k \in 0..n : k \notin S}
<1>1. 0 \in T
  OBVIOUS
<1>2. ASSUME NEW n \in T, n < L PROVE n + 1 \in T
  <2>1. n + 1 \notin S
    OBVIOUS
  <2>2. \A k \in 0..(n + 1) : k \in 0..n \/ k = n + 1
    OBVIOUS
  <2>3. n + 1 \in 0..L
    BY <1>2
  <2> QED
    BY <2>1, <2>2, <2>3
<1>3. T = 0..L
  <2> HIDE DEF T
  <2>1. T \in SUBSET (0..L)
    BY DEF T
  <2> QED
    BY <1>1, <1>2, <2>1, UpTo
<1>4. PICK k \in S : TRUE
  OBVIOUS
<1>5. k \in T
  BY <1>3
<1>6. k \in 0..k
  OBVIOUS
<1> QED
  BY <1>5, <1>6

\* A set of numbers up to L has a greatest one.
LEMMA GreatestExists ==
  ASSUME NEW L \in Nat, NEW S \in SUBSET (0..L), S # {}
  PROVE  \E m \in S : \A k \in S : m >= k
<1> DEFINE R == {n \in 0..L : L - n \in S}
<1>1. R \in SUBSET (0..L) /\ R # {}
  <2>1. PICK k \in S : TRUE
    OBVIOUS
  <2>2. L - k \in R
    BY <2>1
  <2> QED
    BY <2>2
<1>2. PICK m \in R : \A k \in R : m <= k
  <2> HIDE DEF R
  <2> QED
    BY <1>1, LeastExists
<1>3. L - m \in S /\ \A k \in S : L - k \in R
  OBVIOUS
<1>4. \A k \in S : m <= L - k
  BY <1>2, <1>3
<1> QED
  BY <1>3, <1>4

\* Latest is the last day with a row, or 0.
LEMMA LatestIs ==
  ASSUME MaxDay \in Nat
  PROVE  /\ Rollup!Latest \in 0..MaxDay
         /\ Rollup!Latest = 0 \/ Rollup!Present(Rollup!Latest)
         /\ \A d \in Rollup!Days : Rollup!Present(d) => d <= Rollup!Latest
<1> DEFINE S == {0} \cup {d \in Rollup!Days : Rollup!Present(d)}
<1>1. S \in SUBSET (0..MaxDay) /\ S # {}
  BY DEF Rollup!Days
<1>2. PICK m \in S : \A k \in S : m >= k
  <2> HIDE DEF S
  <2> QED
    BY <1>1, GreatestExists
<1>3. Rollup!Latest \in S /\ \A k \in S : Rollup!Latest >= k
  <2>1. Rollup!Latest = CHOOSE x \in S : \A y \in S : x >= y
    BY RollupNames, Zenon DEF Rollup!Latest
  <2> HIDE DEF S
  <2> QED
    BY <1>2, <2>1
<1> QED
  BY <1>1, <1>3

\* The greater of two numbers.
LEMMA LargerOfTwo ==
  ASSUME NEW a \in Int, NEW b \in Int
  PROVE  Rollup!Max({a, b}) = IF a >= b THEN a ELSE b
<1>1. Rollup!Max({a, b}) = CHOOSE x \in {a, b} : \A y \in {a, b} : x >= y
  BY RollupNames, Zenon
<1> QED
  BY <1>1

\* Min is the least of a set of numbers up to L.
LEMMA MinIs ==
  ASSUME NEW L \in Nat, NEW S \in SUBSET (0..L), S # {}
  PROVE  Rollup!Min(S) \in S /\ \A k \in S : Rollup!Min(S) <= k
<1>1. Rollup!Min(S) = CHOOSE x \in S : \A y \in S : x <= y
  BY RollupNames, Zenon
<1> QED
  BY <1>1, LeastExists

\* The runs that end on a day are finitely many, and no more than the ends there.
LEMMA EndsCounted ==
  ASSUME RollupAssumption, NEW R \in SUBSET Tasks, NEW E \in SUBSET (Tasks \X Rollup!Days),
         NEW d, \A r \in R : <<r, d>> \in E
  PROVE  /\ IsFiniteSet(R) /\ IsFiniteSet(E)
         /\ Cardinality(R) \in Nat /\ Cardinality(E) \in Nat
         /\ Cardinality(R) <= Cardinality(E)
<1> DEFINE f == [r \in R |-> <<r, d>>]
<1>1. IsFiniteSet(Tasks) /\ MaxDay \in Int
  BY DEF RollupAssumption
<1>2. IsFiniteSet(Rollup!Days)
  BY <1>1, FS_Interval DEF Rollup!Days
<1>3. IsFiniteSet(Tasks \X Rollup!Days)
  BY <1>1, <1>2, FS_Product
<1>4. IsFiniteSet(R) /\ IsFiniteSet(E)
  BY <1>1, <1>3, FS_Subset
<1>5. f \in [R -> E] /\ \A r, q \in R : f[r] = f[q] => r = q
  OBVIOUS
<1>6. f \in Injection(R, E)
  <2> HIDE DEF f
  <2> QED
    BY <1>5 DEF Injection, IsInjective
<1> HIDE DEF f
<1> QED
  BY <1>4, <1>6, FS_Injection, FS_CardinalityType

\* As many runs end on a day as its ends there, or fewer.
LEMMA Counts ==
  ASSUME RollupAssumption, Rollup!Typed, NEW d \in Rollup!Days, NEW b
  PROVE  /\ Rollup!EndedOn(d, b) \in Nat /\ Rollup!EndsOn(d, b) \in Nat
         /\ Rollup!EndedOn(d, b) <= Rollup!EndsOn(d, b)
<1> DEFINE R == {r \in Tasks : v2[r] = d /\ BucketOf[r] = b}
           E == {e \in v5 : e[2] = d /\ BucketOf[e[1]] = b}
<1>1. R \in SUBSET Tasks /\ E \in SUBSET (Tasks \X Rollup!Days)
  BY DEF Rollup!Typed
<1>2. \A r \in R : <<r, d>> \in E
  BY DEF Rollup!Typed, Rollup!Days
<1>3. Rollup!EndedOn(d, b) = Cardinality(R) /\ Rollup!EndsOn(d, b) = Cardinality(E)
  BY RollupNames, Zenon DEF Rollup!EndedOn, Rollup!EndsOn
<1> HIDE DEF R, E
<1> QED
  BY <1>1, <1>2, <1>3, EndsCounted

\* A run that ends takes itself off the day it ended on before; for no day that is over is
\* it counted anew, and no end there is forgotten.
LEMMA CountsAfterEnd ==
  ASSUME RollupAssumption, Rollup!Typed, Rollup!Typed', NEW r \in Tasks, Rollup!End(r),
         NEW d \in Rollup!Days, d < v1, NEW b
  PROVE  /\ Rollup!EndedOn(d, b)' \in Nat /\ Rollup!EndsOn(d, b)' \in Nat
         /\ Rollup!EndedOn(d, b)' <= Rollup!EndedOn(d, b)
         /\ Rollup!EndsOn(d, b) <= Rollup!EndsOn(d, b)'
<1> DEFINE R == {q \in Tasks : v2[q] = d /\ BucketOf[q] = b}
           E == {e \in v5 : e[2] = d /\ BucketOf[e[1]] = b}
           R1 == {q \in Tasks : v2'[q] = d /\ BucketOf[q] = b}
           E1 == {e \in v5' : e[2] = d /\ BucketOf[e[1]] = b}
<1>1. R1 \in SUBSET R
  BY DEF Rollup!End, Rollup!Typed, Rollup!Days
<1>2. E \in SUBSET E1
  BY DEF Rollup!End
<1>3. R \in SUBSET Tasks /\ R1 \in SUBSET Tasks /\ E1 \in SUBSET (Tasks \X Rollup!Days)
  BY DEF Rollup!Typed, Rollup!Days
<1>4. \A q \in R1 : <<q, d>> \in E1
  BY DEF Rollup!Typed, Rollup!Days
<1>5. IsFiniteSet(R)
  <2> HIDE DEF R
  <2> QED
    BY <1>3, FS_Subset DEF RollupAssumption
<1>6. IsFiniteSet(E1) /\ Cardinality(R1) \in Nat /\ Cardinality(E1) \in Nat
  <2> HIDE DEF R1, E1
  <2> QED
    BY <1>3, <1>4, EndsCounted
<1>7. Cardinality(R1) <= Cardinality(R) /\ Cardinality(E) <= Cardinality(E1)
  <2> HIDE DEF R, E, R1, E1
  <2> QED
    BY <1>1, <1>2, <1>5, <1>6, FS_Subset
<1>8. /\ Rollup!EndedOn(d, b) = Cardinality(R) /\ Rollup!EndsOn(d, b) = Cardinality(E)
      /\ Rollup!EndedOn(d, b)' = Cardinality(R1) /\ Rollup!EndsOn(d, b)' = Cardinality(E1)
  BY RollupNames, Zenon DEF Rollup!EndedOn, Rollup!EndsOn
<1> QED
  BY <1>6, <1>7, <1>8

\* The counts depend on the runs and their ends alone.
LEMMA CountsKept ==
  ASSUME UNCHANGED <<v2, v5>>
  PROVE  \A d, b : /\ Rollup!EndedOn(d, b)' = Rollup!EndedOn(d, b)
                   /\ Rollup!EndsOn(d, b)' = Rollup!EndsOn(d, b)
  BY DEF Rollup!EndedOn, Rollup!EndsOn

\* No day is rolled at the start.
LEMMA RollupBegins ==
  ASSUME RollupAssumption PROVE Rollup!Init => Rollup!IndInv
<1> SUFFICES ASSUME Rollup!Init PROVE Rollup!IndInv
  OBVIOUS
<1>1. Rollup!Typed
  BY DEF RollupAssumption, Rollup!Init, Rollup!Typed, Rollup!Days, Rollup!Rollers, Rollup!Idle,
         Rollup!Yesterday
<1> QED
  BY <1>1 DEF Rollup!Init, Rollup!IndInv, Rollup!InOrder, Rollup!CountsTrue, Rollup!Idle,
              Rollup!Present

\* A roller that takes up a day.
LEMMA Replaced ==
  ASSUME NEW A, NEW B, NEW C, NEW D, NEW roll \in [days : A, day : B, counts : C, left : D],
         NEW d \in B, NEW counts \in C, NEW left \in D
  PROVE  LET new == [roll EXCEPT !.day = d, !.counts = counts, !.left = left]
         IN /\ new \in [days : A, day : B, counts : C, left : D]
            /\ new.day = d /\ new.days = roll.days /\ new.counts = counts /\ new.left = left
  OBVIOUS

\* A roller goes on, and no row is written: what has to be shown of the new state.
LEMMA RollerGoesOn ==
  ASSUME RollupAssumption, Rollup!IndInv, UNCHANGED <<v1, v2, v3, v5>>,
         NEW p \in Rollup!Rollers, NEW roll,
         roll \in [days : SUBSET (1..Rollup!Yesterday), day : 0..Rollup!Yesterday,
                   counts : [Buckets -> Nat], left : SUBSET Buckets],
         v4' = [v4 EXCEPT ![p] = roll],
         v6 \subseteq v6', v7 \subseteq v7', v6' \subseteq 1..Rollup!Yesterday, v7' \subseteq Rollup!Days,
         \A d \in v6' \ v6, b \in Buckets : v3[d][b] # -1 \/ Rollup!EndedOn(d, b) = 0,
         v4[p].day # 0 /\ Rollup!Present(v4[p].day)
           => roll.day = v4[p].day \/ v4[p].day \in v6' \cup v7',
         IF roll.day = 0 THEN roll.left = {} /\ roll.counts = Rollup!Idle.counts
         ELSE roll.day \in roll.days /\ \A d \in roll.days : roll.day <= d,
         roll.day # 0 =>
           \A b \in Buckets : /\ Rollup!Between(roll.day, b, roll.counts[b])
                              /\ b \in roll.left \/ v3[roll.day][b] # -1
                                 \/ Rollup!EndedOn(roll.day, b) = 0,
         \A e \in roll.days : \A d \in 1..e :
           d \in roll.days \/ Rollup!Settled(d) \/ d \in v6' \cup v7'
  PROVE  Rollup!IndInv'
<1>y. Rollup!Yesterday' = Rollup!Yesterday
  BY DEF Rollup!Yesterday
<1>r. v4'[p] = roll /\ \A q \in Rollup!Rollers : q # p => v4'[q] = v4[q]
  BY DEF Rollup!IndInv, Rollup!Typed
<1>c. \A d, b, n : Rollup!Between(d, b, n)' <=> Rollup!Between(d, b, n)
  BY CountsKept DEF Rollup!Between
<1>n. \A d, b : Rollup!EndedOn(d, b)' = Rollup!EndedOn(d, b)
  BY CountsKept
<1>e. \A d : Rollup!Present(d)' <=> Rollup!Present(d)
  BY DEF Rollup!Present
<1>1. Rollup!Typed'
  BY <1>y DEF Rollup!IndInv, Rollup!Typed, Rollup!Days
<1>2. \A d : d \in v6' \cup v7' => Rollup!Settled(d)'
  BY DEF Rollup!Settled
<1>3. ASSUME NEW d, d # 0, Rollup!Settled(d) PROVE Rollup!Settled(d)'
  <2>1. CASE d \in v6 \cup v7
    BY <1>2, <2>1
  <2>2. ASSUME NEW q \in Rollup!Rollers, Rollup!Present(d), v4[q].day = d PROVE Rollup!Settled(d)'
    <3>1. CASE q = p
      BY <1>2, <1>3, <1>e, <1>r, <2>2, <3>1 DEF Rollup!Settled
    <3>2. CASE q # p
      BY <1>e, <1>r, <2>2, <3>2 DEF Rollup!Settled
    <3> QED
      BY <3>1, <3>2
  <2> QED
    BY <1>3, <2>1, <2>2 DEF Rollup!Settled
<1>4. \A d \in Rollup!Days, b \in Buckets :
         (v3[d][b])' # -1 => d < v1' /\ Rollup!Between(d, b, v3[d][b])'
  BY CountsKept DEF Rollup!IndInv, Rollup!Between
<1>5. \A d \in v6', b \in Buckets : v3'[d][b] # -1 \/ Rollup!EndedOn(d, b)' = 0
  BY <1>n DEF Rollup!IndInv
<1>6. ASSUME NEW q \in Rollup!Rollers
      PROVE  Rollup!InOrder(q)' /\ \A b \in Buckets : Rollup!CountsTrue(q, b)'
  <2>1. CASE q = p
    <3>1. \A e \in roll.days : \A d \in 1..e : d \in roll.days \/ Rollup!Settled(d)'
      <4> SUFFICES ASSUME NEW e \in roll.days, NEW d \in 1..e, d \notin roll.days
                   PROVE  Rollup!Settled(d)'
        OBVIOUS
      <4>1. d # 0
        OBVIOUS
      <4> QED
        BY <4>1, <1>2, <1>3
    <3> QED
      BY <1>c, <1>n, <1>r, <2>1, <3>1 DEF Rollup!InOrder, Rollup!CountsTrue, Rollup!Idle
  <2>2. CASE q # p
    <3>1. \A e \in v4[q].days : \A d \in 1..e : d \in v4[q].days \/ Rollup!Settled(d)'
      <4> SUFFICES ASSUME NEW e \in v4[q].days, NEW d \in 1..e, d \notin v4[q].days
                   PROVE  Rollup!Settled(d)'
        OBVIOUS
      <4>1. d # 0
        OBVIOUS
      <4> QED
        BY <4>1, <1>3 DEF Rollup!IndInv, Rollup!InOrder
    <3>2. Rollup!InOrder(q) /\ \A b \in Buckets : Rollup!CountsTrue(q, b)
      BY DEF Rollup!IndInv
    <3> QED
      BY <1>c, <1>n, <1>r, <2>2, <3>1, <3>2 DEF Rollup!InOrder, Rollup!CountsTrue, Rollup!Idle
  <2> QED
    BY <2>1, <2>2
<1>7. \A e \in Rollup!Days : Rollup!Present(e)' => \A d \in 1..e : Rollup!Settled(d)'
  <2> SUFFICES ASSUME NEW e \in Rollup!Days, Rollup!Present(e), NEW d \in 1..e
               PROVE  Rollup!Settled(d)'
    BY <1>e
  <2>1. d # 0
    OBVIOUS
  <2> QED
    BY <2>1, <1>3 DEF Rollup!IndInv
<1> QED
  BY <1>1, <1>4, <1>5, <1>6, <1>7 DEF Rollup!IndInv, Rollup!Days

\* A roll goes through the days in order, and what it reads of a day that is over
\* is right when it is written.
LEMMA RollupSteps ==
  ASSUME RollupAssumption
  PROVE  Rollup!IndInv /\ [Rollup!Next]_(Rollup!vars) => Rollup!IndInv'
<1> SUFFICES ASSUME Rollup!IndInv, [Rollup!Next]_(Rollup!vars)
             PROVE  Rollup!IndInv'
  OBVIOUS
<1> DEFINE Roll == [days : SUBSET (1..Rollup!Yesterday), day : 0..Rollup!Yesterday,
                    counts : [Buckets -> Nat], left : SUBSET Buckets]
<1>t. /\ Rollup!Typed /\ v1 \in 1..MaxDay /\ MaxDay \in Nat /\ Backfill \in Nat
      /\ Rollup!Yesterday \in Nat /\ Rollup!Yesterday < v1
      /\ v4 \in [Rollup!Rollers -> Roll]
  BY DEF RollupAssumption, Rollup!IndInv, Rollup!Typed, Rollup!Days, Rollup!Yesterday
<1>i. /\ Rollup!Idle \in Roll /\ Rollup!Idle.day = 0 /\ Rollup!Idle.left = {}
      /\ Rollup!Idle.days = {}
  BY <1>t DEF Rollup!Idle
<1>l. /\ Rollup!Latest \in 0..MaxDay
      /\ Rollup!Latest = 0 \/ Rollup!Present(Rollup!Latest)
      /\ \A d \in Rollup!Days : Rollup!Present(d) => d <= Rollup!Latest
  BY <1>t, LatestIs
<1>1. ASSUME NEW r \in Tasks, Rollup!End(r) PROVE Rollup!IndInv'
  <2>1. Rollup!Typed'
    <3>1. v2' \in [Tasks -> 0..MaxDay] /\ v5' \subseteq Tasks \X Rollup!Days
      BY <1>1, <1>t DEF Rollup!Typed, Rollup!End
    <3>2. \A q \in Tasks : v2'[q] <= v1 /\ (v2'[q] # 0 => <<q, v2'[q]>> \in v5')
      BY <1>1, <1>t DEF Rollup!Typed, Rollup!End
    <3>3. UNCHANGED <<v1, v3, v4, v6, v7>> /\ Rollup!Yesterday' = Rollup!Yesterday
      BY <1>1 DEF Rollup!End, Rollup!Yesterday
    <3> QED
      BY <1>t, <3>1, <3>2, <3>3 DEF Rollup!Typed, Rollup!Days
  <2>2. \A d \in Rollup!Days, b \in Buckets : d < v1 =>
           /\ Rollup!EndedOn(d, b) \in Nat /\ Rollup!EndedOn(d, b)' \in Nat
           /\ Rollup!EndsOn(d, b) \in Nat /\ Rollup!EndsOn(d, b)' \in Nat
           /\ Rollup!EndedOn(d, b)' <= Rollup!EndedOn(d, b)
           /\ Rollup!EndsOn(d, b) <= Rollup!EndsOn(d, b)'
    <3>1. \A d \in Rollup!Days, b \in Buckets :
             Rollup!EndedOn(d, b) \in Nat /\ Rollup!EndsOn(d, b) \in Nat
      BY <1>t, Counts
    <3> QED
      BY <1>1, <1>t, <2>1, <3>1, CountsAfterEnd
  <2>3. UNCHANGED <<v1, v3, v4, v6, v7>> /\ Rollup!Yesterday' = Rollup!Yesterday
    BY <1>1 DEF Rollup!End, Rollup!Yesterday
  <2>4. \A d \in Rollup!Days, b \in Buckets :
           (v3[d][b])' # -1 => d < v1' /\ Rollup!Between(d, b, v3[d][b])'
    BY <1>t, <2>2, <2>3 DEF Rollup!IndInv, Rollup!Between, Rollup!Typed
  <2>5. \A d \in v6', b \in Buckets : v3'[d][b] # -1 \/ Rollup!EndedOn(d, b)' = 0
    <3>1. \A d \in v6 : d \in Rollup!Days /\ d < v1
      BY <1>t DEF Rollup!Typed, Rollup!Days
    <3> QED
      BY <2>2, <2>3, <3>1 DEF Rollup!IndInv
  <2>6. \A d : Rollup!Settled(d)' <=> Rollup!Settled(d)
    BY <2>3 DEF Rollup!Settled, Rollup!Present
  <2>7. \A p \in Rollup!Rollers : Rollup!InOrder(p)'
    BY <2>3, <2>6 DEF Rollup!IndInv, Rollup!InOrder, Rollup!Idle
  <2>8. \A p \in Rollup!Rollers, b \in Buckets : Rollup!CountsTrue(p, b)'
    <3> SUFFICES ASSUME NEW p \in Rollup!Rollers, NEW b \in Buckets, v4[p].day # 0
                 PROVE  Rollup!CountsTrue(p, b)'
      BY <2>3 DEF Rollup!CountsTrue
    <3>1. v4[p].day \in Rollup!Days /\ v4[p].day < v1 /\ v4[p].counts[b] \in Nat
      BY <1>t DEF Rollup!Days
    <3>2. Rollup!CountsTrue(p, b)
      BY DEF Rollup!IndInv
    <3> QED
      BY <2>2, <2>3, <3>1, <3>2 DEF Rollup!CountsTrue, Rollup!Between
  <2>9. \A e \in Rollup!Days : Rollup!Present(e)' => \A d \in 1..e : Rollup!Settled(d)'
    BY <2>3, <2>6 DEF Rollup!IndInv, Rollup!Present
  <2> QED
    BY <2>1, <2>4, <2>5, <2>7, <2>8, <2>9 DEF Rollup!IndInv, Rollup!Days
<1>2. CASE Rollup!Midnight
  <2>1. UNCHANGED <<v2, v3, v4, v5, v6, v7>> /\ v1' = v1 + 1 /\ v1 < MaxDay
    BY <1>2 DEF Rollup!Midnight
  <2>2. Rollup!Yesterday' = Rollup!Yesterday + 1
    BY <1>t, <2>1 DEF Rollup!Yesterday
  <2>3. Rollup!Typed'
    <3>1. 1..Rollup!Yesterday \subseteq 1..Rollup!Yesterday' /\ 0..Rollup!Yesterday \subseteq 0..Rollup!Yesterday'
      BY <1>t, <2>2
    <3>2. v4' \in [Rollup!Rollers -> [days : SUBSET (1..Rollup!Yesterday'), day : 0..Rollup!Yesterday',
                                counts : [Buckets -> Nat], left : SUBSET Buckets]]
      BY <1>t, <2>1, <3>1
    <3>3. ASSUME NEW r \in Tasks PROVE v2[r] <= v1'
      <4>1. v2[r] \in 0..MaxDay /\ v2[r] <= v1
        BY <1>t DEF Rollup!Typed
      <4>2. v1 \in 1..MaxDay
        BY <1>t
      <4> QED
        BY <2>1, <4>1, <4>2
    <3>4. v1' \in Rollup!Days /\ v6' \subseteq 1..Rollup!Yesterday'
      BY <1>t, <2>1, <3>1 DEF Rollup!Typed, Rollup!Days
    <3> QED
      BY <1>t, <2>1, <3>2, <3>3, <3>4 DEF Rollup!Typed, Rollup!Days
  <2>4. \A d : Rollup!Settled(d)' <=> Rollup!Settled(d)
    BY <2>1 DEF Rollup!Settled, Rollup!Present
  <2>5. \A d, b, n : Rollup!Between(d, b, n)' <=> Rollup!Between(d, b, n)
    BY <2>1, CountsKept DEF Rollup!Between
  <2>6. \A d \in Rollup!Days, b \in Buckets :
           (v3[d][b])' # -1 => d < v1' /\ Rollup!Between(d, b, v3[d][b])'
    BY <1>t, <2>1, CountsKept DEF Rollup!IndInv, Rollup!Between, Rollup!Days
  <2>7. \A d \in v6', b \in Buckets : v3'[d][b] # -1 \/ Rollup!EndedOn(d, b)' = 0
    BY <2>1, CountsKept DEF Rollup!IndInv
  <2>8. \A p \in Rollup!Rollers : Rollup!InOrder(p)'
    BY <2>1, <2>4 DEF Rollup!IndInv, Rollup!InOrder, Rollup!Idle
  <2>9. \A p \in Rollup!Rollers, b \in Buckets : Rollup!CountsTrue(p, b)'
    BY <2>1, <2>5, CountsKept DEF Rollup!IndInv, Rollup!CountsTrue, Rollup!Between
  <2>10. \A e \in Rollup!Days : Rollup!Present(e)' => \A d \in 1..e : Rollup!Settled(d)'
    BY <2>1, <2>4 DEF Rollup!IndInv, Rollup!Present
  <2> QED
    BY <2>3, <2>6, <2>7, <2>8, <2>9, <2>10 DEF Rollup!IndInv, Rollup!Days
<1>3. CASE Rollup!Select
  <2> DEFINE roll == [v4["tick"] EXCEPT !.days = Rollup!DatesToRoll \cap Rollup!Days]
  <2>1. /\ v4["tick"] = Rollup!Idle /\ Rollup!Yesterday >= 1
        /\ v4' = [v4 EXCEPT !["tick"] = roll]
        /\ v7' = v7 \cup ((1..(Rollup!Yesterday - Backfill)) \ v6)
        /\ UNCHANGED <<v1, v2, v3, v5, v6>>
    BY <1>3 DEF Rollup!Select
  <2>2. /\ roll.days = Rollup!DatesToRoll \cap Rollup!Days /\ roll.day = 0
        /\ roll.left = {} /\ roll.counts = Rollup!Idle.counts
    BY <1>i, <2>1
  <2>3. Rollup!Latest <= Rollup!Yesterday
    BY <1>3 DEF Rollup!Select
  <2>4. roll.days \subseteq 1..Rollup!Yesterday
        /\ \A e \in roll.days : \A d \in 1..e : d \in roll.days \/ Rollup!Settled(d) \/ d \in v6' \cup v7'
    <3>1. \A d \in 1..Rollup!Latest : Rollup!Settled(d)
      BY <1>l DEF Rollup!IndInv, Rollup!Days
    <3>2. \A d \in 1..(Rollup!Yesterday - Backfill) : d \in v6' \cup v7'
      BY <2>1
    <3>3. CASE Rollup!Latest = Rollup!Yesterday
      <4>1. Rollup!DatesToRoll = {Rollup!Yesterday}
        BY <3>3 DEF Rollup!DatesToRoll
      <4>2. roll.days = {Rollup!Yesterday}
        BY <1>t, <2>1, <2>2, <4>1 DEF Rollup!Days
      <4> QED
        BY <1>t, <2>1, <3>1, <3>3, <4>2
    <3>4. CASE Rollup!Latest # Rollup!Yesterday
      <4> DEFINE first == Rollup!FirstDay(Rollup!Latest)
      <4>1. roll.days = (first..Rollup!Yesterday) \cap Rollup!Days
        BY <2>2, <3>4 DEF Rollup!DatesToRoll
      <4>2. first \in Int /\ \A d \in Nat : d >= 1 /\ d < first =>
                               d \in 1..Rollup!Latest \/ d \in 1..(Rollup!Yesterday - Backfill)
        <5>1. CASE Rollup!Latest = 0
          <6>1. first = Rollup!Yesterday - Backfill + 1
            BY <5>1 DEF Rollup!FirstDay
          <6> QED
            BY <1>t, <6>1
        <5>2. CASE Rollup!Latest # 0
          <6>1. first = IF Rollup!Latest + 1 >= Rollup!Yesterday - Backfill + 1
                        THEN Rollup!Latest + 1 ELSE Rollup!Yesterday - Backfill + 1
            BY <1>l, <1>t, <5>2, LargerOfTwo DEF Rollup!FirstDay
          <6> QED
            BY <1>l, <1>t, <6>1
        <5> QED
          BY <5>1, <5>2
      <4> HIDE DEF first
      <4>3. roll.days \subseteq 1..Rollup!Yesterday
        BY <1>t, <4>1, <4>2 DEF Rollup!Days
      <4>4. ASSUME NEW e \in roll.days, NEW d \in 1..e
            PROVE  d \in roll.days \/ Rollup!Settled(d) \/ d \in v6' \cup v7'
        <5>1. d \in Nat /\ d >= 1 /\ d <= Rollup!Yesterday /\ d \in Rollup!Days
          BY <1>t, <4>3 DEF Rollup!Days
        <5>2. CASE d < first
          BY <3>1, <3>2, <4>2, <5>1, <5>2
        <5>3. CASE ~(d < first)
          BY <1>t, <4>1, <4>2, <5>1, <5>3
        <5> QED
          BY <5>2, <5>3
      <4> QED
        BY <4>3, <4>4
    <3> QED
      BY <3>3, <3>4
  <2>7. roll \in Roll
    BY <1>i, <2>1, <2>4
  <2>5. v7' \subseteq Rollup!Days
    BY <1>t, <2>1 DEF Rollup!Typed, Rollup!Days
  <2>6. "tick" \in Rollup!Rollers
    BY DEF Rollup!Rollers
  <2> HIDE DEF roll
  <2> QED
    BY <1>i, <1>t, <2>1, <2>2, <2>4, <2>5, <2>6, <2>7, RollerGoesOn DEF Rollup!Typed
<1>4. ASSUME NEW n \in DaysAsked, Rollup!Command(n) PROVE Rollup!IndInv'
  <2> DEFINE roll == [v4["command"] EXCEPT
                        !.days = ((Rollup!Yesterday - n + 1)..Rollup!Yesterday) \cap Rollup!Days]
  <2>1. /\ v4["command"] = Rollup!Idle /\ Rollup!Yesterday >= 1
        /\ v4' = [v4 EXCEPT !["command"] = roll]
        /\ v7' = v7 \cup ((1..(Rollup!Yesterday - n)) \ v6)
        /\ UNCHANGED <<v1, v2, v3, v5, v6>>
    BY <1>4 DEF Rollup!Command
  <2>2. /\ roll.days = ((Rollup!Yesterday - n + 1)..Rollup!Yesterday) \cap Rollup!Days
        /\ roll.day = 0 /\ roll.left = {} /\ roll.counts = Rollup!Idle.counts
    BY <1>i, <2>1
  <2>3. n \in Nat
    BY DEF RollupAssumption
  <2>4. roll.days \subseteq 1..Rollup!Yesterday
    BY <1>t, <2>2, <2>3 DEF Rollup!Days
  <2>5. \A e \in roll.days : \A d \in 1..e : d \in roll.days \/ d \in v6' \cup v7'
    <3> SUFFICES ASSUME NEW e \in roll.days, NEW d \in 1..e, d \notin roll.days
                 PROVE  d \in v6' \cup v7'
      OBVIOUS
    <3>1. d \in 1..Rollup!Yesterday /\ d \in Rollup!Days
      BY <1>t, <2>4 DEF Rollup!Days
    <3>2. d < Rollup!Yesterday - n + 1
      BY <1>t, <2>2, <2>3, <3>1
    <3>3. d \in 1..(Rollup!Yesterday - n)
      BY <1>t, <2>3, <3>1, <3>2
    <3> QED
      BY <2>1, <3>3
  <2>6. v7' \subseteq Rollup!Days
    BY <1>t, <2>1, <2>3 DEF Rollup!Typed, Rollup!Days
  <2>7. "command" \in Rollup!Rollers
    BY DEF Rollup!Rollers
  <2>8. roll \in Roll
    BY <1>i, <2>1, <2>4
  <2> HIDE DEF roll
  <2> QED
    BY <1>i, <1>t, <2>1, <2>2, <2>5, <2>6, <2>7, <2>8, RollerGoesOn DEF Rollup!Typed
<1>5. ASSUME NEW p \in Rollup!Rollers, Rollup!ReadDay(p) PROVE Rollup!IndInv'
  <2> DEFINE d == Rollup!Min(v4[p].days)
             counts == [b \in Buckets |-> Rollup!EndedOn(d, b)]
             left == {b \in Buckets : counts[b] > 0}
             roll == [v4[p] EXCEPT !.day = d, !.counts = counts, !.left = left]
  <2>1. v4[p] \in Roll /\ v4[p].days # {} /\ v4[p].day = 0
    BY <1>5, <1>t DEF Rollup!ReadDay
  <2>2. v4' = [v4 EXCEPT ![p] = roll] /\ UNCHANGED <<v1, v2, v3, v5, v6, v7>>
    BY <1>5 DEF Rollup!ReadDay
  <2>3. d \in v4[p].days /\ \A e \in v4[p].days : d <= e
    <3>1. v4[p].days \in SUBSET (0..Rollup!Yesterday) /\ Rollup!Yesterday \in Nat
      BY <1>t, <2>1
    <3> QED
      BY <2>1, <3>1, MinIs
  <2>4. d \in 1..Rollup!Yesterday /\ d \in Rollup!Days
    BY <1>t, <2>1, <2>3 DEF Rollup!Days
  <2> HIDE DEF d
  <2>5. \A b \in Buckets : /\ Rollup!EndedOn(d, b) \in Nat
                           /\ Rollup!EndedOn(d, b) <= Rollup!EndsOn(d, b)
    BY <1>t, <2>4, Counts
  <2>6. counts \in [Buckets -> Nat] /\ \A b \in Buckets : counts[b] = Rollup!EndedOn(d, b)
    BY <2>5
  <2> HIDE DEF counts
  <2>7. left \in SUBSET Buckets /\ \A b \in Buckets : b \in left <=> counts[b] > 0
    OBVIOUS
  <2> HIDE DEF left
  <2>8. /\ roll \in Roll /\ roll.day = d /\ roll.days = v4[p].days /\ roll.counts = counts
        /\ roll.left = left
    <3>1. d \in 0..Rollup!Yesterday
      BY <1>t, <2>4
    <3> QED
      BY <2>1, <2>6, <2>7, <3>1, Replaced
  <2>9. ASSUME NEW b \in Buckets
        PROVE  /\ Rollup!Between(d, b, roll.counts[b])
               /\ b \in roll.left \/ Rollup!EndedOn(d, b) = 0
    <3>1. roll.counts[b] = Rollup!EndedOn(d, b) /\ (b \in roll.left <=> Rollup!EndedOn(d, b) > 0)
      BY <2>6, <2>7, <2>8
    <3> QED
      BY <2>5, <3>1 DEF Rollup!Between
  <2>12. \A e \in roll.days : \A f \in 1..e : f \in roll.days \/ Rollup!Settled(f)
    BY <2>8 DEF Rollup!IndInv, Rollup!InOrder
  <2>10. v6' \subseteq 1..Rollup!Yesterday /\ v7' \subseteq Rollup!Days /\ v6' \ v6 = {}
    BY <1>t, <2>2 DEF Rollup!Typed
  <2>11. d # 0
    BY <2>4
  <2> HIDE DEF roll
  <2> QED
    BY <2>1, <2>2, <2>3, <2>8, <2>9, <2>10, <2>11, <2>12, RollerGoesOn
<1>6. ASSUME NEW p \in Rollup!Rollers, Rollup!DayDone(p) PROVE Rollup!IndInv'
  <2> DEFINE d == v4[p].day
             roll == [Rollup!Idle EXCEPT !.days = v4[p].days \ {d}]
  <2>1. v4[p] \in Roll /\ d # 0 /\ v4[p].left = {}
    BY <1>6, <1>t DEF Rollup!DayDone
  <2>2. v4' = [v4 EXCEPT ![p] = roll] /\ UNCHANGED <<v1, v2, v3, v5, v7>> /\ v6' = v6 \cup {d}
    BY <1>6 DEF Rollup!DayDone
  <2>3. /\ roll \in Roll /\ roll.days = v4[p].days \ {d} /\ roll.day = 0 /\ roll.left = {}
        /\ roll.counts = Rollup!Idle.counts
    BY <1>i, <2>1
  <2>4. v6' \subseteq 1..Rollup!Yesterday
    BY <1>t, <2>1, <2>2 DEF Rollup!Typed
  <2>5. \A f \in v6' \ v6, b \in Buckets : v3[f][b] # -1 \/ Rollup!EndedOn(f, b) = 0
    BY <2>1, <2>2 DEF Rollup!IndInv, Rollup!CountsTrue
  <2>6. \A e \in roll.days : \A f \in 1..e :
           f \in roll.days \/ Rollup!Settled(f) \/ f \in v6' \cup v7'
    BY <2>2, <2>3 DEF Rollup!IndInv, Rollup!InOrder
  <2> HIDE DEF roll
  <2> QED
    BY <1>t, <2>1, <2>2, <2>3, <2>4, <2>5, <2>6, RollerGoesOn DEF Rollup!Typed
<1>7. ASSUME NEW p \in Rollup!Rollers, Rollup!BreakOff(p) PROVE Rollup!IndInv'
  <2>1. v4[p] \in Roll /\ v4[p].day # 0
    BY <1>7, <1>t DEF Rollup!BreakOff
  <2>2. /\ v4' = [v4 EXCEPT ![p] = Rollup!Idle] /\ UNCHANGED <<v1, v2, v3, v5, v6>>
        /\ v7' = IF Rollup!Present(v4[p].day) THEN v7 \cup {v4[p].day} ELSE v7
    BY <1>7 DEF Rollup!BreakOff
  <2>3. v7 \subseteq v7' /\ v7' \subseteq Rollup!Days
    <3>1. v4[p].day \in Rollup!Days
      BY <1>t, <2>1 DEF Rollup!Days
    <3> QED
      BY <1>t, <2>2, <3>1 DEF Rollup!Typed
  <2> QED
    BY <1>i, <1>t, <2>1, <2>2, <2>3, RollerGoesOn DEF Rollup!Typed
<1>8. ASSUME NEW p \in Rollup!Rollers, NEW b \in Buckets, Rollup!WriteBucket(p, b)
      PROVE  Rollup!IndInv'
  <2> DEFINE roll == [v4[p] EXCEPT !.left = @ \ {b}]
  <2>1. v4[p] \in Roll /\ b \in v4[p].left /\ v4[p].day # 0
    <3>1. v4[p] \in Roll /\ b \in v4[p].left
      BY <1>8, <1>t DEF Rollup!WriteBucket
    <3> QED
      BY <3>1 DEF Rollup!IndInv, Rollup!InOrder
  <2>2. PICK day \in 1..Rollup!Yesterday, count \in Nat :
          day = v4[p].day /\ count = v4[p].counts[b]
    BY <1>t, <2>1
  <2>3. /\ v3' = [v3 EXCEPT ![day][b] = count] /\ v4' = [v4 EXCEPT ![p] = roll]
        /\ UNCHANGED <<v1, v2, v5, v6, v7>>
    BY <1>8, <2>2 DEF Rollup!WriteBucket, Rollup!Upsert
  <2>20. day \in Nat /\ day \in Rollup!Days /\ day < v1
    BY <1>t DEF Rollup!Days
  <2>4. /\ roll \in Roll /\ roll.day = day /\ roll.days = v4[p].days
        /\ roll.counts = v4[p].counts /\ roll.left = v4[p].left \ {b}
    BY <2>1, <2>2
  <2> HIDE DEF roll
  <2>5. v4'[p] = roll /\ \A q \in Rollup!Rollers : q # p => v4'[q] = v4[q]
    BY <1>t, <2>3
  <2>6. /\ v3' \in [Rollup!Days -> [Buckets -> Int]] /\ v3'[day][b] = count
        /\ \A d \in Rollup!Days, c \in Buckets : <<d, c>> # <<day, b>> => v3'[d][c] = v3[d][c]
    <3>1. v3 \in [Rollup!Days -> [Buckets -> Int]] /\ count \in Int
      BY <1>t DEF Rollup!Typed
    <3> QED
      BY <2>3, <2>20, <3>1
  <2>7. Rollup!Yesterday' = Rollup!Yesterday
    BY <2>3 DEF Rollup!Yesterday
  <2>8. Rollup!Between(day, b, count) /\ \A q \in Rollup!Rollers, c \in Buckets : Rollup!CountsTrue(q, c)
    BY <2>1, <2>2 DEF Rollup!IndInv, Rollup!CountsTrue
  <2>9. \A d, c, n : Rollup!Between(d, c, n)' <=> Rollup!Between(d, c, n)
    BY <2>3, CountsKept DEF Rollup!Between
  <2>10. \A d, c : Rollup!EndedOn(d, c)' = Rollup!EndedOn(d, c)
    BY <2>3, CountsKept
  <2>11. \A d \in Rollup!Days, c \in Buckets : v3[d][c] # -1 => v3'[d][c] # -1
    <3>1. count # -1
      OBVIOUS
    <3>2. \A d \in Rollup!Days, c \in Buckets : <<d, c>> = <<day, b>> \/ v3'[d][c] = v3[d][c]
      BY <2>6
    <3> QED
      BY <2>6, <3>1, <3>2
  <2>12. /\ \A d \in Rollup!Days : Rollup!Present(d) => Rollup!Present(d)'
         /\ \A d \in Rollup!Days : Rollup!Present(d)' => Rollup!Present(d) \/ d = day
         /\ Rollup!Present(day)'
    BY <2>20, <2>6, <2>11 DEF Rollup!Present
  <2>13. \A q \in Rollup!Rollers : v4'[q].day = v4[q].day /\ v4'[q].days = v4[q].days
                                    /\ v4'[q].counts = v4[q].counts
    BY <2>2, <2>4, <2>5
  <2>14. /\ \A d \in Rollup!Days : Rollup!Settled(d) => Rollup!Settled(d)'
         /\ Rollup!Settled(day)'
    BY <2>2, <2>3, <2>12, <2>13 DEF Rollup!Settled
  <2>15. Rollup!Typed'
    <3>1. v4' \in [Rollup!Rollers -> Roll]
      BY <1>t, <2>3, <2>4
    <3> QED
      BY <1>t, <2>3, <2>6, <2>7, <3>1 DEF Rollup!Typed, Rollup!Days
  <2>16. ASSUME NEW d \in Rollup!Days, NEW c \in Buckets, (v3[d][c])' # -1
         PROVE  d < v1' /\ Rollup!Between(d, c, v3[d][c])'
    <3>1. CASE d = day /\ c = b
      BY <2>3, <2>20, <2>6, <2>8, <2>10, <3>1, CountsKept DEF Rollup!Between
    <3>2. CASE ~(d = day /\ c = b)
      <4>1. v3'[d][c] = v3[d][c]
        BY <2>6, <3>2
      <4>2. d < v1 /\ Rollup!Between(d, c, v3[d][c])
        BY <2>16, <4>1 DEF Rollup!IndInv
      <4> QED
        BY <2>3, <4>1, <4>2, CountsKept DEF Rollup!Between
    <3> QED
      BY <3>1, <3>2
  <2>17. \A d \in v6', c \in Buckets : v3'[d][c] # -1 \/ Rollup!EndedOn(d, c)' = 0
    <3>1. \A d \in v6 : d \in Rollup!Days
      BY <1>t DEF Rollup!Typed, Rollup!Days
    <3> QED
      BY <2>3, <2>10, <2>11, <3>1 DEF Rollup!IndInv
  <2>18. ASSUME NEW q \in Rollup!Rollers
         PROVE  Rollup!InOrder(q)' /\ \A c \in Buckets : Rollup!CountsTrue(q, c)'
    <3>1. Rollup!InOrder(q)
      BY DEF Rollup!IndInv
    <3>2. ASSUME NEW e \in v4[q].days, NEW d \in 1..e, d \notin v4[q].days PROVE Rollup!Settled(d)'
      <4>1. Rollup!Settled(d)
        BY <3>1, <3>2 DEF Rollup!InOrder
      <4>2. d \in Rollup!Days
        BY <1>t DEF Rollup!Days
      <4> QED
        BY <2>14, <4>1, <4>2
    <3>3. v4'[q].day = 0 => v4'[q].left = {}
      BY <2>1, <2>4, <2>5, <3>1 DEF Rollup!InOrder
    <3>4. Rollup!InOrder(q)'
      BY <2>13, <3>1, <3>2, <3>3 DEF Rollup!InOrder, Rollup!Idle
    <3>5. ASSUME NEW c \in Buckets, v4[q].day # 0
          PROVE  c \in v4'[q].left \/ v3'[v4[q].day][c] # -1 \/ Rollup!EndedOn(v4[q].day, c) = 0
      <4>1. v4[q].day \in Rollup!Days
        BY <1>t, <3>5 DEF Rollup!Days
      <4>2. c \in v4[q].left \/ v3[v4[q].day][c] # -1 \/ Rollup!EndedOn(v4[q].day, c) = 0
        BY <2>8, <3>5 DEF Rollup!CountsTrue
      <4>3. CASE q = p /\ c = b
        BY <2>2, <2>6, <4>3
      <4>4. CASE ~(q = p /\ c = b)
        BY <2>4, <2>5, <2>11, <4>1, <4>2, <4>4
      <4> QED
        BY <4>3, <4>4
    <3>6. ASSUME NEW c \in Buckets PROVE Rollup!CountsTrue(q, c)'
      BY <2>3, <2>8, <2>13, <3>5, CountsKept DEF Rollup!CountsTrue, Rollup!Between
    <3> QED
      BY <3>4, <3>6
  <2>19. ASSUME NEW e \in Rollup!Days, Rollup!Present(e)', NEW d \in 1..e PROVE Rollup!Settled(d)'
    <3>1. d \in Rollup!Days
      BY <1>t DEF Rollup!Days
    <3>2. CASE Rollup!Present(e)
      BY <2>14, <3>1, <3>2 DEF Rollup!IndInv
    <3>3. CASE e = day
      <4>1. Rollup!InOrder(p)
        BY DEF Rollup!IndInv
      <4>2. day \in v4[p].days /\ \A f \in v4[p].days : day <= f
        BY <2>1, <2>2, <4>1 DEF Rollup!InOrder
      <4>3. CASE d \in v4[p].days
        <5>1. d = day
          BY <2>20, <3>3, <4>2, <4>3
        <5> QED
          BY <2>14, <5>1
      <4>4. CASE d \notin v4[p].days
        BY <2>14, <3>1, <3>3, <4>1, <4>2, <4>4 DEF Rollup!InOrder
      <4> QED
        BY <4>3, <4>4
    <3> QED
      BY <2>12, <2>19, <3>2, <3>3
  <2> QED
    BY <2>15, <2>16, <2>17, <2>18, <2>19 DEF Rollup!IndInv, Rollup!Days
<1>9. CASE UNCHANGED Rollup!vars
  <2>1. UNCHANGED <<v1, v2, v3, v4, v5, v6, v7>>
    BY <1>9 DEF Rollup!vars
  <2>2. \A d : Rollup!Settled(d)' <=> Rollup!Settled(d)
    BY <2>1 DEF Rollup!Settled, Rollup!Present
  <2>3. \A d, c, n : Rollup!Between(d, c, n)' <=> Rollup!Between(d, c, n)
    BY <2>1, CountsKept DEF Rollup!Between
  <2>4. \A d, c : Rollup!EndedOn(d, c)' = Rollup!EndedOn(d, c)
    BY <2>1, CountsKept
  <2>5. Rollup!Typed'
    BY <1>t, <2>1 DEF Rollup!Typed, Rollup!Days, Rollup!Yesterday
  <2>6. \A d \in Rollup!Days, b \in Buckets :
           (v3[d][b])' # -1 => d < v1' /\ Rollup!Between(d, b, v3[d][b])'
    BY <2>1, CountsKept DEF Rollup!IndInv, Rollup!Between
  <2>7. \A d \in v6', b \in Buckets : v3'[d][b] # -1 \/ Rollup!EndedOn(d, b)' = 0
    BY <2>1, <2>4 DEF Rollup!IndInv
  <2>8. \A p \in Rollup!Rollers : Rollup!InOrder(p)'
    BY <2>1, <2>2 DEF Rollup!IndInv, Rollup!InOrder, Rollup!Idle
  <2>9. \A p \in Rollup!Rollers, b \in Buckets : Rollup!CountsTrue(p, b)'
    BY <2>1, CountsKept DEF Rollup!IndInv, Rollup!CountsTrue, Rollup!Between
  <2>10. \A e \in Rollup!Days : Rollup!Present(e)' => \A d \in 1..e : Rollup!Settled(d)'
    BY <2>1, <2>2 DEF Rollup!IndInv, Rollup!Present
  <2> QED
    BY <2>5, <2>6, <2>7, <2>8, <2>9, <2>10 DEF Rollup!IndInv, Rollup!Days
<1> QED
  BY <1>1, <1>2, <1>3, <1>4, <1>5, <1>6, <1>7, <1>8, <1>9 DEF Rollup!Next

\* So a rolled day is right and none is silently left out.
LEMMA RollupShows ==
  ASSUME RollupAssumption PROVE Rollup!IndInv => Rollup!RollupExact
<1> SUFFICES ASSUME Rollup!IndInv PROVE Rollup!RollupExact
  OBVIOUS
<1>1. /\ Rollup!Typed /\ v1 \in 1..MaxDay /\ MaxDay \in Nat /\ v6 \subseteq Rollup!Days
      /\ v3 \in [Rollup!Days -> [Buckets -> Int]]
  BY DEF RollupAssumption, Rollup!IndInv, Rollup!Typed, Rollup!Days, Rollup!Yesterday
<1>2. Rollup!RowsTrue
  <2> SUFFICES ASSUME NEW d \in v6, NEW b \in Buckets
               PROVE  /\ v3[d][b] >= Rollup!EndedOn(d, b) \/ Rollup!EndedOn(d, b) = 0
                      /\ v3[d][b] <= Rollup!EndsOn(d, b)
    BY DEF Rollup!RowsTrue
  <2>1. d \in Rollup!Days /\ v3[d][b] \in Int
    BY <1>1
  <2>2. Rollup!EndedOn(d, b) \in Nat /\ Rollup!EndsOn(d, b) \in Nat
    BY <1>1, <2>1, Counts
  <2>3. v3[d][b] # -1 => Rollup!EndedOn(d, b) <= v3[d][b] /\ v3[d][b] <= Rollup!EndsOn(d, b)
    BY <2>1 DEF Rollup!IndInv, Rollup!Between
  <2>4. v3[d][b] # -1 \/ Rollup!EndedOn(d, b) = 0
    BY DEF Rollup!IndInv
  <2> QED
    BY <2>1, <2>2, <2>3, <2>4
<1>3. Rollup!NoDayLeftOut
  <2> SUFFICES ASSUME NEW d \in Rollup!Days, d < Rollup!Latest,
                      v4 = [p \in Rollup!Rollers |-> Rollup!Idle]
               PROVE  d \in v6 \cup v7
    BY DEF Rollup!NoDayLeftOut
  <2>1. Rollup!Latest \in Rollup!Days /\ Rollup!Present(Rollup!Latest)
    BY <1>1, LatestIs DEF Rollup!Days
  <2>2. Rollup!Settled(d)
    BY <2>1 DEF Rollup!IndInv, Rollup!Days
  <2>3. \A p \in Rollup!Rollers : v4[p].day = 0
    BY DEF Rollup!Idle
  <2> QED
    BY <2>2, <2>3 DEF Rollup!Settled, Rollup!Days
<1> QED
  BY <1>2, <1>3 DEF Rollup!RollupExact

-----------------------------------------------------------------------------
(* GhLinearSync: open v1, labelled v2, ticket v3, job v4, asked v5, listed v6,*)
(* looked v7, blind v8, since v9, failed v10.                              *)

\* No issue has a ticket at the start.
LEMMA SyncBegins == Sync!Init => Sync!IndInv
  BY DEF Sync!Init, Sync!IndInv, Sync!TypeOK, Sync!OneTicket, Sync!Unlooked, Sync!Tickets

\* The page of a label is a matter of the open items and of the labels.
LEMMA PageKept ==
  ASSUME UNCHANGED <<v1, v2>>
  PROVE  \A i, l : Sync!OnPage(i, l)' <=> Sync!OnPage(i, l)
  BY DEF Sync!OnPage

\* An issue that is looked up and has a ticket is not given another one.
LEMMA SyncSteps == Sync!IndInv /\ [Sync!Next]_(Sync!vars) => Sync!IndInv'
<1> SUFFICES ASSUME Sync!IndInv, [Sync!Next]_(Sync!vars)
             PROVE  Sync!IndInv'
  OBVIOUS
<1> USE DEF Sync!IndInv, Sync!TypeOK, Sync!OneTicket, Sync!Tickets
<1>1. CASE Sync!Start
  BY <1>1, PageKept DEF Sync!Start, Sync!OnPage
<1>2. CASE Sync!AllListed
  BY <1>2 DEF Sync!AllListed
<1>3. CASE Sync!FailRun
  BY <1>3 DEF Sync!FailRun, Sync!StopRun, Sync!Unlooked
<1>4. CASE Sync!Write
  BY <1>4 DEF Sync!Write
<1>5. CASE Sync!EndRun
  BY <1>5 DEF Sync!EndRun, Sync!StopRun, Sync!Unlooked
<1>6. ASSUME NEW l \in Labels, Sync!List(l) PROVE Sync!IndInv'
  <2>1. {i \in Items : Sync!OnPage(i, l)} \subseteq Items \ Pulls
    BY DEF Sync!OnPage
  <2> QED
    BY <1>6, <2>1, PageKept DEF Sync!List, Sync!Unlooked
<1>7. ASSUME NEW i \in Items, Sync!LookUp(i) PROVE Sync!IndInv'
  BY <1>7 DEF Sync!LookUp, Sync!Seen
<1>8. ASSUME NEW i \in Items, Sync!LookUpFails(i) PROVE Sync!IndInv'
  BY <1>8 DEF Sync!LookUpFails
<1>9. ASSUME NEW i \in Items, Sync!Create(i) PROVE Sync!IndInv'
  BY <1>9 DEF Sync!Create, Sync!Settled
<1>10. ASSUME NEW i \in Items, Sync!Close(i) PROVE Sync!IndInv'
  BY <1>10 DEF Sync!Close, Sync!Settled, Sync!StillOnPage
<1>11. ASSUME NEW i \in Items, Sync!WriteFails(i) PROVE Sync!IndInv'
  BY <1>11 DEF Sync!WriteFails, Sync!Settled
<1>12. ASSUME NEW i \in Items, Sync!People(i) PROVE Sync!IndInv'
  BY <1>12 DEF Sync!People, Sync!StillOnPage
<1>13. CASE UNCHANGED Sync!vars
  BY <1>13, PageKept DEF Sync!vars
<1> QED
  BY <1>1, <1>2, <1>3, <1>4, <1>5, <1>6, <1>7, <1>8, <1>9, <1>10, <1>11, <1>12, <1>13
     DEF Sync!Next

\* So an issue has one ticket at most.
LEMMA SyncShows == Sync!IndInv => Sync!OneTicket
  BY DEF Sync!IndInv

\* A run ends in one action only, and what it has not listed any more it has dealt with.
LEMMA SyncRunTickets == Sync!IndInv /\ [Sync!Next]_(Sync!vars) => Sync!RunTickets
<1> SUFFICES ASSUME Sync!IndInv, [Sync!Next]_(Sync!vars), v4 = "write", v4' = "idle"
             PROVE  \A x \in v9 : v3[x[1]] # "none" \/ x[1] \in v10
  BY DEF Sync!RunTickets
<1>1. Sync!EndRun
  BY DEF Sync!Next, Sync!vars, Sync!Start, Sync!AllListed, Sync!FailRun, Sync!Write, Sync!List,
         Sync!LookUp, Sync!LookUpFails, Sync!Create, Sync!Close, Sync!WriteFails, Sync!People,
         Sync!Settled
<1> QED
  BY <1>1 DEF Sync!IndInv, Sync!TypeOK, Sync!EndRun

-----------------------------------------------------------------------------
(* QaGap: present v1, known v2, tracked v3, openGaps v4, gapTries v5,      *)
(* tries v6, tick v7, seen v8, verdict v9, issues v10, excuses v11, fails v12.*)

\* No gap is known at the start.
LEMMA GapBegins == ASSUME GapAssumption PROVE Gap!Init => Gap!IndInv
<1> SUFFICES ASSUME Gap!Init PROVE Gap!IndInv
  OBVIOUS
<1>1. {v1, v2, v3} \subseteq BOOLEAN /\ v8 \in [file : BOOLEAN, told : BOOLEAN, old : BOOLEAN]
  BY DEF Gap!Init, Gap!Unseen
<1>2. Gap!TypeOK
  BY <1>1 DEF GapAssumption, Gap!Init, Gap!TypeOK, Gap!NoVerdict, Gap!MaxTries
<1> QED
  BY <1>2 DEF GapAssumption, Gap!Init, Gap!IndInv, Gap!TypeOK, Gap!OneIssue, Gap!GivenUpFairly,
              Gap!NoVerdict, Gap!Unseen

\* An issue is filed for a gap that has none, unless what was read of it is excused;
\* the tries are those of failures in a row.
LEMMA GapSteps == ASSUME GapAssumption PROVE Gap!IndInv /\ [Gap!Next]_(Gap!gapVars) => Gap!IndInv'
<1> SUFFICES ASSUME Gap!IndInv, [Gap!Next]_(Gap!gapVars)
             PROVE  Gap!IndInv'
  OBVIOUS
<1> USE DEF GapAssumption, Gap!IndInv, Gap!TypeOK, Gap!OneIssue, Gap!GivenUpFairly, Gap!rows,
            Gap!MaxTries, Gap!Excuse, Gap!Goto, Gap!Over, Gap!Record, Gap!Unseen, Gap!NoVerdict
<1>1. CASE Gap!Begin
  <2>1. Gap!TypeOK'
    BY <1>1 DEF Gap!Begin
  <2>2. v8'.file = v1 /\ v8'.old = FALSE
    BY <1>1 DEF Gap!Begin
  <2>3. v7 = "idle" /\ v7' = "check" /\ UNCHANGED <<v1, v4, v6, v9, v10, v11, v12>>
    BY <1>1 DEF Gap!Begin
  <2> QED
    BY <2>1, <2>2, <2>3
<1>2. CASE Gap!Resolve
  BY <1>2 DEF Gap!Resolve
<1>3. CASE Gap!NotNow
  BY <1>3 DEF Gap!NotNow
<1>4. CASE Gap!Missing
  BY <1>4 DEF Gap!Missing, Gap!Exists
<1>5. CASE Gap!Unknown
  BY <1>5 DEF Gap!Unknown
<1>6. CASE Gap!Misconfigured
  <2>1. Gap!TypeOK'
    BY <1>6 DEF Gap!Misconfigured, Gap!NeedsTrigger
  <2> QED
    BY <1>6, <2>1 DEF Gap!Misconfigured, Gap!NeedsTrigger
<1>7. CASE Gap!DispatchError
  <2>1. Gap!TypeOK'
    BY <1>7 DEF Gap!DispatchError, Gap!NeedsTrigger
  <2> QED
    BY <1>7, <2>1 DEF Gap!DispatchError, Gap!NeedsTrigger
<1>8. ASSUME NEW told \in BOOLEAN, Gap!Check(told) PROVE Gap!IndInv'
  BY <1>8 DEF Gap!Check
<1>9. ASSUME NEW there \in BOOLEAN, Gap!Dispatched(there) PROVE Gap!IndInv'
  <2>1. v3' \in BOOLEAN
    BY <1>9, Zenon DEF Gap!Dispatched
  <2>2. {v1, v2, v3}' \subseteq BOOLEAN /\ v6' \in 0..Gap!MaxTries - 1 /\ v12' \in 0..Gap!MaxTries
    BY <1>9, <2>1 DEF Gap!Dispatched, Gap!Clear
  <2>3. Gap!TypeOK'
    <3>1. CASE there
      <4>1. v8' \in [file : BOOLEAN, told : BOOLEAN, old : BOOLEAN]
        <5>1. v8' = [file |-> FALSE, told |-> TRUE, old |-> FALSE]
          BY <1>9, <3>1 DEF Gap!Dispatched
        <5> QED
          BY <5>1
      <4>2. v7' = "idle" /\ v9'.attempts = 0 /\ UNCHANGED <<v4, v5, v10, v11>>
        BY <1>9, <3>1 DEF Gap!Dispatched
      <4> QED
        BY <2>2, <4>1, <4>2
    <3>2. CASE ~there
      BY <1>9, <2>2, <3>2 DEF Gap!Dispatched
    <3> QED
      BY <3>1, <3>2
  <2> QED
    BY <1>9, <2>3 DEF Gap!Dispatched, Gap!Clear, Gap!NeedsTrigger
<1>10. CASE Gap!Lookup
  BY <1>10 DEF Gap!Lookup, Gap!Filed
<1>11. ASSUME NEW kept \in BOOLEAN, NEW told \in BOOLEAN, Gap!Create(kept, told)
       PROVE  Gap!IndInv'
  BY <1>11 DEF Gap!Create, Gap!GapError
<1>12. CASE Gap!Insert
  BY <1>12 DEF Gap!Insert
<1>13. CASE Gap!Persist
  <2>1. v5' \in 0..Gap!MaxTries - 1 /\ v6' \in 0..Gap!MaxTries - 1
    BY <1>13 DEF Gap!Persist, Gap!Larger
  <2>2. Gap!TypeOK'
    BY <1>13, <2>1 DEF Gap!Persist
  <2> QED
    BY <1>13, <2>2 DEF Gap!Persist, Gap!Larger
<1>14. CASE Gap!Throw
  BY <1>14 DEF Gap!Throw
<1>15. CASE Gap!Register
  <2>1. v1 /\ v2' = TRUE /\ UNCHANGED <<v1, v3, v4, v5, v6, v7, v8, v9, v10, v11, v12>>
    BY <1>15 DEF Gap!Register
  <2>2. Gap!TypeOK'
    BY <2>1
  <2> QED
    BY <2>1, <2>2
<1>16. ASSUME NEW file \in BOOLEAN, Gap!Push(file) PROVE Gap!IndInv'
  <2>1. v2' \in BOOLEAN /\ v1' \in BOOLEAN /\ v3' \in BOOLEAN
    <3>1. v2' \in BOOLEAN
      BY <1>16, Zenon DEF Gap!Push
    <3> QED
      BY <1>16, <3>1 DEF Gap!Push
  <2>2. {v1, v2, v3}' \subseteq BOOLEAN
    BY <2>1
  <2>3. /\ v8' \in [file : BOOLEAN, told : BOOLEAN, old : BOOLEAN]
        /\ v7 = "idle" => v8' = v8
        /\ v7 # "idle" => v8'.old = TRUE
    BY <1>16 DEF Gap!Push
  <2>4. v6' = 0 /\ v12' = 0 /\ UNCHANGED <<v4, v5, v7, v9>>
    BY <1>16 DEF Gap!Push
  <2>5. /\ v1' = v1 => UNCHANGED <<v10, v11>>
        /\ v1' # v1 => v10' = 0 /\ v11' = 0
    BY <1>16 DEF Gap!Push
  <2>6. Gap!TypeOK'
    BY <2>2, <2>3, <2>4, <2>5
  <2>7. v8'.file = v8.file
    BY <1>16 DEF Gap!Push
  <2>8. CASE v1' = v1
    <3>1. UNCHANGED <<v1, v10, v11>>
      BY <2>5, <2>8
    <3> QED
      BY <2>3, <2>4, <2>6, <2>7, <3>1
  <2>9. CASE v1' # v1
    <3>1. v10' = 0 /\ v11' = 0
      BY <2>5, <2>9
    <3> QED
      BY <2>3, <2>4, <2>6, <3>1
  <2> QED
    BY <2>8, <2>9
<1>17. CASE UNCHANGED Gap!gapVars
  BY <1>17 DEF Gap!gapVars
<1> QED
  BY <1>1, <1>2, <1>3, <1>4, <1>5, <1>6, <1>7, <1>8, <1>9, <1>10, <1>11, <1>12, <1>13,
     <1>14, <1>15, <1>16, <1>17 DEF Gap!Next

\* So a gap has one issue, and is given up after failures in a row only.
LEMMA GapShows == Gap!IndInv => Gap!OneIssue /\ Gap!GivenUpFairly
  BY DEF Gap!IndInv

-----------------------------------------------------------------------------
(* FileOverlap: dirty v1, committed v2, pushed v3, listed v4, row v5, step v6,*)
(* heard v7, unsure v8, pm v9, toRead v10, known v11, early v12.           *)

\* No run works on a file at the start.
LEMMA WorkBegins == ASSUME RowAssumption PROVE Work!Init => Work!IndInv
  BY DEF Work!Init, Work!IndInv, Work!TypeOK, Work!OneHasHeard, Work!AskedIfChanged, Work!None,
         Work!At

\* A run announces its files before it looks at those of the others.
LEMMA WorkSteps ==
  ASSUME RowAssumption PROVE Work!IndInv /\ [Work!Next]_(Work!overlapVars) => Work!IndInv'
<1> SUFFICES ASSUME Work!IndInv, [Work!Next]_(Work!overlapVars)
             PROVE  Work!IndInv'
  OBVIOUS
<1> USE DEF RowAssumption, Work!IndInv, Work!TypeOK, Work!OneHasHeard, Work!AskedIfChanged,
            Work!At, Work!Announced, Work!Changed, Work!pmVars, Work!runVars
<1>1. ASSUME NEW r \in Runs, NEW resumed \in BOOLEAN, NEW ok \in BOOLEAN, Work!Start(r, resumed, ok)
      PROVE  Work!IndInv'
  <2>1. /\ v6[r] = "out" /\ v6' = [v6 EXCEPT ![r] = "before"]
        /\ UNCHANGED <<v4, v7, v8, v9, v10, v11, v12>>
    BY <1>1 DEF Work!Start, Work!Goto
  <2>2. v5' = IF ok THEN [v5 EXCEPT ![r] = NoRow] ELSE v5
    BY <1>1 DEF Work!Start
  <2>3. \/ UNCHANGED <<v1, v2, v3>>
        \/ /\ v1' = [v1 EXCEPT ![r] = {}] /\ v2' = [v2 EXCEPT ![r] = {}]
           /\ v3' = [v3 EXCEPT ![r] = {}]
    BY <1>1 DEF Work!Start
  <2>4. Work!TypeOK'
    BY <2>1, <2>2, <2>3
  <2>5. r \notin v12 \/ v9 # "read"
    BY <2>1
  <2> QED
    BY <2>1, <2>2, <2>3, <2>4, <2>5
<1>2. ASSUME NEW r \in Runs, NEW ok \in BOOLEAN, Work!Announce(r, ok) PROVE Work!IndInv'
  BY <1>2 DEF Work!Announce, Work!Goto
<1>3. ASSUME NEW r \in Runs, NEW ok \in BOOLEAN, Work!Look(r, ok) PROVE Work!IndInv'
  <2>1. /\ UNCHANGED <<v1, v2, v3, v4, v5, v9, v10, v11, v12>>
        /\ v6 \in [Runs -> {"out", "before", "look", "stage"}] /\ v6[r] = "look"
        /\ v6' = [v6 EXCEPT ![r] = "stage"]
        /\ v8' = IF ok THEN v8 ELSE v8 \cup {r}
    BY <1>3 DEF Work!Look, Work!Goto, Work!Doubt
  <2>2. v7' = [v7 EXCEPT ![r] = IF ok THEN Work!Overlapping(r) ELSE {}]
    BY <1>3 DEF Work!Look
  <2>3. Work!Overlapping(r) \in SUBSET Runs
    BY DEF Work!Overlapping
  <2>4. Work!TypeOK'
    BY <2>1, <2>2, <2>3
  <2>5. ASSUME NEW p \in Runs, p # r, p \notin v8', v6'[p] = "stage", v4[r] \cap v4[p] # {}, ok
        PROVE  p \in v7'[r]
    <3>1. v6[p] = "stage" /\ p \notin v8
      BY <2>1, <2>5
    <3>2. v5[p] = v4[p] /\ v5[p] # NoRow
      BY <2>5, <3>1
    <3>3. p \in Work!Overlapping(r)
      BY <2>5, <3>2 DEF Work!Overlapping
    <3> QED
      BY <2>2, <2>5, <3>3
  <2>6. Work!OneHasHeard'
    <3> SUFFICES ASSUME NEW p \in Runs, NEW q \in Runs, p # q, v6'[p] = "stage", v6'[q] = "stage",
                        p \notin v8', q \notin v8', v4[p] \cap v4[q] # {}
                 PROVE  q \in v7'[p] \/ p \in v7'[q]
      BY <2>1
    <3>1. CASE p = r
      BY <2>1, <2>5, <3>1
    <3>2. CASE q = r
      BY <2>1, <2>5, <3>2
    <3>3. CASE p # r /\ q # r
      <4>1. v6[p] = "stage" /\ v6[q] = "stage" /\ p \notin v8 /\ q \notin v8
        BY <2>1, <3>3
      <4>2. v7'[p] = v7[p] /\ v7'[q] = v7[q]
        BY <2>2, <3>3
      <4> QED
        BY <4>1, <4>2
    <3> QED
      BY <3>1, <3>2, <3>3
  <2>7. \A p \in Runs \ v8' : v6'[p] \in {"look", "stage"} => v5[p] = Work!Announced(p)
    BY <2>1
  <2> QED
    BY <2>1, <2>4, <2>6, <2>7
<1>4. ASSUME NEW r \in Runs, NEW f \in Paths, Work!Edit(r, f) PROVE Work!IndInv'
  BY <1>4 DEF Work!Edit
<1>5. ASSUME NEW r \in Runs, Work!Commit(r) PROVE Work!IndInv'
  BY <1>5 DEF Work!Commit
<1>6. ASSUME NEW r \in Runs, NEW stated \in BOOLEAN, NEW log \in BOOLEAN,
             Work!EndStage(r, stated, log)
      PROVE  Work!IndInv'
  BY <1>6 DEF Work!EndStage, Work!Modified, Work!Goto
<1>7. ASSUME NEW r \in Runs, Work!Push(r) PROVE Work!IndInv'
  BY <1>7 DEF Work!Push
<1>8. ASSUME NEW r \in Runs, NEW ok \in BOOLEAN, Work!End(r, ok) PROVE Work!IndInv'
  BY <1>8 DEF Work!End, Work!Goto
<1>9. ASSUME NEW r \in Runs, Work!Terminate(r) PROVE Work!IndInv'
  BY <1>9 DEF Work!Terminate, Work!Doubt
<1>10. CASE Work!Gather
  BY <1>10 DEF Work!Gather, Work!Active
<1>11. CASE Work!AskOrNot
  BY <1>11 DEF Work!AskOrNot, Work!Over
<1>12. CASE Work!TickOver
  BY <1>12 DEF Work!TickOver, Work!Over
<1>13. ASSUME NEW r \in Runs, NEW diff \in BOOLEAN, NEW stated \in BOOLEAN, Work!Read(r, diff, stated),
              stated = TRUE \/ v3[r] = {}
       PROVE  Work!IndInv'
  BY <1>13 DEF Work!Read, Work!Seen
<1>14. CASE UNCHANGED Work!overlapVars
  BY <1>14 DEF Work!overlapVars
<1>15. ASSUME NEW r \in Runs, Work!RunStep(r) PROVE Work!IndInv'
  BY <1>1, <1>2, <1>3, <1>4, <1>5, <1>6, <1>7, <1>8, <1>9, <1>15, Zenon DEF Work!RunStep
<1> QED
  BY <1>10, <1>11, <1>12, <1>13, <1>14, <1>15 DEF Work!Next

\* So of two runs with a file in common one has heard of it, and the PM agent
\* knows of the files that changed when it was asked.
LEMMA WorkShows == Work!IndInv => Work!OneHasHeard /\ Work!AskedIfChanged
  BY DEF Work!IndInv

-----------------------------------------------------------------------------
(* All machines.                                                           *)

\* The invariant of the machine that is at work.
ServerInv ==
    /\ part = "approvals" => Ask!IndInv
    /\ part = "budget" => Budget!IndInv
    /\ part = "setup" => Onboarding!IndInv
    /\ part = "db" => Db!IndInv
    /\ part = "tunnel" => Public!IndInv
    /\ part = "config" => Config!IndInv
    /\ part = "intake" => Intake!IndInv
    /\ part = "rollup" => Rollup!IndInv
    /\ part = "sync" => Sync!IndInv
    /\ part = "gap" => Gap!IndInv
    /\ part = "work" => Work!IndInv

\* The machine that is chosen starts in its own initial state.
LEMMA ServerBegins == ServerInit => ServerInv
<1> SUFFICES ASSUME ServerInit PROVE ServerInv
  OBVIOUS
<1>1. /\ part = "approvals" => Ask!Init
      /\ part = "budget" => Budget!Init
      /\ part = "setup" => Onboarding!Init
      /\ part = "db" => Db!Init
      /\ part = "tunnel" => Public!Init
      /\ part = "config" => Config!Init
      /\ part = "intake" => Intake!Init
      /\ part = "rollup" => Rollup!Init
      /\ part = "sync" => Sync!Init
      /\ part = "gap" => Gap!Init
      /\ part = "work" => Work!Init
  BY DEF ServerInit
<1> QED
  BY <1>1, ApprovalsBegin, BudgetBegins, SetupBegins, DbBegins, TunnelBegins, ConfigBegins,
     IntakeBegins, RollupBegins, SyncBegins, GapBegins, WorkBegins, ApprovalAssumption,
     RollupAssumption, AttemptAssumption, SchemaAssumption, ConfigAssumption, AlertAssumption,
     GapAssumption, RowAssumption DEF ServerInv

\* A step is one of the machine at work, or leaves it alone; no other one takes over.
LEMMA ServerTurns ==
  ASSUME [ServerNext]_serverVars
  PROVE  /\ part' = part
         /\ part = "approvals" => [Ask!Next]_(Ask!vars)
         /\ part = "budget" => [Budget!Next]_(Budget!vars)
         /\ part = "setup" => [Onboarding!Next]_(Onboarding!vars)
         /\ part = "db" => [Db!Next]_(Db!vars)
         /\ part = "tunnel" => [Public!Next]_(Public!vars)
         /\ part = "config" => [Config!Next]_(Config!vars)
         /\ part = "intake" => [Intake!Next]_(Intake!vars)
         /\ part = "rollup" => [Rollup!Next]_(Rollup!vars)
         /\ part = "sync" => [Sync!Next]_(Sync!vars)
         /\ part = "gap" => [Gap!Next]_(Gap!gapVars)
         /\ part = "work" => [Work!Next]_(Work!overlapVars)
<1>1. CASE UNCHANGED serverVars
  <2>1. UNCHANGED <<part, v1, v2, v3, v4, v5, v6, v7, v8, v9, v10, v11, v12>>
    BY <1>1 DEF serverVars
  <2>2. /\ UNCHANGED Ask!vars /\ UNCHANGED Budget!vars /\ UNCHANGED Onboarding!vars
        /\ UNCHANGED Db!vars /\ UNCHANGED Public!vars /\ UNCHANGED Config!vars
    BY <2>1 DEF Ask!vars, Budget!vars, Onboarding!vars, Db!vars, Public!vars, Config!vars
  <2>3. /\ UNCHANGED Intake!vars /\ UNCHANGED Rollup!vars /\ UNCHANGED Sync!vars
        /\ UNCHANGED Gap!gapVars /\ UNCHANGED Work!overlapVars
    BY <2>1 DEF Intake!vars, Rollup!vars, Sync!vars, Gap!gapVars, Gap!rows, Work!overlapVars,
       Work!pmVars, Work!runVars
  <2> QED
    BY <2>1, <2>2, <2>3
<1>2. CASE ServerNext /\ serverVars' # serverVars
  <2>1. part' = part
    BY <1>2, Zenon DEF ServerNext
  <2>2. part = "approvals" => Ask!Next
    BY <1>2, Zenon DEF ServerNext
  <2>3. part = "budget" => Budget!Next
    BY <1>2, Zenon DEF ServerNext
  <2>4. part = "setup" => Onboarding!Next
    BY <1>2, Zenon DEF ServerNext
  <2>5. part = "db" => Db!Next
    BY <1>2, Zenon DEF ServerNext
  <2>6. part = "tunnel" => Public!Next
    BY <1>2, Zenon DEF ServerNext
  <2>7. part = "config" => Config!Next
    BY <1>2, Zenon DEF ServerNext
  <2>8. part = "intake" => Intake!Next
    BY <1>2, Zenon DEF ServerNext
  <2>9. part = "rollup" => Rollup!Next
    BY <1>2, Zenon DEF ServerNext
  <2>10. part = "sync" => Sync!Next
    BY <1>2, Zenon DEF ServerNext
  <2>11. part = "gap" => Gap!Next
    BY <1>2, Zenon DEF ServerNext
  <2>12. part = "work" => Work!Next
    BY <1>2, Zenon DEF ServerNext
  <2> QED
    BY <2>1, <2>2, <2>3, <2>4, <2>5, <2>6, <2>7, <2>8, <2>9, <2>10, <2>11, <2>12
<1> QED
  BY <1>1, <1>2

\* Every step keeps the invariant of the machine at work.
LEMMA ServerSteps == ServerInv /\ [ServerNext]_serverVars => ServerInv'
<1> SUFFICES ASSUME ServerInv, [ServerNext]_serverVars PROVE ServerInv'
  OBVIOUS
<1>1. part' = part
  BY ServerTurns
<1>2. part = "approvals" => Ask!IndInv'
  BY ServerTurns, ApprovalsSteps, ApprovalAssumption DEF ServerInv
<1>3. part = "budget" => Budget!IndInv'
  BY ServerTurns, BudgetSteps DEF ServerInv
<1>4. part = "setup" => Onboarding!IndInv'
  BY ServerTurns, SetupSteps, AttemptAssumption DEF ServerInv
<1>5. part = "db" => Db!IndInv'
  BY ServerTurns, DbSteps, SchemaAssumption DEF ServerInv
<1>6. part = "tunnel" => Public!IndInv'
  BY ServerTurns, TunnelSteps DEF ServerInv
<1>7. part = "config" => Config!IndInv'
  BY ServerTurns, ConfigSteps, ConfigAssumption DEF ServerInv
<1>8. part = "intake" => Intake!IndInv'
  BY ServerTurns, IntakeSteps, AlertAssumption DEF ServerInv
<1>9. part = "rollup" => Rollup!IndInv'
  BY ServerTurns, RollupSteps, RollupAssumption DEF ServerInv
<1>10. part = "sync" => Sync!IndInv'
  BY ServerTurns, SyncSteps DEF ServerInv
<1>11. part = "gap" => Gap!IndInv'
  BY ServerTurns, GapSteps, GapAssumption DEF ServerInv
<1>12. part = "work" => Work!IndInv'
  BY ServerTurns, WorkSteps, RowAssumption DEF ServerInv
<1> QED
  BY <1>1, <1>2, <1>3, <1>4, <1>5, <1>6, <1>7, <1>8, <1>9, <1>10, <1>11, <1>12 DEF ServerInv

\* The invariants of the machines hold at all times.
THEOREM ServerInvAlways == ServerSpec => []ServerInv
  BY ServerBegins, ServerSteps, PTL DEF ServerSpec

\* SaidOnce (resolve-approvals.ts and the actions that ask, budget-alerts.ts, the Sentry and
\* CloudWatch handlers, gh-linear-sync.ts, qa/gap.ts): what is asked, announced or filed goes
\* out once.
THEOREM SaidOnceAlways == ServerSpec => []SaidOnce
<1>1. ServerInv => SaidOnce
  BY ApprovalsShow, BudgetShows, IntakeShows, SyncShows, GapShows, ApprovalAssumption
     DEF ServerInv, SaidOnce
<1> QED
  BY <1>1, ServerInvAlways, PTL

\* ServerSound (bootstrap.ts, migrator.ts, tunnel.ts, config-watcher.ts, rollup.ts,
\* coordination.ts, qa/gap.ts): the server that runs is the one that was set up.
THEOREM ServerSoundAlways == ServerSpec => []ServerSound
<1>1. ServerInv => ServerSound
  BY SetupShows, DbShows, TunnelShows, ConfigShows, RollupShows, WorkShows, GapShows,
     RollupAssumption DEF ServerInv, ServerSound
<1> QED
  BY <1>1, ServerInvAlways, PTL

\* IssueTicketed (gh-linear-sync.ts): an issue that stayed on the page from the start of a
\* run of the sync to its end has a ticket by then, or a failure was met.
THEOREM IssueTicketedAlways == ServerSpec => IssueTicketed
<1>1. ServerInv /\ [ServerNext]_serverVars
        => [part = "sync" => Sync!RunTickets]_<<part, v1, v2, v3, v4, v5, v6, v7, v8, v9, v10>>
  BY ServerTurns, SyncRunTickets DEF ServerInv
<1> QED
  BY <1>1, ServerInvAlways, PTL DEF ServerSpec, IssueTicketed

\* The execution among the other machines (runner.ts): it takes its own steps or none, so that
\* what is proved of it by itself holds here as well.
THEOREM ExecutionKept ==
  ServerSpec => /\ [](SessionInSync /\ WithinBudget /\ ReadyIsClean /\ SectionExclusive)
                /\ MergeIsEarned
<1>1. ServerInit => Init
  BY DEF ServerInit
<1>2. ASSUME [ServerNext]_serverVars
      PROVE  [Next]_vars
  <2>1. CASE UNCHANGED serverVars
    BY <2>1 DEF serverVars
  <2>2. CASE ServerNext /\ serverVars' # serverVars
    BY <2>2, Zenon DEF ServerNext
  <2> QED
    BY <1>2, <2>1, <2>2
<1>3. ServerSpec => Steps
  BY <1>1, <1>2, PTL DEF ServerSpec, Steps
<1> QED
  BY <1>3, SessionKept, BudgetKept, ReadyKept, SectionKept, MergeKept, PTL
=============================================================================
