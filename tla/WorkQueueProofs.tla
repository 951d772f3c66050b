-------------------------- MODULE WorkQueueProofs --------------------------
(***************************************************************************)
(* The safety properties of WorkQueue hold for every set of jobs and every *)
(* concurrency.  CountersExact is inductive with the types; WorkConserving *)
(* needs both it (a running job makes the counter positive) and            *)
(* WaitersDistinct (the waiter that release() wakes is a waiting job).     *)
(***************************************************************************)
EXTENDS WorkQueue, TLAPS, FiniteSetTheorems, SequenceTheorems

\* The inductive invariant.
Inv == TypeOK /\ WaitersDistinct /\ CountersExact /\ WorkConserving

\* The jobs that f puts in state s: In(s) of the state whose job is f.
Where(f, s) == {j \in Jobs : f[j] = s}

\* g is f but for job j, which went from state s to state t.
Moved(f, g, j, s, t) ==
    /\ f \in [Jobs -> JobStates] /\ j \in Jobs
    /\ f[j] = s /\ s # t /\ g = [f EXCEPT ![j] = t]

-----------------------------------------------------------------------------
(* Lemmas.                                                                 *)

\* Every set of jobs is finite and has a natural number of elements.
LEMMA WhereFinite ==
  ASSUME NEW f, NEW s
  PROVE  IsFiniteSet(Where(f, s)) /\ Cardinality(Where(f, s)) \in Nat
<1>1. Where(f, s) \in SUBSET Jobs
  BY DEF Where
<1>2. IsFiniteSet(Where(f, s))
  BY <1>1, JobsAssumption, FS_Subset
<1> QED
  BY <1>2, FS_CardinalityType

\* One job that changes state leaves one set, enters another, and disturbs
\* no third one.
LEMMA MoveOne ==
  ASSUME NEW f, NEW g, NEW j, NEW s, NEW t, Moved(f, g, j, s, t)
  PROVE  /\ Cardinality(Where(g, s)) = Cardinality(Where(f, s)) - 1
         /\ Cardinality(Where(g, t)) = Cardinality(Where(f, t)) + 1
         /\ \A u : u # s /\ u # t => Where(g, u) = Where(f, u)
<1>1. /\ f \in [Jobs -> JobStates] /\ j \in Jobs
      /\ f[j] = s /\ s # t /\ g = [f EXCEPT ![j] = t]
  BY DEF Moved
<1>2. Cardinality(Where(g, s)) = Cardinality(Where(f, s)) - 1
  <2>1. Where(g, s) = Where(f, s) \ {j}
    BY <1>1 DEF Where
  <2>2. j \in Where(f, s)
    BY <1>1 DEF Where
  <2> QED
    BY <2>1, <2>2, WhereFinite, FS_RemoveElement
<1>3. Cardinality(Where(g, t)) = Cardinality(Where(f, t)) + 1
  <2>1. Where(g, t) = Where(f, t) \cup {j}
    BY <1>1 DEF Where
  <2>2. j \notin Where(f, t)
    BY <1>1 DEF Where
  <2> QED
    BY <2>1, <2>2, WhereFinite, FS_AddElement
<1>4. \A u : u # s /\ u # t => Where(g, u) = Where(f, u)
  BY <1>1 DEF Where
<1> QED
  BY <1>2, <1>3, <1>4

\* A job is running, so its slot is counted.
LEMMA RunningCounted ==
  ASSUME Inv, NEW j \in Jobs, job[j] = "running"
  PROVE  running > 0
<1>1. j \in In("running") /\ In("running") = Where(job, "running")
  BY DEF In, Where
<1>2. Cardinality(In("running")) # 0
  BY <1>1, WhereFinite, FS_EmptySet
<1> QED
  BY <1>2 DEF Inv, CountersExact, TypeOK

-----------------------------------------------------------------------------
(* The initial state and the four steps.                                   *)

LEMMA InitInv == Init => Inv
<1> SUFFICES ASSUME Init PROVE Inv
  OBVIOUS
<1>1. TypeOK
  BY DEF Init, TypeOK, JobStates
<1>2. WaitersDistinct
  BY DEF Init, WaitersDistinct
<1>3. In("running") = {} /\ In("waiting") = {} /\ In("woken") = {}
  BY DEF Init, In
<1>4. CountersExact
  <2>1. Cardinality({}) = 0
    BY FS_EmptySet
  <2>2. running = 0 /\ pending = 0
    BY DEF Init
  <2> QED
    BY <1>3, <2>1, <2>2 DEF CountersExact
<1>5. WorkConserving
  BY DEF Init, WorkConserving
<1> QED
  BY <1>1, <1>2, <1>4, <1>5 DEF Inv

LEMMA AcquireFreeInv ==
  ASSUME Inv, NEW j \in Jobs, AcquireFree(j)
  PROVE  Inv'
<1> USE DEF Inv
<1>1. /\ job' = [job EXCEPT ![j] = "running"] /\ job[j] = "new"
      /\ job \in [Jobs -> JobStates]
      /\ running' = running + 1 /\ waiting' = waiting /\ pending' = pending
  BY DEF AcquireFree, TypeOK
<1>2. TypeOK'
  BY <1>1 DEF TypeOK, JobStates
<1>3. /\ Cardinality(In("running"))' = Cardinality(In("running")) + 1
      /\ In("waiting")' = In("waiting") /\ In("woken")' = In("woken")
  <2>1. Moved(job, job', j, "new", "running")
    BY <1>1 DEF Moved
  <2>2. /\ Cardinality(Where(job', "running")) = Cardinality(Where(job, "running")) + 1
        /\ Where(job', "waiting") = Where(job, "waiting")
        /\ Where(job', "woken") = Where(job, "woken")
    BY <2>1, MoveOne
  <2> QED
    BY <2>2 DEF In, Where
<1>4. WaitersDistinct'
  BY <1>1 DEF WaitersDistinct, TypeOK
<1>5. CountersExact'
  BY <1>1, <1>3 DEF CountersExact
<1>6. Cardinality(In("woken")) \in Nat
  BY WhereFinite DEF In, Where
<1>7. WorkConserving'
  BY <1>1, <1>3, <1>6, ConcurrencyAssumption DEF WorkConserving, TypeOK
<1> QED
  BY <1>2, <1>4, <1>5, <1>7

LEMMA AcquireWaitInv ==
  ASSUME Inv, NEW j \in Jobs, AcquireWait(j)
  PROVE  Inv'
<1> USE DEF Inv
<1>1. /\ job' = [job EXCEPT ![j] = "waiting"] /\ job[j] = "new"
      /\ job \in [Jobs -> JobStates] /\ waiting \in Seq(Jobs)
      /\ ~(running < Concurrency)
      /\ running' = running /\ waiting' = Append(waiting, j)
      /\ pending' = pending + 1
  BY DEF AcquireWait, TypeOK
<1>2. TypeOK'
  BY <1>1, AppendProperties DEF TypeOK, JobStates
<1>3. /\ Cardinality(In("waiting"))' = Cardinality(In("waiting")) + 1
      /\ In("running")' = In("running") /\ In("woken")' = In("woken")
  <2>1. Moved(job, job', j, "new", "waiting")
    BY <1>1 DEF Moved
  <2>2. /\ Cardinality(Where(job', "waiting")) = Cardinality(Where(job, "waiting")) + 1
        /\ Where(job', "running") = Where(job, "running")
        /\ Where(job', "woken") = Where(job, "woken")
    BY <2>1, MoveOne
  <2> QED
    BY <2>2 DEF In, Where
<1>4. WaitersDistinct'
  <2>1. \A n \in 1..Len(waiting) : waiting[n] # j
    BY <1>1 DEF WaitersDistinct
  <2>2. /\ Len(waiting') = Len(waiting) + 1
        /\ \A n \in 1..Len(waiting) : waiting'[n] = waiting[n]
        /\ waiting'[Len(waiting) + 1] = j
        /\ Len(waiting) \in Nat
    BY <1>1, AppendProperties
  <2>3. \A m, n \in 1..Len(waiting') : waiting'[m] = waiting'[n] => m = n
    BY <2>1, <2>2 DEF WaitersDistinct
  <2>4. ASSUME NEW k \in Jobs
        PROVE  job'[k] = "waiting" <=> \E n \in 1..Len(waiting') : waiting'[n] = k
    <3>1. CASE k = j
      BY <1>1, <2>2, <3>1
    <3>2. CASE k # j
      <4>1. job'[k] = job[k]
        BY <1>1, <3>2
      <4>2. (\E n \in 1..Len(waiting') : waiting'[n] = k)
              <=> \E n \in 1..Len(waiting) : waiting[n] = k
        BY <2>2, <3>2
      <4> QED
        BY <4>1, <4>2 DEF WaitersDistinct
    <3> QED
      BY <3>1, <3>2
  <2> QED
    BY <2>3, <2>4 DEF WaitersDistinct
<1>5. Cardinality(In("woken")) \in Nat /\ Cardinality(In("waiting")) \in Nat
  BY WhereFinite DEF In, Where
<1>6. CountersExact'
  BY <1>1, <1>3, <1>5 DEF CountersExact
<1>7. WorkConserving'
  BY <1>1, <1>3, <1>5, ConcurrencyAssumption DEF WorkConserving, TypeOK
<1> QED
  BY <1>2, <1>4, <1>6, <1>7

LEMMA TakeSlotInv ==
  ASSUME Inv, NEW j \in Jobs, TakeSlot(j)
  PROVE  Inv'
<1> USE DEF Inv
<1>1. /\ job' = [job EXCEPT ![j] = "running"] /\ job[j] = "woken"
      /\ job \in [Jobs -> JobStates]
      /\ running' = running + 1 /\ waiting' = waiting
      /\ pending' = pending - 1
  BY DEF TakeSlot, TypeOK
<1>2. /\ Cardinality(In("running"))' = Cardinality(In("running")) + 1
      /\ Cardinality(In("woken"))' = Cardinality(In("woken")) - 1
      /\ In("waiting")' = In("waiting")
  <2>1. Moved(job, job', j, "woken", "running")
    BY <1>1 DEF Moved
  <2>2. /\ Cardinality(Where(job', "running")) = Cardinality(Where(job, "running")) + 1
        /\ Cardinality(Where(job', "woken")) = Cardinality(Where(job, "woken")) - 1
        /\ Where(job', "waiting") = Where(job, "waiting")
    BY <2>1, MoveOne
  <2> QED
    BY <2>2 DEF In, Where
<1>3. /\ Cardinality(In("woken")) \in Nat /\ Cardinality(In("waiting")) \in Nat
      /\ Cardinality(In("woken"))' \in Nat
  BY WhereFinite DEF In, Where
<1>4. CountersExact'
  BY <1>1, <1>2, <1>3 DEF CountersExact
<1>5. pending' \in Nat
  BY <1>2, <1>3, <1>4 DEF CountersExact
<1>6. TypeOK'
  BY <1>1, <1>5 DEF TypeOK, JobStates
<1>7. WaitersDistinct'
  BY <1>1 DEF WaitersDistinct, TypeOK
<1>8. WorkConserving'
  BY <1>1, <1>2, <1>3, ConcurrencyAssumption DEF WorkConserving, TypeOK
<1> QED
  BY <1>4, <1>6, <1>7, <1>8

LEMMA ReleaseInv ==
  ASSUME Inv, NEW j \in Jobs, Release(j)
  PROVE  Inv'
<1> USE DEF Inv
<1>1. /\ job[j] = "running" /\ job \in [Jobs -> JobStates]
      /\ waiting \in Seq(Jobs) /\ running \in Nat /\ pending \in Nat
      /\ running' = running - 1 /\ pending' = pending
  BY DEF Release, TypeOK
<1>2. running' \in Nat
  BY <1>1, RunningCounted
<1>3. Cardinality(In("woken")) \in Nat /\ Cardinality(In("waiting")) \in Nat
  BY WhereFinite DEF In, Where
<1>4. CASE waiting = << >>
  <2>1. job' = [job EXCEPT ![j] = "ended"] /\ waiting' = << >>
    BY <1>4 DEF Release
  <2>2. TypeOK'
    BY <1>1, <1>2, <1>4, <2>1 DEF TypeOK, JobStates
  <2>3. WaitersDistinct'
    BY <1>1, <1>4, <2>1 DEF WaitersDistinct
  <2>4. /\ Cardinality(In("running"))' = Cardinality(In("running")) - 1
        /\ In("waiting")' = In("waiting") /\ In("woken")' = In("woken")
    <3>1. Moved(job, job', j, "running", "ended")
      BY <1>1, <2>1 DEF Moved
    <3>2. /\ Cardinality(Where(job', "running")) = Cardinality(Where(job, "running")) - 1
          /\ Where(job', "waiting") = Where(job, "waiting")
          /\ Where(job', "woken") = Where(job, "woken")
      BY <3>1, MoveOne
    <3> QED
      BY <3>2 DEF In, Where
  <2>5. CountersExact'
    BY <1>1, <2>4 DEF CountersExact
  <2>6. WorkConserving'
    BY <2>1 DEF WorkConserving
  <2> QED
    BY <2>2, <2>3, <2>5, <2>6
<1>5. CASE waiting # << >>
  <2> DEFINE h == Head(waiting)
             f == [job EXCEPT ![j] = "ended"]
  <2>1. job' = [job EXCEPT ![j] = "ended", ![h] = "woken"] /\ waiting' = Tail(waiting)
    BY <1>5 DEF Release
  <2>2. /\ h \in Jobs /\ waiting' \in Seq(Jobs)
        /\ Len(waiting) \in Nat \ {0} /\ Len(waiting') = Len(waiting) - 1
        /\ \A n \in 1..Len(waiting') : waiting'[n] = waiting[n + 1]
        /\ waiting[1] = h
    BY <1>1, <1>5, <2>1, HeadTailProperties
  <2>3. job[h] = "waiting" /\ h # j
    BY <1>1, <2>2 DEF WaitersDistinct
  <2>4. /\ f \in [Jobs -> JobStates] /\ f[h] = "waiting"
        /\ job' = [f EXCEPT ![h] = "woken"]
    BY <1>1, <2>1, <2>2, <2>3 DEF JobStates
  <2>5. TypeOK'
    BY <1>1, <1>2, <2>2, <2>4 DEF TypeOK, JobStates
  <2>6. /\ Cardinality(Where(f, "running")) = Cardinality(Where(job, "running")) - 1
        /\ Where(f, "waiting") = Where(job, "waiting")
        /\ Where(f, "woken") = Where(job, "woken")
    <3>1. Moved(job, f, j, "running", "ended")
      BY <1>1 DEF Moved
    <3> QED
      BY <3>1, MoveOne
  <2>7. /\ Cardinality(Where(job', "waiting")) = Cardinality(Where(f, "waiting")) - 1
        /\ Cardinality(Where(job', "woken")) = Cardinality(Where(f, "woken")) + 1
        /\ Where(job', "running") = Where(f, "running")
    <3>1. Moved(f, job', h, "waiting", "woken")
      BY <2>2, <2>4 DEF Moved
    <3> QED
      BY <3>1, MoveOne
  <2>8. /\ Cardinality(In("running"))' = Cardinality(In("running")) - 1
        /\ Cardinality(In("waiting"))' = Cardinality(In("waiting")) - 1
        /\ Cardinality(In("woken"))' = Cardinality(In("woken")) + 1
    BY <2>6, <2>7 DEF In, Where
  <2>9. CountersExact'
    BY <1>1, <1>3, <2>8 DEF CountersExact
  <2>10. WaitersDistinct'
    <3>1. \A m, n \in 1..Len(waiting') : waiting'[m] = waiting'[n] => m = n
      BY <2>2 DEF WaitersDistinct
    <3>2. ASSUME NEW k \in Jobs
          PROVE  job'[k] = "waiting" <=> \E n \in 1..Len(waiting') : waiting'[n] = k
      <4>1. CASE k = h
        <5>1. job'[k] # "waiting"
          BY <2>2, <2>4, <4>1
        <5>2. ASSUME NEW n \in 1..Len(waiting'), waiting'[n] = k
              PROVE  FALSE
          <6>1. n + 1 \in 1..Len(waiting) /\ 1 \in 1..Len(waiting) /\ n + 1 # 1
            BY <2>2
          <6>2. waiting[n + 1] = waiting[1]
            BY <2>2, <4>1, <5>2
          <6> QED
            BY <6>1, <6>2 DEF WaitersDistinct
        <5> QED
          BY <5>1, <5>2
      <4>2. CASE k # h
        <5>1. job'[k] = "waiting" <=> job[k] = "waiting"
          BY <1>1, <2>4, <4>2
        <5>2. (\E n \in 1..Len(waiting') : waiting'[n] = k)
                <=> \E n \in 1..Len(waiting) : waiting[n] = k
          <6>1. ASSUME NEW n \in 1..Len(waiting), waiting[n] = k
                PROVE  \E m \in 1..Len(waiting') : waiting'[m] = k
            <7>1. n # 1 /\ n - 1 \in 1..Len(waiting')
              BY <2>2, <4>2, <6>1
            <7>2. waiting'[n - 1] = k
              BY <2>2, <6>1, <7>1
            <7> QED
              BY <7>1, <7>2
          <6> QED
            BY <2>2, <6>1
        <5> QED
          BY <5>1, <5>2 DEF WaitersDistinct
      <4> QED
        BY <4>1, <4>2
    <3> QED
      BY <3>1, <3>2 DEF WaitersDistinct
  <2>11. WorkConserving'
    BY <1>1, <1>3, <1>5, <2>8, ConcurrencyAssumption DEF WorkConserving
  <2> QED
    BY <2>5, <2>9, <2>10, <2>11
<1> QED
  BY <1>4, <1>5

-----------------------------------------------------------------------------
(* Theorems.                                                               *)

LEMMA NextInv == Inv /\ [Next]_vars => Inv'
<1> SUFFICES ASSUME Inv, [Next]_vars PROVE Inv'
  OBVIOUS
<1>1. ASSUME NEW j \in Jobs, AcquireFree(j) PROVE Inv'
  BY <1>1, AcquireFreeInv
<1>2. ASSUME NEW j \in Jobs, AcquireWait(j) PROVE Inv'
  BY <1>2, AcquireWaitInv
<1>3. ASSUME NEW j \in Jobs, TakeSlot(j) PROVE Inv'
  BY <1>3, TakeSlotInv
<1>4. ASSUME NEW j \in Jobs, Release(j) PROVE Inv'
  BY <1>4, ReleaseInv
<1>5. CASE UNCHANGED vars
  BY <1>5 DEF vars, Inv, TypeOK, WaitersDistinct, CountersExact, WorkConserving, In
<1> QED
  BY <1>1, <1>2, <1>3, <1>4, <1>5 DEF Next

THEOREM InvAlways == Spec => []Inv
  BY InitInv, NextInv, PTL DEF Spec

(***************************************************************************)
(* The counters running and pending of createQueue are natural numbers and *)
(* its array only ever holds submitted jobs, for every number of jobs.     *)
(***************************************************************************)
THEOREM TypeCorrect == Spec => []TypeOK
<1>1. Inv => TypeOK
  BY DEF Inv
<1> QED
  BY <1>1, InvAlways, PTL

(***************************************************************************)
(* The queue's counters are exact: release() runs once for every slot that *)
(* acquire() took, and a woken job is still counted as pending.            *)
(***************************************************************************)
THEOREM CountersAlwaysExact == Spec => []CountersExact
<1>1. Inv => CountersExact
  BY DEF Inv
<1> QED
  BY <1>1, InvAlways, PTL

(***************************************************************************)
(* No lost wakeup in createQueue, for every concurrency: whenever a job    *)
(* waits, the slots taken or about to be taken fill the concurrency.       *)
(***************************************************************************)
THEOREM NoLostWakeup == Spec => []WorkConserving
<1>1. Inv => WorkConserving
  BY DEF Inv
<1> QED
  BY <1>1, InvAlways, PTL

(***************************************************************************)
(* The array of waiters holds each waiting job exactly once.               *)
(***************************************************************************)
THEOREM WaitersAlwaysDistinct == Spec => []WaitersDistinct
<1>1. Inv => WaitersDistinct
  BY DEF Inv
<1> QED
  BY <1>1, InvAlways, PTL

-----------------------------------------------------------------------------
(* The refinement.                                                         *)

\* The refinement mapping: `phase` of TaskPool.
PoolView == [k \in Jobs |-> PoolPhase(job[k])]

\* What TaskPool promises, but for its fairness.
PoolSafety == Pool!Init /\ [][Pool!Next]_(Pool!vars)

\* A job that goes from one state to another moves in the pool, or not at all
\* when both states mean the same there.
LEMMA ViewMoves ==
  ASSUME TypeOK, NEW j \in Jobs, NEW t \in JobStates,
         job' = [job EXCEPT ![j] = t]
  PROVE  PoolView' = [PoolView EXCEPT ![j] = PoolPhase(t)]
  BY DEF PoolView, TypeOK

LEMMA StepRefines ==
  ASSUME Inv, [Next]_vars
  PROVE  [Pool!Next]_(Pool!vars)
<1> USE DEF Inv
<1>1. ASSUME NEW j \in Jobs, AcquireFree(j)
      PROVE  Pool!SubmitAndBegin(j)
  <2>1. /\ job' = [job EXCEPT ![j] = "running"]
        /\ "running" \in JobStates /\ PoolPhase("running") = "running"
    BY <1>1 DEF AcquireFree, JobStates, PoolPhase
  <2>2. PoolView' = [PoolView EXCEPT ![j] = "running"]
    BY <2>1, ViewMoves
  <2>3. PoolView[j] = "new"
    BY <1>1 DEF AcquireFree, PoolView, PoolPhase
  <2> QED
    BY <2>2, <2>3 DEF Pool!SubmitAndBegin, PoolView
<1>2. ASSUME NEW j \in Jobs, AcquireWait(j)
      PROVE  Pool!Submit(j)
  <2>1. /\ job' = [job EXCEPT ![j] = "waiting"]
        /\ "waiting" \in JobStates /\ PoolPhase("waiting") = "submitted"
    BY <1>2 DEF AcquireWait, JobStates, PoolPhase
  <2>2. PoolView' = [PoolView EXCEPT ![j] = "submitted"]
    BY <2>1, ViewMoves
  <2>3. PoolView[j] = "new"
    BY <1>2 DEF AcquireWait, PoolView, PoolPhase
  <2> QED
    BY <2>2, <2>3 DEF Pool!Submit, PoolView
<1>3. ASSUME NEW j \in Jobs, TakeSlot(j)
      PROVE  Pool!Begin(j)
  <2>1. /\ job' = [job EXCEPT ![j] = "running"]
        /\ "running" \in JobStates /\ PoolPhase("running") = "running"
    BY <1>3 DEF TakeSlot, JobStates, PoolPhase
  <2>2. PoolView' = [PoolView EXCEPT ![j] = "running"]
    BY <2>1, ViewMoves
  <2>3. PoolView[j] = "submitted"
    BY <1>3 DEF TakeSlot, PoolView, PoolPhase
  <2> QED
    BY <2>2, <2>3 DEF Pool!Begin, PoolView
<1>4. ASSUME NEW j \in Jobs, Release(j)
      PROVE  Pool!End(j)
  <2>1. PoolView[j] = "running"
    BY <1>4 DEF Release, PoolView, PoolPhase
  <2>2. PoolView' = [PoolView EXCEPT ![j] = "ended"]
    <3>1. CASE waiting = << >>
      <4>1. /\ job' = [job EXCEPT ![j] = "ended"]
            /\ "ended" \in JobStates /\ PoolPhase("ended") = "ended"
        BY <1>4, <3>1 DEF Release, JobStates, PoolPhase
      <4> QED
        BY <4>1, ViewMoves
    <3>2. CASE waiting # << >>
      <4> DEFINE h == Head(waiting)
      <4>1. job' = [job EXCEPT ![j] = "ended", ![h] = "woken"]
        BY <1>4, <3>2 DEF Release
      <4>2. h \in Jobs /\ 1 \in 1..Len(waiting) /\ waiting[1] = h
        BY <3>2, HeadTailProperties DEF TypeOK
      <4>3. job[h] = "waiting"
        BY <4>2 DEF WaitersDistinct
      <4>4. PoolPhase("woken") = PoolPhase("waiting") /\ PoolPhase("ended") = "ended"
        BY DEF PoolPhase
      <4>5. job[j] = "running"
        BY <1>4 DEF Release
      <4>6. job \in [Jobs -> JobStates]
        BY DEF TypeOK
      <4>7. h # j
        BY <4>3, <4>5
      <4> HIDE DEF h
      <4>8. job'[j] = "ended" /\ job'[h] = "woken"
        BY <4>1, <4>2, <4>6, <4>7
      <4>9. \A k \in Jobs : k # h /\ k # j => job'[k] = job[k]
        BY <4>1, <4>6
      <4>10. \A k \in Jobs : k # j => PoolPhase(job'[k]) = PoolPhase(job[k])
        BY <4>3, <4>4, <4>8, <4>9
      <4> QED
        BY <4>4, <4>8, <4>10 DEF PoolView
    <3> QED
      BY <3>1, <3>2
  <2> QED
    BY <2>1, <2>2 DEF Pool!End, PoolView
<1>5. CASE UNCHANGED vars
  BY <1>5 DEF vars, Pool!vars
<1> QED
  BY <1>1, <1>2, <1>3, <1>4, <1>5 DEF Next, Pool!Next

(***************************************************************************)
(* createQueue implements TaskPool, fairness aside: every job submitted to *)
(* enqueue() begins at most once and only after it was submitted, and ends *)
(* at most once and only after it began, whatever barges in between.       *)
(***************************************************************************)
THEOREM ImplementsPoolSafety == Spec => PoolSafety
<1>1. Init => Pool!Init
  BY DEF Init, Pool!Init, PoolPhase
<1>2. Inv /\ [Next]_vars => [Pool!Next]_(Pool!vars)
  BY StepRefines
<1> QED
  BY <1>1, <1>2, InvAlways, PTL DEF Spec, PoolSafety
=============================================================================
