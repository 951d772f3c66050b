----------------------------- MODULE WorkQueue -----------------------------
(***************************************************************************)
(* createQueue (packages/core/src/pipeline/queue.ts): the in-process queue *)
(* that bounds how many pipelines run at once, and, with concurrency 1,    *)
(* the push queue that serialises push and PR creation.                    *)
(*                                                                         *)
(* The code is single threaded, but release() only resolves the promise of *)
(* the first waiter: that waiter takes its slot in a later microtask, and  *)
(* any continuation already queued may call enqueue() in between.  A job   *)
(* whose promise is resolved and whose continuation has not run is         *)
(* "woken" here.                                                           *)
(***************************************************************************)
EXTENDS Integers, Sequences, FiniteSets

CONSTANTS
    Jobs,           \* the calls of enqueue() made during the life of the queue
    Concurrency     \* the argument of createQueue

ASSUME JobsAssumption == IsFiniteSet(Jobs)
ASSUME ConcurrencyAssumption == Concurrency \in Nat \ {0}

VARIABLES
    running,        \* the counter `running`
    pending,        \* the counter `pending`
    waiting,        \* the array `waiting` of resolvers, oldest first
    job             \* where the call of enqueue() is

vars == <<running, pending, waiting, job>>

JobStates == {"new", "waiting", "woken", "running", "ended"}

In(s) == {j \in Jobs : job[j] = s}

Init == /\ running = 0
        /\ pending = 0
        /\ waiting = << >>
        /\ job = [j \in Jobs |-> "new"]

\* enqueue() up to its first suspension, when acquire() finds a free slot.
AcquireFree(j) ==
    /\ job[j] = "new"
    /\ running < Concurrency
    /\ running' = running + 1
    /\ job' = [job EXCEPT ![j] = "running"]
    /\ UNCHANGED <<pending, waiting>>

\* enqueue() up to its first suspension, when every slot is taken.
AcquireWait(j) ==
    /\ job[j] = "new"
    /\ ~(running < Concurrency)
    /\ pending' = pending + 1
    /\ waiting' = Append(waiting, j)
    /\ job' = [job EXCEPT ![j] = "waiting"]
    /\ UNCHANGED running

\* Mutant of TakeSlot: the woken job stays in `pending`.
TakeSlotStillPending(j) ==
    /\ job[j] = "woken"
    /\ running' = running + 1
    /\ job' = [job EXCEPT ![j] = "running"]
    /\ UNCHANGED <<pending, waiting>>

\* The microtask that continues acquire(): it takes a slot without looking.
TakeSlot(j) ==
    /\ job[j] = "woken"
    /\ pending' = pending - 1
    /\ running' = running + 1
    /\ job' = [job EXCEPT ![j] = "running"]
    /\ UNCHANGED waiting

\* Mutants of Release: nobody is woken; the waiter is woken but stays in the
\* array; the slot is freed twice.
ReleaseWakesNobody(j) ==
    /\ job[j] = "running"
    /\ running' = running - 1
    /\ job' = [job EXCEPT ![j] = "ended"]
    /\ UNCHANGED <<pending, waiting>>

ReleasePeeks(j) ==
    /\ job[j] = "running"
    /\ running' = running - 1
    /\ IF waiting = << >>
         THEN job' = [job EXCEPT ![j] = "ended"]
         ELSE job' = [job EXCEPT ![j] = "ended", ![Head(waiting)] = "woken"]
    /\ UNCHANGED <<pending, waiting>>

ReleaseTwice(j) ==
    /\ job[j] = "running"
    /\ running' = running - 2
    /\ IF waiting = << >>
         THEN /\ job' = [job EXCEPT ![j] = "ended"]
              /\ UNCHANGED waiting
         ELSE /\ job' = [job EXCEPT ![j] = "ended", ![Head(waiting)] = "woken"]
              /\ waiting' = Tail(waiting)
    /\ UNCHANGED pending

\* fn() returned or threw: release() frees the slot and resolves one waiter.
Release(j) ==
    /\ job[j] = "running"
    /\ running' = running - 1
    /\ IF waiting = << >>
         THEN /\ job' = [job EXCEPT ![j] = "ended"]
              /\ UNCHANGED waiting
         ELSE /\ job' = [job EXCEPT ![j] = "ended", ![Head(waiting)] = "woken"]
              /\ waiting' = Tail(waiting)
    /\ UNCHANGED pending

Next == \E j \in Jobs :
            AcquireFree(j) \/ AcquireWait(j) \/ TakeSlot(j) \/ Release(j)

\* Microtasks always run, and fn() always settles: its stages end at their
\* wall-clock limits and withBranchLock at its deadline.  Nobody has to call
\* enqueue().
Fairness == \A j \in Jobs : WF_vars(TakeSlot(j)) /\ WF_vars(Release(j))

Spec == Init /\ [][Next]_vars /\ Fairness

-----------------------------------------------------------------------------
TypeOK ==
    /\ running \in Nat
    /\ pending \in Nat
    /\ waiting \in Seq(Jobs)
    /\ job \in [Jobs -> JobStates]

(***************************************************************************)
(* The counters the dashboard shows are true: `running` is the number of   *)
(* jobs inside fn(), `pending` the number that still wait, woken or not.   *)
(***************************************************************************)
CountersExact ==
    /\ running = Cardinality(In("running"))
    /\ pending = Cardinality(In("waiting")) + Cardinality(In("woken"))

(***************************************************************************)
(* No lost wakeup: while a job waits unwoken, the slots taken and the      *)
(* slots about to be taken fill the whole concurrency, so some release()   *)
(* is still to come that will wake it.                                     *)
(***************************************************************************)
WorkConserving ==
    waiting # << >> => running + Cardinality(In("woken")) >= Concurrency

(***************************************************************************)
(* The array of waiters holds each waiting job exactly once: no job is     *)
(* woken twice and none is lost from the array.                            *)
(***************************************************************************)
WaitersDistinct ==
    /\ \A m, n \in 1..Len(waiting) : waiting[m] = waiting[n] => m = n
    /\ \A j \in Jobs : job[j] = "waiting" <=> \E n \in 1..Len(waiting) : waiting[n] = j

(***************************************************************************)
(* A queue created with concurrency c runs at most c jobs at once; with    *)
(* c = 1 it "serialises push+PR creation within this process"              *)
(* (runner.ts:220).  The code breaks it: see the run queue_limit.          *)
(***************************************************************************)
WithinConcurrency == running <= Concurrency

(***************************************************************************)
(* Every submitted job begins once, ends once and is never dropped, in     *)
(* spite of the jobs that take a slot ahead of it.                         *)
(***************************************************************************)
PoolPhase(s) == IF s \in {"waiting", "woken"} THEN "submitted" ELSE s

Pool == INSTANCE TaskPool WITH Tasks <- Jobs,
                               phase <- [j \in Jobs |-> PoolPhase(job[j])]

ImplementsTaskPool == Pool!Spec
=============================================================================
