------------------------------ MODULE TaskPool ------------------------------
(***************************************************************************)
(* What a user of createQueue relies on, with the concurrency limit left   *)
(* out: a submitted task is started exactly once, ends exactly once, and   *)
(* is never dropped.  WorkQueue is shown to implement this specification,  *)
(* and PipelineRunner relies on exactly this much of it (a job that was    *)
(* enqueued may begin at any later moment).                                *)
(***************************************************************************)

CONSTANT Tasks          \* the calls of enqueue()

VARIABLE phase          \* where each task is

vars == phase

Phases == {"new", "submitted", "running", "ended"}

Init == phase = [k \in Tasks |-> "new"]

Submit(k) == /\ phase[k] = "new"
             /\ phase' = [phase EXCEPT ![k] = "submitted"]

\* A task submitted while a slot is free begins within the same call.
SubmitAndBegin(k) == /\ phase[k] = "new"
                     /\ phase' = [phase EXCEPT ![k] = "running"]

Begin(k) == /\ phase[k] = "submitted"
            /\ phase' = [phase EXCEPT ![k] = "running"]

End(k) == /\ phase[k] = "running"
          /\ phase' = [phase EXCEPT ![k] = "ended"]

Next == \E k \in Tasks : Submit(k) \/ SubmitAndBegin(k) \/ Begin(k) \/ End(k)

\* Nothing that was submitted is dropped, and nothing begun runs for ever.
Fairness == \A k \in Tasks : WF_vars(Begin(k)) /\ WF_vars(End(k))

Spec == Init /\ [][Next]_vars /\ Fairness
=============================================================================
