------------------------------- MODULE PmTick -------------------------------
(***************************************************************************)
(* The tick of the PM agent (pm/scheduler.ts), step by step, while runs,   *)
(* webhooks and humans go on.  A step asks Linear and the database, and    *)
(* then handles what it was told one issue at a time; a step that throws   *)
(* is logged and the tick goes on.                                         *)
(*                                                                         *)
(* One tick at a time: the advisory lock pm-agent-tick.                    *)
(***************************************************************************)
EXTENDS CircuitBreaker

CONSTANTS
    Order,         \* the issues in the order Linear lists them
    MaxInFlight,   \* config.maxInFlight
    MaxStuck       \* config.stuckIssueMaxPerTick

ASSUME TickAssumption ==
    /\ Order \in Seq(Issues) /\ IsInjective(Order) /\ ToSet(Order) = Issues
    /\ {MaxInFlight, MaxStuck} \subseteq Nat \ {0}

VARIABLES
    at,        \* the step of the tick
    slots,     \* slotsAvailable, 0 when starts are blocked
    override,  \* probeOverrideIds
    list,      \* what this step was told and has not handled yet
    driven     \* runs the tick gave an issue while its breaker was open, in this cooldown

tickVars == <<at, slots, override, list>>
vars == <<boardVars, breakerVars, tickVars, driven>>

Steps == <<"recover", "probe", "sweep", "todo", "start", "triage", "backlog", "promote">>

TypeOK ==
    /\ BoardTypeOK /\ BreakerTypeOK
    /\ at \in {"idle"} \cup ToSet(Steps)
    /\ slots \in 0..MaxInFlight /\ override \subseteq Issues
    /\ \A k \in DOMAIN list : list[k].issue \in Issues
    /\ list # <<>> <=> at \in {"recover", "start", "promote"}
    /\ driven \in [Issues -> 0..2]

Init ==
    /\ BoardInit /\ BreakerInit
    /\ at = "idle" /\ slots = 0 /\ override = {} /\ list = <<>>
    /\ driven = [i \in Issues |-> 0]

In(s) == {i \in Issues : issue[i].state = s}

\* ACTIVE_STATUSES; nothing writes a queued row.
Running == {i \in Issues : run[i].row = "running"}

\* The step is over, or goes on with what it was told.
Goto(step) == at' = step /\ list' = <<>>
Handle(told, step, after) ==
    list' = told /\ at' = IF told = <<>> THEN after ELSE step
Handled(after) == Handle(Tail(list), at, after)

One == Head(list).issue

\* Mutant of Refused: or in place of and.
RefusedEither == Head(list).broken \/ One \notin override

\* The breaker was open and this is not a probe.
Refused == Head(list).broken /\ One \notin override

\* The tick gives the issue a run; what a human changed in the meantime is not
\* held against it.
Decided(s) ==
    driven' = IF /\ Head(list).broken /\ Broken(One) /\ One \in Rowed
                 /\ issue[One].state = s /\ driven[One] < 2
              THEN [driven EXCEPT ![One] = @ + 1] ELSE driven
Forgiven(S) == driven' = [i \in Issues |-> IF i \in S THEN 0 ELSE driven[i]]

----------------------------------------------------------------------------
(* evaluateBudget and recoverStuckInProgressIssues.                         *)

\* Active rows that did not start today are not counted, none is when the query
\* fails.  spent: a scope is at 100%.
FreeSlots(spent) ==
    {IF spent \/ active >= MaxInFlight THEN 0 ELSE MaxInFlight - active :
        active \in 0..Cardinality(Running)}

\* Mutant of Stuck: a paused row counts as active, however old it is.
StuckNotPaused(old, fresh) ==
    First(Only(Order, In("In Progress") \ ((Running \ old) \cup fresh
                          \cup {i \in Issues : run[i].row = "paused"})), MaxStuck)

\* old: running longer than stuckRunAgeMinutes.  fresh: ended less than half an hour ago.
Stuck(old, fresh) == First(Only(Order, In("In Progress") \ ((Running \ old) \cup fresh)), MaxStuck)

\* What the step reads of the newest row, as far as it makes a difference to it.
LastRun(i) == IF run[i].row \in {"running", "pr", "merged"} THEN run[i].row ELSE "none"

Begin(spent, old, fresh) ==
    /\ at = "idle"
    /\ slots' \in FreeSlots(spent)
    /\ LET stuck == Stuck(old, fresh)
       IN Handle([k \in DOMAIN stuck |-> [issue |-> stuck[k], row |-> LastRun(stuck[k])]],
                 "recover", "probe")
    /\ Cool /\ Forgiven(cooling \ cooling')
    /\ UNCHANGED <<boardVars, override>>

\* A run that takes too long is marked failed.
MarkZombie ==
    IF Head(list).row = "running"
    THEN \E n \in Failing(One) : run' = [run EXCEPT ![One].row = "failed", ![One].streak = n]
    ELSE UNCHANGED run

\* One with a pull request goes to review, if the team has that state.  A merged issue
\* and one of a team without the target state are left alone, with their rows; Linear
\* may refuse the update after the row was marked.
Recover(moved) ==
    /\ at = "recover" /\ Handled("probe")
    /\ LET row == Head(list).row
       IN \/ /\ moved /\ row # "merged" /\ MarkZombie
             /\ \E s \in IF row = "pr" THEN {"Other", "Backlog"} ELSE {"Backlog"} : Move(One, s)
          \/ ~moved /\ row # "merged" /\ MarkZombie /\ UNCHANGED <<issue, hooks>>
          \/ ~moved /\ UNCHANGED boardVars
    /\ UNCHANGED <<breakerVars, slots, override, driven>>

----------------------------------------------------------------------------
(* The probe and the sweep of the circuit breaker.                          *)

SelectProbes ==
    /\ at = "probe" /\ Goto("sweep")
    /\ Probe(Candidates) /\ override' = ToSet(Candidates)
    /\ UNCHANGED <<boardVars, slots, driven>>

Sweep ==
    /\ at = "sweep" /\ Goto("todo")
    /\ Close(Recovered) /\ Forgiven(Recovered)
    /\ UNCHANGED <<run, hooks, slots, override>>

\* A step that is switched off, paused or throws.
Skip ==
    /\ \E k \in {2, 3, 4, 6} : at = Steps[k] /\ Goto(IF k = 4 THEN "triage" ELSE Steps[k + 1])
    /\ UNCHANGED <<boardVars, breakerVars, slots, override, driven>>

----------------------------------------------------------------------------
(* startTodoIssues: only as many as there are slots are looked at.          *)

FindTodo(fresh) ==
    /\ at = "todo" /\ slots > 0
    /\ LET orphaned == First(Only(Order, In("Todo") \ (Running \cup fresh)), slots)
       IN Handle([k \in DOMAIN orphaned |->
                    [issue |-> orphaned[k], broken |-> Broken(orphaned[k])]], "start", "triage")
    /\ UNCHANGED <<boardVars, breakerVars, slots, override, driven>>

\* Whatever becomes of it, an issue has used one of the places.  answered: Linear tells
\* its labels and team, and start does not throw; if Linear does not, the step ends.
StartTodo(answered) ==
    /\ at = "start"
    /\ \/ Handled("triage")
          /\ IF answered /\ ~Refused /\ One \in Routed THEN StartRun(One) /\ Decided("Todo")
             ELSE UNCHANGED <<run, driven>>
       \/ ~answered /\ ~Refused /\ Goto("triage") /\ UNCHANGED <<run, driven>>
    /\ UNCHANGED <<issue, hooks, breakerVars, slots, override>>

----------------------------------------------------------------------------
(* triageNewIssues: Claude chooses the labels, and an issue with open       *)
(* questions gets needs-design; an issue that fails stays.                  *)

Triage ==
    /\ at = "triage" /\ Goto("backlog")
    /\ \E done \in SUBSET In("Triage") : \E tagged \in [done -> BOOLEAN] :
         issue' = [i \in Issues |-> IF i \in done THEN [state |-> "Backlog", tagged |-> tagged[i]]
                                    ELSE issue[i]]
    /\ UNCHANGED <<run, hooks, breakerVars, slots, override, driven>>

----------------------------------------------------------------------------
(* promoteReadyIssues, the last step that moves an issue.                   *)

Finish == Goto("idle") /\ slots' = 0 /\ override' = {}

FindBacklog ==
    /\ at = "backlog"
    /\ \/ slots > 0 /\ In("Backlog") # {}
          /\ LET ready == Only(Order, In("Backlog"))
             IN Handle([k \in DOMAIN ready |->
                            [issue |-> ready[k], broken |-> Broken(ready[k]),
                             tagged |-> issue[ready[k]].tagged]], "promote", "idle")
          /\ UNCHANGED <<slots, override>>
       \/ Finish
    /\ UNCHANGED <<boardVars, breakerVars, driven>>

\* The candidate is done with; used: it took a slot.
Considered(used) ==
    IF Tail(list) = <<>> \/ slots = used THEN Finish
    ELSE list' = Tail(list) /\ slots' = slots - used /\ UNCHANGED <<at, override>>

Refuse ==
    /\ at = "promote" /\ Refused
    /\ IF Head(list).tagged THEN UNCHANGED <<issue, breakerVars>> ELSE Escalate(One)
    /\ Considered(0) /\ UNCHANGED <<run, hooks, driven>>

Promote ==
    /\ at = "promote" /\ ~Refused
    /\ Move(One, "Todo") /\ Decided("Backlog") /\ Considered(1)
    /\ UNCHANGED <<run, breakerVars>>

\* The conflict check says high, or Linear refuses the update and the step ends.
NotPromoted ==
    /\ at = "promote" /\ ~Refused
    /\ Considered(0) \/ Finish
    /\ UNCHANGED <<boardVars, breakerVars, driven>>

----------------------------------------------------------------------------
TickStep ==
    \/ \E spent \in BOOLEAN, old, fresh \in SUBSET Issues : Begin(spent, old, fresh)
    \/ \E moved \in BOOLEAN : Recover(moved)
    \/ SelectProbes \/ Sweep \/ Skip
    \/ \E fresh \in SUBSET Issues : FindTodo(fresh)
    \/ \E answered \in BOOLEAN : StartTodo(answered)
    \/ Triage \/ FindBacklog \/ Refuse \/ Promote \/ NotPromoted

RunStep(i) ==
    /\ BeginRun(i) \/ FailRun(i) \/ CompleteRun(i) \/ WaitRun(i) \/ ReleaseRun(i)
    /\ UNCHANGED <<breakerVars, tickVars, driven>>

Webhook(i) ==
    /\ \E s \in {"Todo", "Blocked"} : Deliver(i, s)
    /\ UNCHANGED <<breakerVars, tickVars, driven>>

\* Bound: people leave the other issues alone.
Human(i) ==
    /\ i \in Routed
    /\ \/ \E s \in {"Backlog", "Todo"} \cup Triggers : HumanMove(i, s) /\ UNCHANGED breakerVars
       \/ Reset(i)
    /\ Forgiven({i}) /\ UNCHANGED tickVars

Resume(i) == ResumeRun(i) /\ UNCHANGED <<breakerVars, tickVars, driven>>

Next == TickStep \/ \E i \in Issues : RunStep(i) \/ Resume(i) \/ Webhook(i) \/ Human(i)

\* The interval comes round and no step waits for ever (see README): again and again a
\* tick begins, with the budget unspent and all slots free, and comes through its steps.
\* A run ends, and Linear answers for each issue.  Nothing says that a cooldown passes.
Fairness ==
    /\ []<><<Begin(FALSE, {}, {}) /\ slots' = MaxInFlight>>_vars
    /\ []<><<SelectProbes>>_vars
    /\ []<><<FindTodo({}) /\ slots = MaxInFlight>>_vars
    /\ \A i \in Issues : /\ WF_vars(RunStep(i))
                         /\ SF_vars(Recover(TRUE) /\ One = i)
                         /\ SF_vars(StartTodo(TRUE) /\ One = i)

Spec == Init /\ [][Next]_vars /\ Fairness

----------------------------------------------------------------------------
\* Between two cooldowns the tick gives an issue whose breaker is open at most one run,
\* be it by startTodoIssues or by promoteReadyIssues: the probe is charged when it is
\* chosen, and an issue that goes on failing is not started again and again.
OncePerCooldown == \A i \in Issues : driven[i] <= 1

Others(i) == Issues \ {i}
Ahead(i) == {Order[k] : k \in {k \in DOMAIN Order : \E l \in DOMAIN Order : k < l /\ Order[l] = i}}

\* The tick has filled its places at a step with issues that Linear lists before i.
CrowdedOut(i, step, places) ==
    at = step /\ Len(list) = places /\ \A k \in DOMAIN list : list[k].issue \in Ahead(i)

\* An open breaker is never forgotten: as long as the issue is broken and its row is
\* there, a probe is charged to it whenever its cooldown is over, however often the cap
\* gives the probe to others that were probed before.  Only rows that were never probed go first:
\* if other issues make new ones for ever, the promise that no issue starves is not kept.
ProbedAgain ==
    \A i \in Routed :
        \/ []<>(Others(i) \cap ToSet(unprobed) # {})
        \/ i \in Rowed /\ Broken(i) ~> i \in cooling \/ i \notin Rowed \/ ~Broken(i)

\* An issue In Progress that nothing works at is moved on by recoverStuckInProgressIssues,
\* unless its work is merged, or again and again issues listed before it take the whole
\* quota of a tick.
StuckLeaves ==
    \A i \in Routed :
        \/ []<>CrowdedOut(i, "recover", MaxStuck)
        \/ issue[i].state = "In Progress" /\ run[i].row \notin {"running", "merged"}
              ~> issue[i].state # "In Progress" \/ run[i].row \in {"running", "merged"}

\* An issue in Todo whose webhook was lost is started by startTodoIssues, unless its
\* branch has an open pull request, its breaker is open, or again and again issues
\* listed before it take all free slots of a tick.
TodoServed ==
    \A i \in Routed :
        \/ []<>CrowdedOut(i, "start", MaxInFlight)
        \/ issue[i].state = "Todo" /\ ~Broken(i) /\ run[i].row # "pr"
              ~> issue[i].state # "Todo" \/ run[i].row \in {"running", "pr"} \/ Broken(i)
=============================================================================
