----------------------------- MODULE Approvals -----------------------------
(***************************************************************************)
(* The steps of the PM agent's tick that ask people: resolveApprovals, and *)
(* deprioritizeStaleIssues beside cancelAbandonedIssues, with the Slack    *)
(* commands that pause the agent and move issues.  PmTick has the other    *)
(* steps of the tick; here they are among what happens to an issue.        *)
(*                                                                         *)
(* A request is a message in Slack and a row of pm_approvals.  The people  *)
(* react to the message, and the next tick reads the reactions.            *)
(***************************************************************************)
EXTENDS Naturals, FiniteSets

CONSTANTS
    Issues,
    MaxRow,         \* bound: rows of pm_approvals that something still reads
    StateNames,     \* of "Icebox" and "Canceled", the states the teams have in Linear
    EnvPaused,      \* PM_AGENT_PAUSED
    Licensed        \* the approval-workflows feature

VARIABLES
    board,     \* at Linear: the state of an issue and for how long nobody touched it
    row,       \* pm_approvals, with the reactions to the message of the row
    at,        \* what the tick does
    told,      \* the pending rows this tick read and has not handled yet
    acting,    \* the rows it has marked approved and not carried out yet
    repeating, \* those it has carried out and tries again with the next team
    asker,     \* deprioritizeStaleIssues and cancelAbandonedIssues: where they are, whom to ask
    paused     \* the flag of pause-state.ts

vars == <<board, row, at, told, acting, repeating, asker, paused>>

Actions == {"deprioritize", "cancel"}
Ids == 1..MaxRow
Free == [status |-> "free"]
Commands == {"pause", "resume", "halt", "assign", "prioritize"}

TypeOK ==
    /\ board \in [Issues -> [state : {"Backlog", "Icebox", "Canceled", "Other"}, idle : 0..2]]
    /\ row \in [Ids -> {Free} \cup
                      [status : {"pending", "approved"}, issue : Issues, action : Actions,
                       again : BOOLEAN, old : BOOLEAN, done : 0..2,
                       reaction : {"pending", "approved", "rejected"}]]
    /\ at \in {"idle", "resolve", "ask"}
    /\ told \subseteq Ids /\ acting \subseteq Ids /\ repeating \subseteq Ids
    /\ asker \in [Actions -> [step : {"off", "list", "icebox", "post"}, todo : SUBSET Issues,
                              twice : SUBSET Issues]]
    /\ paused \in BOOLEAN

Off == [a \in Actions |-> [step |-> "off", todo |-> {}, twice |-> {}]]

Init ==
    /\ board \in [Issues -> [state : {"Backlog"}, idle : {0}]]
    /\ row = [r \in Ids |-> Free]
    /\ at = "idle" /\ told = {} /\ acting = {} /\ repeating = {} /\ asker = Off
    /\ paused = FALSE

isPmPaused == EnvPaused \/ paused

Pending(i, a) ==
    {r \in Ids : row[r].status = "pending" /\ row[r].issue = i /\ row[r].action = a}

\* A change at Linear touches the issue: updatedAt.
Touched(i, s) == board' = [board EXCEPT ![i] = [state |-> s, idle |-> 0]]

----------------------------------------------------------------------------
(* resolveApprovals: also when the agent is paused.                         *)

Begin ==
    /\ at = "idle" /\ at' = "resolve"
    /\ told' = {r \in Ids : row[r].status = "pending"}
    /\ row' = [r \in Ids |-> IF r \in told' THEN row[r] ELSE Free]
    /\ UNCHANGED <<board, acting, repeating, asker, paused>>

\* One row at a time.
Reads(r) ==
    at = "resolve" /\ r \in told /\ acting = {} /\ repeating = {} /\ told' = told \ {r}

\* Nothing reads a row that is expired or rejected: the model forgets it.
Closed(r) == row' = [row EXCEPT ![r] = Free]

\* 48 hours: the reactions are not read any more.
Expire(r) ==
    /\ Reads(r) /\ row[r].old /\ Closed(r)
    /\ UNCHANGED <<board, at, acting, repeating, asker, paused>>

Reject(r) ==
    /\ Reads(r) /\ ~row[r].old /\ row[r].reaction = "rejected" /\ Closed(r)
    /\ UNCHANGED <<board, at, acting, repeating, asker, paused>>

\* Mutant of Approve: the action is carried out, the row is not marked.
ApproveUnmarked(r) ==
    /\ Reads(r) /\ ~row[r].old /\ row[r].reaction = "approved"
    /\ acting' = {r}
    /\ UNCHANGED <<board, row, at, repeating, asker, paused>>

\* The row is marked before the issue is moved.
Approve(r) ==
    /\ Reads(r) /\ ~row[r].old /\ row[r].reaction = "approved"
    /\ row' = [row EXCEPT ![r].status = "approved"] /\ acting' = {r}
    /\ UNCHANGED <<board, at, repeating, asker, paused>>

\* Nobody has reacted, Slack does not answer, or the row cannot be written.
StillPending(r) ==
    /\ Reads(r)
    /\ UNCHANGED <<board, row, at, acting, repeating, asker, paused>>

TargetState(a) == IF a = "deprioritize" THEN "Icebox" ELSE "Canceled"

Carry(r) == Touched(row[r].issue, TargetState(row[r].action))

\* The issue is moved from whatever state it has by now.  ok: Linear takes the update for
\* one of the teams; if not, or if none has such a state, nothing is tried again.
Act(r, ok) ==
    /\ r \in acting /\ acting' = {}
    /\ IF ok /\ TargetState(row[r].action) \in StateNames
       THEN /\ Carry(r) /\ repeating' \in SUBSET {r}
            /\ row' = [row EXCEPT ![r].done = IF @ = 2 THEN 2 ELSE @ + 1]
       ELSE UNCHANGED <<board, row, repeating>>
    /\ UNCHANGED <<at, told, asker, paused>>

\* The issue was moved, but its comment was refused: another team with such a state is
\* tried.  Abstracted: how many teams there are.
Repeat(r) ==
    /\ r \in repeating /\ repeating' \in SUBSET {r}
    /\ Carry(r) \/ UNCHANGED board
    /\ UNCHANGED <<row, at, told, acting, asker, paused>>

----------------------------------------------------------------------------
(* The two steps that ask run side by side; they stop when both have        *)
(* settled.                                                                 *)

StartAsking ==
    /\ at = "resolve" /\ told = {} /\ acting = {} /\ repeating = {}
    /\ IF isPmPaused \/ ~Licensed THEN at' = "idle" /\ UNCHANGED asker
       ELSE at' = "ask" /\ asker' = [a \in Actions |-> [Off[a] EXCEPT !.step = "list"]]
    /\ UNCHANGED <<board, row, told, acting, repeating, paused>>

\* Untouched for 14 days, priority 3 or 4.
Stale(i) == board[i].state = "Backlog" /\ board[i].idle >= 1

\* Untouched for 30 days, priority 4, no comment in 14 days.
AbandonedIn(s) == {i \in Issues : board[i].state = s /\ board[i].idle = 2}

\* Mutant of Unasked: the rows are not looked at.
AskAnyway(S, a) == S

\* batchFetchPendingApprovals, once, before the first request.
Unasked(S, a) == {i \in S : Pending(i, a) = {}}

Posting(a, S, twice) ==
    asker' = [asker EXCEPT ![a] = [step |-> "post", todo |-> S, twice |-> twice]]

ListStale ==
    /\ asker["deprioritize"].step = "list"
    /\ Posting("deprioritize", Unasked({i \in Issues : Stale(i)}, "deprioritize"), {})
    /\ UNCHANGED <<board, row, at, told, acting, repeating, paused>>

\* cancelAbandonedIssues asks Linear for the backlog first and for the icebox then.
ListBacklog ==
    /\ asker["cancel"].step = "list"
    /\ asker' = [asker EXCEPT !["cancel"] = [step |-> "icebox", todo |-> AbandonedIn("Backlog"),
                                             twice |-> {}]]
    /\ UNCHANGED <<board, row, at, told, acting, repeating, paused>>

\* An issue that is in both lists is asked about twice.
ListIcebox ==
    /\ asker["cancel"].step = "icebox"
    /\ LET first == asker["cancel"].todo   icebox == AbandonedIn("Icebox")
       IN Posting("cancel", Unasked(first \cup icebox, "cancel"),
                  Unasked(first \cap icebox, "cancel"))
    /\ UNCHANGED <<board, row, at, told, acting, repeating, paused>>

\* One issue is dealt with.
Asked(a, i) ==
    asker' = IF i \in asker[a].twice THEN [asker EXCEPT ![a].twice = @ \ {i}]
             ELSE [asker EXCEPT ![a].todo = @ \ {i}]

\* The model has room for a row where nothing reads the one that is there.
Unread == {r \in Ids : row[r].status # "pending"} \ acting

\* The message is posted, then the row is inserted.
Ask(a, i, r) ==
    /\ asker[a].step = "post" /\ i \in asker[a].todo /\ Asked(a, i)
    /\ r \in Unread /\ \A q \in Unread : r <= q
    /\ row' = [row EXCEPT ![r] = [status |-> "pending", issue |-> i, action |-> a,
                                  again |-> i \in asker[a].twice, old |-> FALSE,
                                  done |-> 0, reaction |-> "pending"]]
    /\ UNCHANGED <<board, at, told, acting, repeating, paused>>

\* Slack refuses the message, or the insert fails: a message without a row.
NotAsked(a, i) ==
    /\ asker[a].step = "post" /\ i \in asker[a].todo /\ Asked(a, i)
    /\ UNCHANGED <<board, row, at, told, acting, repeating, paused>>

\* The step is over.  (A step whose queries throw is like one that asks nobody.)
EndAsking(a) ==
    /\ asker[a].step = "post" /\ asker[a].todo = {}
    /\ asker' = [asker EXCEPT ![a] = Off[a]]
    /\ at' = IF \A b \in Actions \ {a} : asker[b].step = "off" THEN "idle" ELSE at
    /\ UNCHANGED <<board, row, told, acting, repeating, paused>>

----------------------------------------------------------------------------
(* Slack commands.  Each is acknowledged at once and worked on later, in    *)
(* any order, and a mention that Slack reports twice is worked on twice: a  *)
(* command may be carried out at any time.                                  *)

\* parsePmCommand: a slash command that is one means what it says; anything else, and
\* every mention, is what Claude takes it for, or nothing.
Understood(text) == IF text \in Commands THEN {text} ELSE Commands \cup {"unknown"}

\* setPmPaused, by pause, resume and haltAll; the runs that halt cancels are in
\* PipelineRunner.
SetPmPaused(text) ==
    /\ \E c \in Understood(text) \cap {"pause", "resume", "halt"} : paused' = (c # "resume")
    /\ UNCHANGED <<board, row, at, told, acting, repeating, asker>>

\* assign moves an issue to Todo, prioritize makes it urgent.
Command(text, i) ==
    /\ \E c \in Understood(text) \cap {"assign", "prioritize"} :
          Touched(i, IF c = "assign" THEN "Other" ELSE board[i].state)
    /\ UNCHANGED <<row, at, told, acting, repeating, asker, paused>>

----------------------------------------------------------------------------
(* The people, the time, and the server.                                    *)

\* What checkApprovalReactions would answer: approved goes before rejected, a reaction
\* may be taken back.
React(r, s) ==
    /\ row[r].status = "pending" /\ row' = [row EXCEPT ![r].reaction = s]
    /\ UNCHANGED <<board, at, told, acting, repeating, asker, paused>>

\* 48 hours are longer than a tick.
GrowOld(r) ==
    /\ row[r].status = "pending" /\ ~row[r].old /\ at # "ask"
    /\ row' = [row EXCEPT ![r].old = TRUE]
    /\ UNCHANGED <<board, at, told, acting, repeating, asker, paused>>

LieIdle(i) ==
    /\ board[i].state \in {"Backlog", "Icebox"} /\ board[i].idle < 2
    /\ board' = [board EXCEPT ![i].idle = @ + 1]
    /\ UNCHANGED <<row, at, told, acting, repeating, asker, paused>>

MoveByPeople(i, s) ==
    /\ Touched(i, s)
    /\ UNCHANGED <<row, at, told, acting, repeating, asker, paused>>

\* What is in memory is lost, the flag of the pause too.
Restart ==
    /\ at' = "idle" /\ told' = {} /\ acting' = {} /\ repeating' = {} /\ asker' = Off
    /\ paused' = FALSE
    /\ UNCHANGED <<board, row>>

----------------------------------------------------------------------------
TickStep ==
    \/ Begin \/ StartAsking \/ ListStale \/ ListBacklog \/ ListIcebox
    \/ \E r \in Ids : Expire(r) \/ Reject(r) \/ Approve(r) \/ StillPending(r) \/ Repeat(r)
    \/ \E r \in Ids, ok \in BOOLEAN : Act(r, ok)
    \/ \E a \in Actions : EndAsking(a)
    \/ \E a \in Actions, i \in Issues : NotAsked(a, i) \/ \E r \in Ids : Ask(a, i, r)

Environment ==
    \/ \E text \in Commands \cup {"text"} :
          SetPmPaused(text) \/ \E i \in Issues : Command(text, i)
    \/ \E r \in Ids : GrowOld(r) \/ \E s \in {"pending", "approved", "rejected"} : React(r, s)
    \/ \E i \in Issues : LieIdle(i) \/ \E s \in {"Backlog", "Icebox", "Other"} : MoveByPeople(i, s)
    \/ Restart

Next == TickStep \/ Environment

Spec == Init /\ [][Next]_vars

----------------------------------------------------------------------------
\* No issue has two open requests for the same action, whatever ticks and crashes came
\* between them, but for one that somebody moved from the backlog to the icebox while
\* cancelAbandonedIssues asked for the two lists.
AskedOnce ==
    \A i \in Issues, a \in Actions :
        Cardinality({r \in Pending(i, a) : ~row[r].again}) <= 1

\* A request is carried out by one tick at most: the row is marked first, so a crash may
\* lose the action but no later tick repeats it on an issue people have moved on since.
ActedOnce == \A r \in Ids : row[r] # Free => row[r].done <= 1

\* What the two rest on, from one step to the next: the rows of a tick are read before it
\* asks, a row being carried out was marked and not carried out yet, and an issue still to
\* be asked about has no request but one for its second place in the lists.
IndInv ==
    /\ TypeOK
    /\ at # "resolve" => told = {} /\ acting = {} /\ repeating = {}
    /\ at # "ask" => \A a \in Actions : asker[a].step = "off"
    /\ \A r \in told : row[r].status = "pending"
    /\ \A r \in acting \cup repeating : row[r].status = "approved"
    /\ \A r \in acting : row[r].done = 0
    /\ \A r \in Ids : row[r].status = "pending" => row[r].done = 0
    /\ ActedOnce
    /\ \A a \in Actions : asker[a].step = "post" =>
         \A i \in asker[a].todo : \A r \in Pending(i, a) : row[r].again
    /\ \A i \in Issues, a \in Actions : \A q, r \in Pending(i, a) :
         row[q].again \/ row[r].again \/ q = r
=============================================================================
