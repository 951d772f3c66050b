----------------------------- MODULE GhLinearSync -----------------------------
(***************************************************************************)
(* The hourly sync of open GitHub issues to Linear tickets                 *)
(* (sync/gh-linear-sync.ts, scripts/gh-linear-sync.ts).  One run at a time *)
(* (the workflow's concurrency group): it reads the team's states, lists   *)
(* the first page of issues of each label, looks up the ticket of every    *)
(* issue listed, and then creates the missing tickets and closes the       *)
(* issues whose ticket is done.  Every call may fail, and people work on   *)
(* both sides meanwhile.                                                   *)
(***************************************************************************)
EXTENDS Naturals, FiniteSets

CONSTANTS
    Items,         \* numbers of the issues and pull requests of the repository
    Pulls,         \* which of them are pull requests
    Labels,        \* the labels synced
    Page,          \* items a query returns
    Bidirectional, \* issues of done tickets are closed
    StateRead      \* the state of a ticket found can be read

VARIABLES
    open, labelled,   \* GitHub: the open items, and the pairs <<item, label>>
    ticket,           \* Linear: the ticket of each item
    job, asked,       \* step of the run, and the labels whose query is out
    listed, looked,   \* issues listed, and what the lookup of each said
    blind,            \* issues whose lookup failed once (history)
    since, failed     \* what was on its page all through this run, and the issues
                      \* whose ticket could not be created (history)

vars == <<open, labelled, ticket, job, asked, listed, looked, blind, since, failed>>

Tickets == {"none", "one", "done", "several"}
Unlooked == [i \in Items |-> "unknown"]

Init ==
    /\ open = {} /\ labelled = {} /\ ticket = [i \in Items |-> "none"]
    /\ job = "idle" /\ asked = {} /\ listed = {} /\ looked = Unlooked
    /\ blind = {} /\ since = {} /\ failed = {}

-----------------------------------------------------------------------------
\* The newest items of a label fill the page; pull requests are left out after.
OnPage(i, l) ==
    /\ i \in open \ Pulls /\ <<i, l>> \in labelled
    /\ Cardinality({j \in open : j > i /\ <<j, l>> \in labelled}) < Page

StopRun ==
    /\ job' = "idle" /\ asked' = {} /\ listed' = {} /\ looked' = Unlooked
    /\ since' = {} /\ failed' = {}

\* The environment is there and the triage state is one of the team's.
Start ==
    /\ job = "idle" /\ job' = "list" /\ asked' = Labels
    /\ since' = {x \in Items \X Labels : OnPage(x[1], x[2])}
    /\ UNCHANGED <<open, labelled, ticket, listed, looked, blind, failed>>

\* Mutant of List: the labels go into one query, which asks for all of them.
ListTogether(l) ==
    /\ job = "list" /\ l \in asked /\ asked' = {}
    /\ listed' = {i \in open \ Pulls : \A k \in Labels : OnPage(i, k)}
    /\ UNCHANGED <<open, labelled, ticket, job, looked, blind, since, failed>>

List(l) ==
    /\ job = "list" /\ l \in asked /\ asked' = asked \ {l}
    /\ listed' = listed \cup {i \in Items : OnPage(i, l)}
    /\ UNCHANGED <<open, labelled, ticket, job, looked, blind, since, failed>>

\* Every query has answered.
AllListed ==
    /\ job = "list" /\ asked = {} /\ job' = "look"
    /\ UNCHANGED <<open, labelled, ticket, asked, listed, looked, blind, since, failed>>

\* No such state, or a query failed: the run ends with an error and no effect.
FailRun ==
    /\ job = "list" /\ asked = {} /\ StopRun
    /\ UNCHANGED <<open, labelled, ticket, blind>>

\* A state that cannot be read is not a completed one.
Seen(t) == IF t = "done" /\ ~StateRead THEN "one" ELSE t

LookUp(i) ==
    /\ job = "look" /\ i \in listed /\ looked[i] = "unknown"
    /\ \E t \in {"none", "one", "done"} :
         /\ t = ticket[i] \/ (ticket[i] = "several" /\ t # "none")
         /\ looked' = [looked EXCEPT ![i] = Seen(t)]
    /\ UNCHANGED <<open, labelled, ticket, job, asked, listed, blind, since, failed>>

\* Mutant of LookUpFails: the issue is taken for synced.
LookUpSkips(i) ==
    /\ job = "look" /\ i \in listed /\ looked[i] = "unknown"
    /\ looked' = [looked EXCEPT ![i] = "one"]
    /\ UNCHANGED <<open, labelled, ticket, job, asked, listed, blind, since, failed>>

LookUpFails(i) ==
    /\ job = "look" /\ i \in listed /\ looked[i] = "unknown"
    /\ looked' = [looked EXCEPT ![i] = "none"] /\ blind' = blind \cup {i}
    /\ UNCHANGED <<open, labelled, ticket, job, asked, listed, since, failed>>

Write ==
    /\ job = "look" /\ job' = "write" /\ \A i \in listed : looked[i] # "unknown"
    /\ UNCHANGED <<open, labelled, ticket, asked, listed, looked, blind, since, failed>>

\* One write settles; the others go on whatever it does.
Settled(i) == listed' = listed \ {i} /\ UNCHANGED <<job, asked, looked>>
StillOnPage == since' = {x \in since : OnPage(x[1], x[2])'}

Create(i) ==
    /\ job = "write" /\ i \in listed /\ looked[i] = "none"
    /\ ticket' = [ticket EXCEPT ![i] = IF @ = "none" THEN "one" ELSE "several"]
    /\ Settled(i) /\ UNCHANGED <<open, labelled, blind, since, failed>>

Close(i) ==
    /\ job = "write" /\ i \in listed /\ looked[i] = "done" /\ Bidirectional
    /\ open' = open \ {i} /\ Settled(i)
    /\ UNCHANGED <<labelled, ticket, blind, failed>> /\ StillOnPage

WriteFails(i) ==
    /\ job = "write" /\ i \in listed /\ looked[i] \in {"none", "done"} /\ Settled(i)
    /\ failed' = IF looked[i] = "none" THEN failed \cup {i} ELSE failed
    /\ UNCHANGED <<open, labelled, ticket, blind, since>>

\* Every write has settled; issues with an open ticket are only counted.
EndRun ==
    /\ job = "write"
    /\ \A i \in listed : looked[i] = "one" \/ (looked[i] = "done" /\ ~Bidirectional)
    /\ StopRun /\ UNCHANGED <<open, labelled, ticket, blind>>

\* People file, close, reopen and label issues, and finish or reopen tickets.
People(i) ==
    /\ \/ /\ open' \in {open \cup {i}, open \ {i}} /\ UNCHANGED <<labelled, ticket>>
       \/ /\ \E l \in Labels : labelled' \in {labelled \cup {<<i, l>>}, labelled \ {<<i, l>>}}
          /\ UNCHANGED <<open, ticket>>
       \/ /\ ticket[i] \in {"one", "done"}
          /\ ticket' = [ticket EXCEPT ![i] = IF @ = "one" THEN "done" ELSE "one"]
          /\ UNCHANGED <<open, labelled>>
    /\ StillOnPage /\ UNCHANGED <<job, asked, listed, looked, blind, failed>>

Next ==
    \/ Start \/ AllListed \/ FailRun \/ Write \/ EndRun
    \/ \E l \in Labels : List(l)
    \/ \E i \in Items : \/ LookUp(i) \/ LookUpFails(i) \/ Create(i) \/ Close(i)
                        \/ WriteFails(i) \/ People(i)

Spec == Init /\ [][Next]_vars

-----------------------------------------------------------------------------
TypeOK ==
    /\ open \subseteq Items /\ labelled \subseteq Items \X Labels
    /\ ticket \in [Items -> Tickets] /\ job \in {"idle", "list", "look", "write"}
    /\ asked \subseteq Labels /\ listed \subseteq Items \ Pulls
    /\ looked \in [Items -> {"unknown", "none", "one", "done"}] /\ blind \subseteq Items
    /\ since \subseteq Items \X Labels /\ failed \subseteq Items

\* A second ticket of an issue needs a failed lookup.
OneTicket == \A i \in Items : ticket[i] = "several" => i \in blind

(***************************************************************************)
(* One run that ends is enough: every issue that stayed open, with one of  *)
(* the labels and on its first page, whatever other labels it has, has a   *)
(* ticket at the end, unless the creation of its own ticket failed.        *)
(* (Without "stayed" it would be false: an issue whose label is exchanged  *)
(* between the two queries is in neither answer.)                          *)
(***************************************************************************)
RunTickets ==
    job = "write" /\ job' = "idle" =>
        \A x \in since : ticket[x[1]] # "none" \/ x[1] \in failed

IssueTicketed == [][RunTickets]_vars

\* What the two rest on: what a lookup said is still true unless it failed, and an issue
\* that stayed on its page is still to be listed, or listed, or done with.
IndInv ==
    /\ TypeOK /\ OneTicket
    /\ job \in {"idle", "list"} => looked = Unlooked
    /\ \A i \in listed : looked[i] = "none" /\ i \notin blind => ticket[i] = "none"
    /\ \A i \in Items : looked[i] \in {"one", "done"} => ticket[i] # "none"
    /\ job = "list" => \A x \in since : OnPage(x[1], x[2]) /\ (x[2] \in asked \/ x[1] \in listed)
    /\ job \in {"look", "write"} =>
         \A x \in since : x[1] \in listed \/ ticket[x[1]] # "none" \/ x[1] \in failed
=============================================================================
