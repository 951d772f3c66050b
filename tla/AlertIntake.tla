----------------------------- MODULE AlertIntake -----------------------------
(***************************************************************************)
(* Alerts that become Linear tickets (integrations/sentry.ts and           *)
(* cloudwatch.ts): a delivery reads the team's states and labels, looks    *)
(* for a recent ticket whose title starts with the alert's tag, and        *)
(* creates one if there is none.  Deliveries of the same alert repeat and  *)
(* overlap.  A tag is a sequence of characters closed by a bracket; names  *)
(* of alarms lose the brackets of their own.                               *)
(***************************************************************************)
EXTENDS Naturals, Sequences, SequencesExt, FiniteSets

CONSTANTS
    SentryIds,     \* ids of Sentry issues, as sequences of characters
    AlarmNames,    \* names of CloudWatch alarms
    Deliveries,    \* deliveries that can be handled at the same time
    MaxTicket      \* bound on the tickets

VARIABLES
    tickets,       \* the tickets: title, source, alert (history), within the window
    delivery,      \* what is being handled
    answers,       \* the alerts answered with a ticket, and the ticket (history)
    doubled        \* the titles two deliveries looked for at once (history)

vars == <<tickets, delivery, answers, doubled>>

Bracket == 0
Sources == {"sentry", "cloudwatch"}
Alerts == ({"sentry"} \X SentryIds) \cup ({"cloudwatch"} \X AlarmNames)
Sanitized(name) ==
    LET kept[n \in 0..Len(name)] ==
          IF n = 0 THEN <<>>
          ELSE IF name[n] = Bracket THEN kept[n - 1] ELSE Append(kept[n - 1], name[n])
    IN kept[Len(name)]
Body(a) == IF a[1] = "sentry" THEN a[2] ELSE Sanitized(a[2])

\* Mutant of TitlePrefix: the closing bracket is left off.
OpenPrefix(a) == Body(a)

TitlePrefix(a) == Append(Body(a), Bracket)

\* The title goes on after the tag.
Title(a) == Append(Body(a), Bracket)

Idle == [alert |-> <<"none", <<>>>>, step |-> "idle"]

Init ==
    /\ tickets = <<>> /\ answers = {} /\ doubled = {}
    /\ delivery = [d \in Deliveries |-> Idle]

Active == {d \in Deliveries : delivery[d] # Idle}
SameTag(a, b) == a[1] = b[1] /\ Title(a) = Title(b)
To(d, step) == delivery' = [delivery EXCEPT ![d].step = step]
End(d) == delivery' = [delivery EXCEPT ![d] = Idle]

\* A notification in the ALARM state, or a Sentry issue; verified and parsed.
Receive(d, a) ==
    /\ d \notin Active
    /\ delivery' = [delivery EXCEPT ![d] = [alert |-> a, step |-> "resolving"]]
    /\ doubled' = doubled \cup
         {Title(a) : e \in {e \in Active : SameTag(delivery[e].alert, a)}}
    /\ UNCHANGED <<tickets, answers>>

\* The triage state is there; labels may be missing.
Resolve(d) ==
    /\ delivery[d].step = "resolving" /\ To(d, "looking")
    /\ UNCHANGED <<tickets, answers, doubled>>

\* No triage state, or a request to Linear failed: the sender gets a 500.
Refuse(d) ==
    /\ d \in Active /\ End(d)
    /\ UNCHANGED <<tickets, answers, doubled>>

Found(a) == {n \in DOMAIN tickets : /\ tickets[n].source = a[1] /\ tickets[n].recent
                                    /\ IsPrefix(TitlePrefix(a), tickets[n].title)}

Deduplicate(d, n) ==
    /\ delivery[d].step = "looking" /\ n \in Found(delivery[d].alert) /\ End(d)
    /\ answers' = answers \cup {<<delivery[d].alert, n>>}
    /\ UNCHANGED <<tickets, doubled>>

LookUp(d) ==
    /\ delivery[d].step = "looking" /\ Found(delivery[d].alert) = {} /\ To(d, "creating")
    /\ UNCHANGED <<tickets, answers, doubled>>

\* The ticket is created; its answer may be lost.
Create(d, answered) ==
    /\ delivery[d].step = "creating" /\ Len(tickets) < MaxTicket /\ End(d)
    /\ LET a == delivery[d].alert
       IN /\ tickets' = Append(tickets, [title |-> Title(a), source |-> a[1],
                                         alert |-> a, recent |-> TRUE])
          /\ answers' = IF answered THEN answers \cup {<<a, Len(tickets) + 1>>} ELSE answers
    /\ UNCHANGED doubled

\* The idempotency window passes.
Age(n) ==
    /\ n \in DOMAIN tickets /\ tickets[n].recent
    /\ tickets' = [tickets EXCEPT ![n].recent = FALSE]
    /\ UNCHANGED <<delivery, answers, doubled>>

Next ==
    \/ \E d \in Deliveries :
         \/ \E a \in Alerts : Receive(d, a)
         \/ Resolve(d) \/ Refuse(d) \/ LookUp(d)
         \/ \E n \in 1..MaxTicket : Deduplicate(d, n)
         \/ \E answered \in BOOLEAN : Create(d, answered)
    \/ \E n \in 1..MaxTicket : Age(n)

Spec == Init /\ [][Next]_vars

-----------------------------------------------------------------------------
TypeOK ==
    /\ Len(tickets) <= MaxTicket
    /\ \A d \in Active : delivery[d].alert \in Alerts
    /\ \A x \in answers : x[1] \in Alerts /\ x[2] \in DOMAIN tickets

(***************************************************************************)
(* Who was answered with a ticket has one of its own alert, never that of  *)
(* another whose id begins alike, however deliveries repeat, overlap and   *)
(* fail; and no title has two tickets in one window unless two deliveries  *)
(* looked for it at the same time.                                         *)
(***************************************************************************)
OwnTicket ==
    /\ \A x \in answers : SameTag(x[1], tickets[x[2]].alert)
    /\ \A m, n \in DOMAIN tickets :
         /\ m # n /\ tickets[m].recent /\ tickets[n].recent
         /\ SameTag(tickets[m].alert, tickets[n].alert)
         => tickets[m].title \in doubled

\* What it rests on: the tags of deliveries that overlap are among the doubled titles, and
\* so is that of a delivery about to create a ticket when there is one by now.
IndInv ==
    /\ tickets \in Seq([title : Seq(Nat), source : Sources, alert : Alerts, recent : BOOLEAN])
    /\ \A n \in DOMAIN tickets : /\ tickets[n].title = Title(tickets[n].alert)
                                 /\ tickets[n].source = tickets[n].alert[1]
    /\ delivery \in [Deliveries -> [alert : Alerts, step : {"resolving", "looking", "creating"}]
                                     \cup {Idle}]
    /\ \A x \in answers : x[1] \in Alerts /\ x[2] \in DOMAIN tickets
    /\ OwnTicket
    /\ \A d, e \in Active : d # e /\ SameTag(delivery[d].alert, delivery[e].alert)
         => Title(delivery[d].alert) \in doubled
    /\ \A d \in Active, n \in DOMAIN tickets :
         /\ delivery[d].step = "creating" /\ tickets[n].recent
         /\ SameTag(tickets[n].alert, delivery[d].alert)
         => Title(delivery[d].alert) \in doubled
=============================================================================
