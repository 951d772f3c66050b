--------------------------- MODULE CircuitBreaker ---------------------------
(***************************************************************************)
(* The circuit breaker of the PM agent: an issue whose newest runs failed  *)
(* Threshold times in a row is escalated to needs-design, a row of         *)
(* circuit_breaker_state remembers that, and the issue is run again only   *)
(* as a probe, once per cooldown (pm/actions).  A completed run or         *)
(* `ura circuit reset` closes the breaker.                                 *)
(***************************************************************************)
EXTENDS Board, SequencesExt

CONSTANT MaxProbes     \* maxProbesPerTick

ASSUME BreakerAssumption == MaxProbes \in Nat \ {0}

VARIABLES
    unprobed,  \* the rows without last_probe_at, in the order of their insertion
    probed,    \* the other rows, in the order of last_probe_at
    cooling    \* those whose last probe is younger than the cooldown

breakerVars == <<unprobed, probed, cooling>>

Rowed == ToSet(unprobed) \cup ToSet(probed)

BreakerTypeOK ==
    /\ IsInjective(unprobed \o probed) /\ Rowed \subseteq Issues
    /\ cooling \subseteq ToSet(probed)

BreakerInit ==
    /\ unprobed \in SetToSeqs({i \in Issues : Broken(i)})
    /\ probed = <<>> /\ cooling = {}

\* SelectSeq by the members of S, in a form that can be reasoned about: the k-th
\* entry is the one with k places up to its own.
Rank(places, n) == Cardinality({m \in places : m <= n})
Only(s, S) ==
    LET places == {n \in DOMAIN s : s[n] \in S}
    IN [k \in 1..Cardinality(places) |-> s[CHOOSE n \in places : Rank(places, n) = k]]
First(s, n) == SubSeq(s, 1, IF Len(s) < n THEN Len(s) ELSE n)

\* Time passes, and the oldest probes leave the cooldown.
Cool ==
    /\ \E n \in 0..Len(probed) : cooling' = cooling \ ToSet(First(probed, n))
    /\ UNCHANGED <<unprobed, probed>>

\* Mutant of Candidates: the cooldown is not looked at.
HotCandidates == First(Only(unprobed \o probed, {i \in Issues : Broken(i)}), MaxProbes)

\* Mutant of Candidates: a row without last_probe_at is not found.
DatedCandidates == First(Only(probed, {i \in Issues \ cooling : Broken(i)}), MaxProbes)

\* selectProbeCandidates: the oldest of the rows that are due and still broken.
Candidates ==
    First(Only(unprobed \o probed, {i \in Issues \ cooling : Broken(i)}), MaxProbes)

\* Mutant of Probe: last_probe_at is only written where it was missing.
ProbeKept(picked) ==
    /\ unprobed' = Only(unprobed, Issues \ ToSet(picked))
    /\ probed' = probed \o Only(picked, Issues \ ToSet(probed))
    /\ cooling' = cooling \cup ToSet(picked)

Probe(picked) ==
    /\ unprobed' = Only(unprobed, Issues \ ToSet(picked))
    /\ probed' = Only(probed, Issues \ ToSet(picked)) \o picked
    /\ cooling' = cooling \cup ToSet(picked)

\* sweepRecoveredCircuitBreakers: no longer broken.
Recovered == {i \in Rowed : ~Broken(i)}

\* recoverCircuitBreaker: the row goes first, then the label, whose removal may fail.
Close(S) ==
    /\ unprobed' = Only(unprobed, Issues \ S)
    /\ probed' = Only(probed, Issues \ S)
    /\ cooling' = cooling \ S
    /\ \E ok \in SUBSET (S \cap Rowed) :
         issue' = [i \in Issues |-> [issue[i] EXCEPT !.tagged = @ /\ i \notin ok]]

\* The escalation by promote: the label, then the row; each may fail.
Escalate(i) ==
    /\ issue' = [issue EXCEPT ![i].tagged = TRUE] \/ UNCHANGED issue
    /\ \/ unprobed' = IF i \in Rowed THEN unprobed ELSE Append(unprobed, i)
       \/ UNCHANGED unprobed
    /\ UNCHANGED <<probed, cooling>>

\* ura circuit reset of an issue at rest: its failed rows are deleted, and the row
\* before them is not known.
Reset(i) ==
    /\ run[i].phase = "idle" /\ Broken(i)
    /\ \E older \in {"none"} \cup Shipped :
         run' = [run EXCEPT ![i].row = IF @ = "failed" THEN older ELSE @, ![i].streak = 0]
    /\ Close({i}) /\ UNCHANGED hooks
=============================================================================
