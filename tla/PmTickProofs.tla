---------------------------- MODULE PmTickProofs ----------------------------
(***************************************************************************)
(* OncePerCooldown of PmTick, for every set of issues, every order Linear  *)
(* lists them in and every limit of the tick.                              *)
(*                                                                         *)
(* That a broken issue gets one run a cooldown rests on three steps being  *)
(* apart in time: the probe is charged when it is chosen, from rows out of *)
(* cooldown; startTodoIssues comes before promoteReadyIssues; and the one  *)
(* takes issues in Todo, the other issues in Backlog.  TickInv says so:    *)
(* what has been given a run is cooling (DrivenInv), what may pass the     *)
(* breaker in this tick is charged (ProbeInv), and none of it that has had *)
(* its run is in Backlog, or can be before the tick is over.               *)
(*                                                                         *)
(* The lemmas before that are about Only and First, the filters of the     *)
(* tick: what they return, and that they return nothing twice.             *)
(***************************************************************************)
EXTENDS PmTick, FiniteSetTheorems, TLAPS

----------------------------------------------------------------------------
(* The filters.                                                             *)

Places(s, S) == {n \in DOMAIN s : s[n] \in S}
Place(s, S, k) == CHOOSE n \in Places(s, S) : Rank(Places(s, S), n) = k

\* A rank is a position in the filtered list.
LEMMA RankIs ==
  ASSUME NEW P, P \in SUBSET Nat, IsFiniteSet(P), NEW n \in P
  PROVE  Rank(P, n) \in 1..Cardinality(P)
<1>1. {m \in P : m <= n} \subseteq P /\ n \in {m \in P : m <= n}
  OBVIOUS
<1>2. IsFiniteSet({m \in P : m <= n}) /\ Rank(P, n) <= Cardinality(P)
  BY <1>1, FS_Subset DEF Rank
<1>3. Rank(P, n) \in Nat /\ Rank(P, n) # 0
  BY <1>1, <1>2, FS_CardinalityType, FS_EmptySet DEF Rank
<1>4. Cardinality(P) \in Nat
  BY FS_CardinalityType
<1> QED
  BY <1>2, <1>3, <1>4

\* The filter keeps the order.
LEMMA RankGrows ==
  ASSUME NEW P, P \in SUBSET Nat, IsFiniteSet(P), NEW m \in P, NEW n \in P, m < n
  PROVE  Rank(P, m) < Rank(P, n)
<1> DEFINE A == {k \in P : k <= m}
           B == {k \in P : k <= n}
<1>1. m \in Nat /\ n \in Nat /\ \A k \in P : k \in Nat
  OBVIOUS
<1>2. /\ A \subseteq B
      /\ n \in B /\ n \notin A
  <2>1. \A k \in P : k <= m => k <= n
    BY <1>1
  <2>2. n <= n /\ ~(n <= m)
    BY <1>1
  <2> QED
    BY <2>1, <2>2
<1>3. IsFiniteSet(B) /\ IsFiniteSet(A)
  BY FS_Subset
<1> HIDE DEF A, B
<1>4. Cardinality(A) <= Cardinality(B) /\ Cardinality(A) # Cardinality(B)
  BY <1>2, <1>3, FS_Subset
<1>5. Cardinality(A) \in Nat /\ Cardinality(B) \in Nat
  BY <1>3, FS_CardinalityType
<1> QED
  BY <1>4, <1>5 DEF Rank, A, B

\* Every rank is taken.
LEMMA RankTaken ==
  ASSUME NEW P, P \in SUBSET Nat, IsFiniteSet(P), NEW k \in 1..Cardinality(P)
  PROVE  \E n \in P : Rank(P, n) = k
<1> DEFINE f == [n \in P |-> Rank(P, n)]
           N == Cardinality(P)
<1>1. N \in Nat
  BY FS_CardinalityType
<1>2. f \in [P -> 1..N]
  BY RankIs
<1>3. ASSUME NEW m \in P, NEW n \in P, f[m] = f[n] PROVE m = n
  <2>1. /\ m \in Nat /\ n \in Nat
        /\ Rank(P, m) \in 1..N /\ Rank(P, n) = Rank(P, m)
    BY <1>3, RankIs
  <2>2. m < n \/ n < m \/ m = n
    BY <2>1
  <2>3. ~(Rank(P, m) < Rank(P, n)) /\ ~(Rank(P, n) < Rank(P, m))
    BY <1>1, <2>1
  <2> QED
    BY <2>2, <2>3, RankGrows
<1>4. f \in Injection(P, 1..N)
  BY <1>2, <1>3 DEF Injection, IsInjective
<1>5. IsFiniteSet(1..N) /\ Cardinality(1..N) = N
  BY <1>1, FS_Interval
<1>6. f \in Surjection(P, 1..N)
  BY <1>4, <1>5, FS_Injection
<1> QED
  BY <1>2, <1>6 DEF Surjection

\* Each position of the filtered list is filled.
LEMMA PlaceIs ==
  ASSUME NEW T, NEW s \in Seq(T), NEW S, NEW k \in 1..Cardinality(Places(s, S))
  PROVE  /\ Place(s, S, k) \in Places(s, S)
         /\ Rank(Places(s, S), Place(s, S, k)) = k
<1>1. Places(s, S) \in SUBSET Nat /\ IsFiniteSet(Places(s, S))
  <2>1. Len(s) \in Nat /\ Places(s, S) \subseteq 1..Len(s)
    BY DEF Places
  <2>2. IsFiniteSet(1..Len(s))
    BY <2>1, FS_Interval
  <2> QED
    BY <2>1, <2>2, FS_Subset
<1> QED
  BY <1>1, RankTaken DEF Place

\* What is left is of the list and of the set.
LEMMA OnlyIs ==
  ASSUME NEW T, NEW s \in Seq(T), NEW S
  PROVE  /\ Only(s, S) \in Seq(T \cap S)
         /\ ToSet(Only(s, S)) \subseteq ToSet(s) \cap S
<1> DEFINE N == Cardinality(Places(s, S))
<1>1. Only(s, S) = [k \in 1..N |-> s[Place(s, S, k)]]
  BY DEF Only, Place, Places
<1>2. N \in Nat
  <2>1. Len(s) \in Nat /\ Places(s, S) \subseteq 1..Len(s)
    BY DEF Places
  <2>2. IsFiniteSet(1..Len(s))
    BY <2>1, FS_Interval
  <2> QED
    BY <2>1, <2>2, FS_Subset, FS_CardinalityType
<1>3. \A k \in 1..N : Place(s, S, k) \in DOMAIN s /\ s[Place(s, S, k)] \in T \cap S
  <2>1. \A k \in 1..N : Place(s, S, k) \in Places(s, S)
    BY PlaceIs
  <2>2. \A n \in Places(s, S) : n \in 1..Len(s) /\ s[n] \in S
    BY DEF Places
  <2> QED
    BY <2>1, <2>2
<1> HIDE DEF N
<1> QED
  BY <1>1, <1>2, <1>3 DEF ToSet

\* Nothing is listed twice that was listed once.
LEMMA OnlyInjective ==
  ASSUME NEW T, NEW s \in Seq(T), NEW S, IsInjective(s)
  PROVE  IsInjective(Only(s, S))
<1> DEFINE N == Cardinality(Places(s, S))
<1>1. Only(s, S) = [k \in 1..N |-> s[Place(s, S, k)]]
  BY DEF Only, Place, Places
<1>2. ASSUME NEW k \in 1..N, NEW l \in 1..N, s[Place(s, S, k)] = s[Place(s, S, l)]
      PROVE  k = l
  <2>1. /\ Place(s, S, k) \in DOMAIN s /\ Place(s, S, l) \in DOMAIN s
        /\ Rank(Places(s, S), Place(s, S, k)) = k /\ Rank(Places(s, S), Place(s, S, l)) = l
    BY PlaceIs DEF Places
  <2>2. Place(s, S, k) = Place(s, S, l)
    BY <1>2, <2>1 DEF IsInjective
  <2> QED
    BY <2>1, <2>2
<1> HIDE DEF N
<1> QED
  BY <1>1, <1>2 DEF IsInjective

\* A prefix.
LEMMA FirstIs ==
  ASSUME NEW T, NEW s \in Seq(T), NEW n \in Nat
  PROVE  /\ First(s, n) \in Seq(T)
         /\ ToSet(First(s, n)) \subseteq ToSet(s)
         /\ IsInjective(s) => IsInjective(First(s, n))
<1> DEFINE m == IF Len(s) < n THEN Len(s) ELSE n
<1>1. m \in Nat /\ m <= Len(s) /\ Len(s) \in Nat /\ DOMAIN s = 1..Len(s)
  OBVIOUS
<1>2. First(s, n) = SubSeq(s, 1, m)
  BY DEF First
<1> HIDE DEF m
<1>3. First(s, n) = [k \in 1..m |-> s[k]]
  BY <1>1, <1>2
<1>4. \A k \in 1..m : k \in DOMAIN s /\ s[k] \in T
  BY <1>1
<1>5. First(s, n) \in Seq(T) /\ DOMAIN First(s, n) = 1..m
  BY <1>1, <1>3, <1>4
<1> QED
  BY <1>3, <1>4, <1>5 DEF ToSet, IsInjective

----------------------------------------------------------------------------
(* The invariant.                                                           *)

Told == {list[k].issue : k \in DOMAIN list}

\* The breakers the tick may pass are charged.
ProbeInv ==
    /\ issue \in [Issues -> [state : States, tagged : BOOLEAN]]
    /\ unprobed \in Seq(Issues) /\ probed \in Seq(Issues)
    /\ slots \in Int /\ driven \in [Issues -> Int] /\ override \subseteq Issues
    /\ at \in {"idle", "recover", "probe"} => override = {}
    /\ at = "promote" =>
         list \in Seq([issue : Issues, broken : BOOLEAN, tagged : BOOLEAN]) /\ list # <<>>
    /\ \A i \in override \cap Rowed : i \in cooling

\* An issue that had its run is cooling, and is not where the tick could give it another.
DrivenInv ==
    /\ \A i \in Issues : driven[i] > 0 => driven[i] = 1 /\ i \in cooling
    /\ at \in {"sweep", "todo"} => \A i \in override : driven[i] <= 0
    /\ at \in {"start", "triage", "backlog", "promote"} =>
         \A i \in override : driven[i] > 0 => issue[i].state \notin {"Triage", "Backlog"}
    /\ at = "start" =>
         /\ list \in Seq([issue : Issues, broken : BOOLEAN]) /\ list # <<>>
         /\ \A k, l \in DOMAIN list : list[k].issue = list[l].issue => k = l
         /\ \A i \in override \cap Told : driven[i] <= 0

TickInv == ProbeInv /\ DrivenInv

\* The assumptions on the constants.
LEMMA TickIs ==
  /\ Order \in Seq(Issues) /\ IsInjective(Order)
  /\ MaxInFlight \in Nat /\ MaxProbes \in Nat /\ IsFiniteSet(Issues)
  BY TickAssumption, BreakerAssumption, BoardAssumption

\* Closing breakers changes labels and takes rows away.
LEMMA CloseIs ==
  ASSUME ProbeInv, NEW S, Close(S)
  PROVE  /\ unprobed' \in Seq(Issues) /\ probed' \in Seq(Issues)
         /\ Rowed' \subseteq Rowed \ S
         /\ cooling' = cooling \ S
         /\ issue' \in [Issues -> [state : States, tagged : BOOLEAN]]
         /\ \A i \in Issues : issue'[i].state = issue[i].state
<1>1. /\ unprobed' = Only(unprobed, Issues \ S) /\ probed' = Only(probed, Issues \ S)
      /\ cooling' = cooling \ S
  BY DEF Close
<1>2. unprobed \in Seq(Issues) /\ probed \in Seq(Issues)
  BY DEF ProbeInv
<1>3. /\ unprobed' \in Seq(Issues \cap (Issues \ S)) /\ probed' \in Seq(Issues \cap (Issues \ S))
      /\ ToSet(unprobed') \subseteq ToSet(unprobed) \cap (Issues \ S)
      /\ ToSet(probed') \subseteq ToSet(probed) \cap (Issues \ S)
  BY <1>1, <1>2, OnlyIs
<1>4. PICK ok : issue' = [i \in Issues |-> [issue[i] EXCEPT !.tagged = @ /\ i \notin ok]]
  BY DEF Close
<1>5. /\ issue' \in [Issues -> [state : States, tagged : BOOLEAN]]
      /\ \A i \in Issues : issue'[i].state = issue[i].state
  BY <1>4 DEF ProbeInv
<1>6. Rowed' \subseteq Rowed \ S
  BY <1>3 DEF Rowed
<1>7. unprobed' \in Seq(Issues) /\ probed' \in Seq(Issues)
  <2>1. Issues \cap (Issues \ S) \subseteq Issues
    OBVIOUS
  <2> QED
    BY <1>3, <2>1
<1> QED
  BY <1>1, <1>5, <1>6, <1>7

\* A move changes one state.
LEMMA MoveIs ==
  ASSUME ProbeInv, NEW i, NEW s \in States, Move(i, s)
  PROVE  /\ issue' \in [Issues -> [state : States, tagged : BOOLEAN]]
         /\ \A j \in Issues : j # i => issue'[j] = issue[j]
         /\ i \in Issues => issue'[i].state = s
  BY DEF ProbeInv, Move

\* An escalation adds a label, a row, or both.
LEMMA EscalateIs ==
  ASSUME ProbeInv, NEW i \in Issues, Escalate(i)
  PROVE  /\ issue' \in [Issues -> [state : States, tagged : BOOLEAN]]
         /\ \A j \in Issues : issue'[j].state = issue[j].state
         /\ unprobed' \in Seq(Issues) /\ UNCHANGED <<probed, cooling>>
         /\ Rowed' \subseteq Rowed \cup {i}
<1>1. /\ unprobed' \in {unprobed, Append(unprobed, i)} /\ UNCHANGED <<probed, cooling>>
      /\ issue' \in {issue, [issue EXCEPT ![i].tagged = TRUE]}
  BY DEF Escalate
<1>2. /\ issue' \in [Issues -> [state : States, tagged : BOOLEAN]]
      /\ \A j \in Issues : issue'[j].state = issue[j].state
  <2>1. issue \in [Issues -> [state : States, tagged : BOOLEAN]]
    BY DEF ProbeInv
  <2>2. CASE issue' = issue
    BY <2>1, <2>2
  <2>3. CASE issue' = [issue EXCEPT ![i].tagged = TRUE]
    BY <2>1, <2>3
  <2> QED
    BY <1>1, <2>2, <2>3
<1>3. unprobed' \in Seq(Issues) /\ ToSet(unprobed') \subseteq ToSet(unprobed) \cup {i}
  <2>1. CASE unprobed' = unprobed
    BY <2>1 DEF ProbeInv
  <2>2. CASE unprobed' = Append(unprobed, i)
    <3>1. unprobed \in Seq(Issues)
      BY DEF ProbeInv
    <3>2. /\ unprobed' \in Seq(Issues) /\ Len(unprobed') = Len(unprobed) + 1
          /\ Len(unprobed) \in Nat
          /\ \A k \in 1..Len(unprobed) : unprobed'[k] = unprobed[k]
          /\ unprobed'[Len(unprobed) + 1] = i
      BY <2>2, <3>1
    <3>3. ASSUME NEW k \in DOMAIN unprobed'
          PROVE  \/ unprobed'[k] = i
                 \/ k \in DOMAIN unprobed /\ unprobed'[k] = unprobed[k]
      <4>1. k \in 1..(Len(unprobed) + 1) /\ DOMAIN unprobed = 1..Len(unprobed)
        BY <3>1, <3>2
      <4>2. k \in 1..Len(unprobed) \/ k = Len(unprobed) + 1
        BY <3>2, <4>1
      <4> QED
        BY <3>2, <4>1, <4>2
    <3> QED
      BY <3>2, <3>3 DEF ToSet
  <2> QED
    BY <1>1, <2>1, <2>2
<1> QED
  BY <1>1, <1>2, <1>3 DEF Rowed

----------------------------------------------------------------------------
(* The steps.                                                               *)

\* With the cooldown of an issue its run is forgotten.
LEMMA BeginTick ==
  ASSUME TickInv, NEW spent \in BOOLEAN, NEW old, NEW fresh, Begin(spent, old, fresh)
  PROVE  TickInv'
<1> USE DEF TickInv
<1>1. /\ at = "idle" /\ override = {} /\ override' = {} /\ at' \in {"recover", "probe"}
      /\ UNCHANGED <<issue, unprobed, probed>>
      /\ driven' = [i \in Issues |-> IF i \in cooling \ cooling' THEN 0 ELSE driven[i]]
      /\ cooling' \subseteq cooling
  BY DEF Begin, ProbeInv, Handle, Forgiven, Cool, boardVars
<1>2. slots' \in Int
  <2>1. \A active \in Nat : MaxInFlight - active \in Int
    BY TickIs
  <2>2. \A active \in 0..Cardinality(Running) : active \in Nat
    OBVIOUS
  <2> QED
    BY <2>1, <2>2 DEF Begin, FreeSlots
<1>3. ProbeInv'
  BY <1>1, <1>2 DEF ProbeInv
<1>4. DrivenInv'
  BY <1>1 DEF ProbeInv, DrivenInv
<1> QED
  BY <1>3, <1>4

LEMMA RecoverStep ==
  ASSUME TickInv, NEW moved \in BOOLEAN, Recover(moved)
  PROVE  TickInv'
<1> USE DEF TickInv
<1>1. /\ at = "recover" /\ override = {} /\ override' = {} /\ at' \in {"recover", "probe"}
      /\ UNCHANGED <<breakerVars, slots, driven>>
  BY DEF Recover, ProbeInv, Handled, Handle
<1>2. issue' \in [Issues -> [state : States, tagged : BOOLEAN]]
  <2>1. issue' = issue \/ \E s \in States : Move(One, s)
    <3>1. issue' = issue \/ Move(One, "Backlog") \/ Move(One, "Other")
      BY DEF Recover, boardVars
    <3> QED
      BY <3>1 DEF States
  <2> QED
    BY <2>1, MoveIs DEF ProbeInv
<1>3. ProbeInv'
  BY <1>1, <1>2 DEF ProbeInv, breakerVars, Rowed
<1>4. DrivenInv'
  BY <1>1 DEF ProbeInv, DrivenInv, breakerVars
<1> QED
  BY <1>3, <1>4

\* The probes come from the rows out of cooldown, and go into it.
LEMMA ProbesStep ==
  ASSUME TickInv, SelectProbes
  PROVE  TickInv'
<1> USE DEF TickInv
<1> DEFINE S == {i \in Issues \ cooling : Broken(i)}
<1>1. unprobed \in Seq(Issues) /\ probed \in Seq(Issues)
  BY DEF ProbeInv
<1>2. /\ at = "probe" /\ at' = "sweep" /\ UNCHANGED <<issue, slots, driven>>
      /\ unprobed' = Only(unprobed, Issues \ ToSet(Candidates))
      /\ probed' = Only(probed, Issues \ ToSet(Candidates)) \o Candidates
      /\ cooling' = cooling \cup ToSet(Candidates)
      /\ override' = ToSet(Candidates)
  BY DEF SelectProbes, Probe, Goto, boardVars
<1>3. Candidates \in Seq(Issues) /\ ToSet(Candidates) \subseteq Issues \ cooling
  <2>1. unprobed \o probed \in Seq(Issues)
    BY <1>1
  <2>2. /\ Only(unprobed \o probed, S) \in Seq(Issues \cap S)
        /\ ToSet(Only(unprobed \o probed, S)) \subseteq S
    BY <2>1, OnlyIs
  <2>3. MaxProbes \in Nat /\ Candidates = First(Only(unprobed \o probed, S), MaxProbes)
    BY TickIs DEF Candidates
  <2>4. Candidates \in Seq(Issues \cap S) /\ ToSet(Candidates) \subseteq S
    BY <2>2, <2>3, FirstIs
  <2> QED
    BY <2>4
<1>4. unprobed' \in Seq(Issues) /\ probed' \in Seq(Issues)
  <2> DEFINE R == Issues \cap (Issues \ ToSet(Candidates))
  <2>1. Only(unprobed, Issues \ ToSet(Candidates)) \in Seq(R)
    BY <1>1, OnlyIs
  <2>2. Only(probed, Issues \ ToSet(Candidates)) \in Seq(R)
    BY <1>1, OnlyIs
  <2>3. R \subseteq Issues
    OBVIOUS
  <2> HIDE DEF R
  <2>4. /\ Only(unprobed, Issues \ ToSet(Candidates)) \in Seq(Issues)
        /\ Only(probed, Issues \ ToSet(Candidates)) \in Seq(Issues)
    BY <2>1, <2>2, <2>3
  <2> QED
    BY <1>2, <1>3, <2>4
<1>5. ProbeInv'
  BY <1>2, <1>3, <1>4 DEF ProbeInv
<1>6. DrivenInv'
  BY <1>2, <1>3 DEF ProbeInv, DrivenInv
<1> QED
  BY <1>5, <1>6

LEMMA SweepStep ==
  ASSUME TickInv, Sweep
  PROVE  TickInv'
<1> USE DEF TickInv
<1>1. /\ at = "sweep" /\ at' = "todo" /\ UNCHANGED <<slots, override>> /\ Close(Recovered)
      /\ driven' = [i \in Issues |-> IF i \in Recovered THEN 0 ELSE driven[i]]
  BY DEF Sweep, Goto, Forgiven
<1>2. /\ unprobed' \in Seq(Issues) /\ probed' \in Seq(Issues)
      /\ Rowed' \subseteq Rowed \ Recovered /\ cooling' = cooling \ Recovered
      /\ issue' \in [Issues -> [state : States, tagged : BOOLEAN]]
  BY <1>1, CloseIs
<1>3. ProbeInv'
  BY <1>1, <1>2 DEF ProbeInv
<1>4. DrivenInv'
  BY <1>1, <1>2 DEF ProbeInv, DrivenInv
<1> QED
  BY <1>3, <1>4

LEMMA SkipStep ==
  ASSUME TickInv, Skip
  PROVE  TickInv'
<1> USE DEF TickInv
<1>1. /\ UNCHANGED <<issue, breakerVars, slots, override, driven>>
      /\ \/ at = "probe" /\ at' = "sweep"
         \/ at = "sweep" /\ at' = "todo"
         \/ at = "todo" /\ at' = "triage"
         \/ at = "triage" /\ at' = "backlog"
  BY DEF Skip, Steps, Goto, boardVars
<1>2. ProbeInv'
  BY <1>1 DEF ProbeInv, breakerVars, Rowed
<1>3. DrivenInv'
  BY <1>1 DEF ProbeInv, DrivenInv, breakerVars
<1> QED
  BY <1>2, <1>3

\* What is left of a list.
LEMMA TailIs ==
  ASSUME NEW T, NEW s \in Seq(T), s # <<>>
  PROVE  /\ Head(s) \in T /\ Tail(s) \in Seq(T)
         /\ 1 \in DOMAIN s /\ Head(s) = s[1]
         /\ \A k \in DOMAIN Tail(s) : k + 1 \in DOMAIN s /\ k + 1 # 1 /\ Tail(s)[k] = s[k + 1]
         /\ \A k, l \in DOMAIN Tail(s) : k + 1 = l + 1 => k = l
  OBVIOUS

TodoCase(i) == [issue |-> i, broken |-> Broken(i)]
BacklogCase(i) == [issue |-> i, broken |-> Broken(i), tagged |-> issue[i].tagged]

LEMMA TodoCaseIs ==
  ASSUME NEW i \in Issues
  PROVE  TodoCase(i) \in [issue : Issues, broken : BOOLEAN] /\ TodoCase(i).issue = i
  BY DEF TodoCase, Broken

LEMMA BacklogCaseIs ==
  ASSUME ProbeInv, NEW i \in Issues
  PROVE  BacklogCase(i) \in [issue : Issues, broken : BOOLEAN, tagged : BOOLEAN]
<1>1. issue[i].tagged \in BOOLEAN
  BY DEF ProbeInv
<1> QED
  BY <1>1 DEF BacklogCase, Broken

\* A list made one by one.
LEMMA EachIs ==
  ASSUME NEW S, NEW T, NEW s \in Seq(S), NEW t,
         DOMAIN t = DOMAIN s, t = [k \in DOMAIN s |-> t[k]],
         \A k \in DOMAIN s : t[k] \in T
  PROVE  t \in Seq(T)
<1>1. Len(s) \in Nat /\ DOMAIN s = 1..Len(s)
  OBVIOUS
<1>2. t \in [1..Len(s) -> T]
  BY <1>1
<1> QED
  BY <1>1, <1>2

\* The issues that are looked at are those of Order, each once.
LEMMA FindTodoStep ==
  ASSUME TickInv, NEW fresh, FindTodo(fresh)
  PROVE  TickInv'
<1> USE DEF TickInv
<1> DEFINE S == In("Todo") \ (Running \cup fresh)
           found == First(Only(Order, S), slots)
           told == [k \in DOMAIN found |-> [issue |-> found[k], broken |-> Broken(found[k])]]
<1>1. /\ at = "todo" /\ slots > 0 /\ at' \in {"start", "triage"} /\ list' = told
      /\ at' = "start" => told # <<>>
      /\ UNCHANGED <<issue, run, breakerVars, slots, override, driven>>
  BY DEF FindTodo, Handle, boardVars
<1>2. found \in Seq(Issues) /\ IsInjective(found)
  <2>1. slots \in Nat
    BY <1>1 DEF ProbeInv
  <2>2. Only(Order, S) \in Seq(Issues \cap S) /\ IsInjective(Only(Order, S))
    BY TickIs, OnlyIs, OnlyInjective
  <2>3. found \in Seq(Issues \cap S) /\ IsInjective(found)
    BY <2>1, <2>2, FirstIs
  <2>4. Issues \cap S \subseteq Issues
    OBVIOUS
  <2> HIDE DEF S, found
  <2> QED
    BY <2>3, <2>4
<1> HIDE DEF S, found
<1>3. /\ told \in Seq([issue : Issues, broken : BOOLEAN])
      /\ DOMAIN told = DOMAIN found
      /\ \A k \in DOMAIN found : told[k].issue = found[k]
  <2>1. told = [k \in DOMAIN found |-> TodoCase(found[k])]
    BY DEF TodoCase
  <2>2. \A i \in Issues :
           TodoCase(i) \in [issue : Issues, broken : BOOLEAN] /\ TodoCase(i).issue = i
    BY TodoCaseIs
  <2> DEFINE Cases == [issue : Issues, broken : BOOLEAN]
  <2>3. \A i \in Issues : TodoCase(i) \in Cases
    BY <2>2
  <2> HIDE DEF told, Cases
  <2>4. \A k \in DOMAIN found : found[k] \in Issues /\ told[k] = TodoCase(found[k])
    BY <1>2, <2>1
  <2>5. told \in Seq(Cases) /\ DOMAIN told = DOMAIN found
    <3>1. DOMAIN told = DOMAIN found /\ told = [k \in DOMAIN found |-> told[k]]
      BY <2>1
    <3>2. \A k \in DOMAIN found : told[k] \in Cases
      BY <2>3, <2>4
    <3> QED
      BY <1>2, <3>1, <3>2, EachIs
  <2>6. \A k \in DOMAIN found : told[k].issue = found[k]
    BY <2>2, <2>4
  <2> QED
    BY <2>5, <2>6 DEF Cases
<1>4. \A k, l \in DOMAIN told : told[k].issue = told[l].issue => k = l
  BY <1>2, <1>3 DEF IsInjective
<1> HIDE DEF told
<1>5. \A i \in override : driven[i] <= 0
  BY <1>1 DEF DrivenInv
<1>6. ProbeInv'
  BY <1>1 DEF ProbeInv, breakerVars, Rowed
<1>7. DrivenInv'
  <2>1. override \subseteq Issues
    BY DEF ProbeInv
  <2>2. \A i \in override : ~(driven[i] > 0)
    <3>1. \A i \in override : driven[i] \in Int
      BY DEF ProbeInv
    <3> QED
      BY <3>1, <1>5
  <2> QED
    BY <1>1, <1>3, <1>4, <1>5, <2>1, <2>2 DEF DrivenInv, breakerVars
<1> QED
  BY <1>6, <1>7

\* The issue leaves the list; if it is a probe it has had its run and is in Todo.
LEMMA StartOneStep ==
  ASSUME TickInv, at = "start", Handled("triage"),
         UNCHANGED <<issue, breakerVars, slots, override>>,
         driven' = driven \/ (~Refused /\ Decided("Todo"))
  PROVE  TickInv'
<1> USE DEF TickInv
<1>1. /\ at = "start" /\ at' \in {"start", "triage"} /\ list' = Tail(list)
      /\ at' = "start" => Tail(list) # <<>>
      /\ UNCHANGED <<issue, breakerVars, slots, override>>
  BY DEF Handled, Handle
<1>2. /\ list \in Seq([issue : Issues, broken : BOOLEAN]) /\ list # <<>>
      /\ \A k, l \in DOMAIN list : list[k].issue = list[l].issue => k = l
      /\ \A i \in override \cap Told : driven[i] <= 0
  BY <1>1 DEF DrivenInv
<1>3. /\ Tail(list) \in Seq([issue : Issues, broken : BOOLEAN])
      /\ One \in Issues /\ 1 \in DOMAIN list /\ One = list[1].issue
      /\ \A k \in DOMAIN Tail(list) : k + 1 \in DOMAIN list /\ Tail(list)[k] = list[k + 1]
      /\ \A k \in DOMAIN Tail(list) : k + 1 # 1
      /\ \A k, l \in DOMAIN Tail(list) : k + 1 = l + 1 => k = l
  <2>1. Head(list) \in [issue : Issues, broken : BOOLEAN] /\ Head(list) = list[1]
    BY <1>2, TailIs
  <2>2. /\ Tail(list) \in Seq([issue : Issues, broken : BOOLEAN])
        /\ 1 \in DOMAIN list
        /\ \A k \in DOMAIN Tail(list) : k + 1 \in DOMAIN list /\ Tail(list)[k] = list[k + 1]
        /\ \A k \in DOMAIN Tail(list) : k + 1 # 1
        /\ \A k, l \in DOMAIN Tail(list) : k + 1 = l + 1 => k = l
    BY <1>2, TailIs
  <2> QED
    BY <2>1, <2>2 DEF One
<1>4. /\ One \notin Told'
      /\ Told' \subseteq Told /\ One \in Told
      /\ \A k, l \in DOMAIN Tail(list) : Tail(list)[k].issue = Tail(list)[l].issue => k = l
  BY <1>1, <1>2, <1>3 DEF Told
<1>5. \/ driven' = driven
      \/ /\ One \in override /\ One \in Rowed /\ issue[One].state = "Todo"
         /\ driven' = [driven EXCEPT ![One] = @ + 1]
  BY DEF Decided, Refused
<1>6. ProbeInv'
  BY <1>1, <1>3, <1>5 DEF ProbeInv, breakerVars, Rowed
<1>7. /\ \A i \in Issues : driven'[i] > 0 => driven'[i] = 1 /\ i \in cooling'
      /\ \A i \in override : driven'[i] > 0 => issue'[i].state \notin {"Triage", "Backlog"}
      /\ \A i \in override \cap Told' : driven'[i] <= 0
  <2>1. CASE driven' = driven
    BY <1>1, <1>2, <1>4, <2>1 DEF DrivenInv, breakerVars
  <2>2. CASE /\ One \in override /\ One \in Rowed /\ issue[One].state = "Todo"
             /\ driven' = [driven EXCEPT ![One] = @ + 1]
    <3>1. driven[One] <= 0 /\ One \in cooling /\ driven[One] \in Int
      BY <1>2, <1>3, <1>4, <2>2 DEF ProbeInv
    <3>2. \A i \in Issues : i # One => driven'[i] = driven[i]
      BY <2>2 DEF ProbeInv
    <3>3. driven'[One] = driven[One] + 1
      BY <1>3, <2>2 DEF ProbeInv
    <3>4. override \subseteq Issues /\ cooling' = cooling /\ issue' = issue
      BY <1>1 DEF ProbeInv, breakerVars
    <3>5. \A i \in Issues : driven[i] > 0 => driven[i] = 1 /\ i \in cooling
      BY DEF DrivenInv
    <3>6. \A i \in override : driven[i] > 0 => issue[i].state \notin {"Triage", "Backlog"}
      BY <1>1 DEF DrivenInv
    <3>7. driven'[One] > 0 => driven'[One] = 1
      BY <3>1, <3>3
    <3>8. issue[One].state \notin {"Triage", "Backlog"}
      BY <2>2
    <3> QED
      BY <1>2, <1>4, <3>1, <3>2, <3>4, <3>5, <3>6, <3>7, <3>8
  <2> QED
    BY <1>5, <2>1, <2>2
<1>8. DrivenInv'
  BY <1>1, <1>3, <1>4, <1>7 DEF DrivenInv
<1> QED
  BY <1>6, <1>8

\* Or Linear does not answer, and the rest of the list is left.
LEMMA StartTodoStep ==
  ASSUME TickInv, NEW answered \in BOOLEAN, StartTodo(answered)
  PROVE  TickInv'
<1>1. at = "start" /\ UNCHANGED <<issue, breakerVars, slots, override>>
  BY DEF StartTodo
<1>2. CASE Handled("triage") /\ (driven' = driven \/ (~Refused /\ Decided("Todo")))
  BY <1>1, <1>2, StartOneStep
<1>3. CASE Goto("triage") /\ driven' = driven
  <2>1. at' = "triage"
    BY <1>3 DEF Goto
  <2>2. ProbeInv'
    BY <1>1, <1>3, <2>1 DEF TickInv, ProbeInv, breakerVars, Rowed
  <2>3. DrivenInv'
    BY <1>1, <1>3, <2>1 DEF TickInv, ProbeInv, DrivenInv, breakerVars
  <2> QED
    BY <2>2, <2>3 DEF TickInv
<1>4. driven' = driven \/ (~Refused /\ Decided("Todo"))
  BY DEF StartTodo
<1>5. Handled("triage") \/ (Goto("triage") /\ driven' = driven)
  BY DEF StartTodo
<1> QED
  BY <1>2, <1>3, <1>4, <1>5

\* Triage moves to Backlog what was in Triage.
LEMMA TriageStep ==
  ASSUME TickInv, Triage
  PROVE  TickInv'
<1> USE DEF TickInv
<1>1. /\ at = "triage" /\ at' = "backlog"
      /\ UNCHANGED <<breakerVars, slots, override, driven>>
  BY DEF Triage, Goto
<1>2. PICK done \in SUBSET In("Triage") : \E tagged \in [done -> BOOLEAN] :
         issue' = [i \in Issues |-> IF i \in done THEN [state |-> "Backlog", tagged |-> tagged[i]]
                                    ELSE issue[i]]
  BY DEF Triage
<1>3. PICK tagged \in [done -> BOOLEAN] :
         issue' = [i \in Issues |-> IF i \in done THEN [state |-> "Backlog", tagged |-> tagged[i]]
                                    ELSE issue[i]]
  BY <1>2
<1>4. /\ issue' \in [Issues -> [state : States, tagged : BOOLEAN]]
      /\ \A i \in Issues : issue'[i].state \in {"Triage", "Backlog"} =>
            issue[i].state \in {"Triage", "Backlog"}
  BY <1>3 DEF ProbeInv, In, States
<1>5. ProbeInv'
  BY <1>1, <1>4 DEF ProbeInv, breakerVars, Rowed
<1>6. DrivenInv'
  BY <1>1, <1>4 DEF ProbeInv, DrivenInv, breakerVars
<1> QED
  BY <1>5, <1>6

\* An issue in Backlog is listed, or the tick ends.
LEMMA FindBacklogStep ==
  ASSUME TickInv, FindBacklog
  PROVE  TickInv'
<1> USE DEF TickInv
<1>1. at = "backlog" /\ UNCHANGED <<issue, run, breakerVars, driven>>
  BY DEF FindBacklog, boardVars
<1>2. CASE Finish
  <2>1. at' = "idle" /\ slots' = 0 /\ override' = {}
    BY <1>2 DEF Finish, Goto
  <2>2. ProbeInv'
    BY <1>1, <2>1 DEF ProbeInv, breakerVars
  <2>3. DrivenInv'
    BY <1>1, <2>1 DEF DrivenInv, breakerVars
  <2> QED
    BY <2>2, <2>3
<1>3. CASE ~Finish
  <2> DEFINE ready == Only(Order, In("Backlog"))
             told == [k \in DOMAIN ready |->
                            [issue |-> ready[k], broken |-> Broken(ready[k]),
                             tagged |-> issue[ready[k]].tagged]]
  <2>1. /\ at' \in {"promote", "idle"} /\ (at' = "promote" => told # <<>>)
        /\ (at' = "idle" => told = <<>>)
        /\ list' = told /\ UNCHANGED <<slots, override>> /\ In("Backlog") # {}
    BY <1>3 DEF FindBacklog, Handle
  <2>2. told \in Seq([issue : Issues, broken : BOOLEAN, tagged : BOOLEAN])
    <3>1. ready \in Seq(Issues)
      <4>1. ready \in Seq(Issues \cap In("Backlog"))
        BY TickIs, OnlyIs
      <4>2. Issues \cap In("Backlog") \subseteq Issues
        OBVIOUS
      <4> HIDE DEF ready
      <4> QED
        BY <4>1, <4>2
    <3>2. told = [k \in DOMAIN ready |-> BacklogCase(ready[k])]
      BY DEF BacklogCase
    <3>3. \A i \in Issues :
             BacklogCase(i) \in [issue : Issues, broken : BOOLEAN, tagged : BOOLEAN]
      BY BacklogCaseIs
    <3> DEFINE Cases == [issue : Issues, broken : BOOLEAN, tagged : BOOLEAN]
    <3>4. \A i \in Issues : BacklogCase(i) \in Cases
      BY <3>3
    <3> HIDE DEF ready, told, Cases
    <3>5. told \in Seq(Cases)
      <4>1. DOMAIN told = DOMAIN ready /\ told = [k \in DOMAIN ready |-> told[k]]
        BY <3>2
      <4>2. \A k \in DOMAIN ready : told[k] \in Cases
        BY <3>1, <3>2, <3>4
      <4> QED
        BY <3>1, <4>1, <4>2, EachIs
    <3> QED
      BY <3>5 DEF Cases
  <2>3. told # <<>>
    \* An issue in Backlog is listed: Order lists them all.
    <3>1. PICK i \in Issues : i \in In("Backlog")
      BY <2>1 DEF In
    <3>2. PICK n \in DOMAIN Order : Order[n] = i
      BY TickAssumption DEF ToSet
    <3>3. n \in Places(Order, In("Backlog"))
      BY <3>1, <3>2 DEF Places
    <3>4. IsFiniteSet(Places(Order, In("Backlog")))
      <4>1. Len(Order) \in Nat /\ Places(Order, In("Backlog")) \subseteq 1..Len(Order)
        BY TickIs DEF Places
      <4>2. IsFiniteSet(1..Len(Order))
        BY <4>1, FS_Interval
      <4> QED
        BY <4>1, <4>2, FS_Subset
    <3>5. /\ Cardinality(Places(Order, In("Backlog"))) \in Nat
          /\ Cardinality(Places(Order, In("Backlog"))) # 0
      BY <3>3, <3>4, FS_CardinalityType, FS_EmptySet
    <3>6. DOMAIN ready = 1..Cardinality(Places(Order, In("Backlog")))
      BY DEF Only, Places
    <3>7. 1 \in DOMAIN told
      BY <3>5, <3>6
    <3> QED
      BY <3>7
  <2> HIDE DEF told
  <2>4. ProbeInv'
    BY <1>1, <2>1, <2>2, <2>3 DEF ProbeInv, breakerVars, Rowed
  <2>5. DrivenInv'
    BY <1>1, <2>1, <2>3 DEF DrivenInv, breakerVars
  <2> QED
    BY <2>4, <2>5
<1> QED
  BY <1>2, <1>3

\* A candidate is done with.
LEMMA ConsideredIs ==
  ASSUME TickInv, at = "promote", NEW used \in 0..1, Considered(used) \/ Finish
  PROVE  /\ slots' \in Int
         /\ \/ at' = "idle" /\ override' = {}
            \/ /\ at' = "promote" /\ override' = override
               /\ list' \in Seq([issue : Issues, broken : BOOLEAN, tagged : BOOLEAN])
               /\ list' # <<>>
<1>1. /\ list \in Seq([issue : Issues, broken : BOOLEAN, tagged : BOOLEAN]) /\ list # <<>>
      /\ slots \in Int
  BY DEF TickInv, ProbeInv
<1>2. CASE Finish
  BY <1>2 DEF Finish, Goto
<1>3. CASE ~Finish
  <2>1. /\ Tail(list) # <<>> /\ list' = Tail(list) /\ slots' = slots - used
        /\ UNCHANGED <<at, override>>
    BY <1>3 DEF Considered
  <2>2. Tail(list) \in Seq([issue : Issues, broken : BOOLEAN, tagged : BOOLEAN])
    BY <1>1, TailIs
  <2> QED
    BY <1>1, <2>1, <2>2
<1> QED
  BY <1>2, <1>3

\* The candidate is an issue.
LEMMA OneIs ==
  ASSUME TickInv, at = "promote"
  PROVE  One \in Issues
<1>1. list \in Seq([issue : Issues, broken : BOOLEAN, tagged : BOOLEAN]) /\ list # <<>>
  BY DEF TickInv, ProbeInv
<1>2. Head(list) \in [issue : Issues, broken : BOOLEAN, tagged : BOOLEAN]
  BY <1>1, TailIs
<1> QED
  BY <1>2 DEF One

\* The issue whose breaker opens here is not one the tick may pass.
LEMMA RefuseStep ==
  ASSUME TickInv, Refuse
  PROVE  TickInv'
<1> USE DEF TickInv
<1>1. at = "promote" /\ One \notin override /\ driven' = driven /\ One \in Issues
  BY OneIs DEF Refuse, Refused
<1>2. /\ slots' \in Int
      /\ \/ at' = "idle" /\ override' = {}
         \/ /\ at' = "promote" /\ override' = override
            /\ list' \in Seq([issue : Issues, broken : BOOLEAN, tagged : BOOLEAN])
            /\ list' # <<>>
  BY <1>1, ConsideredIs DEF Refuse
<1>3. /\ issue' \in [Issues -> [state : States, tagged : BOOLEAN]]
      /\ \A j \in Issues : issue'[j].state = issue[j].state
      /\ unprobed' \in Seq(Issues) /\ UNCHANGED <<probed, cooling>>
      /\ Rowed' \subseteq Rowed \cup {One}
  <2>1. CASE Escalate(One)
    BY <1>1, <2>1, EscalateIs
  <2>2. CASE UNCHANGED <<issue, breakerVars>>
    BY <2>2 DEF ProbeInv, breakerVars, Rowed
  <2> QED
    BY <2>1, <2>2 DEF Refuse
<1>4. ProbeInv'
  BY <1>1, <1>2, <1>3 DEF ProbeInv
<1>5. DrivenInv'
  BY <1>1, <1>2, <1>3 DEF ProbeInv, DrivenInv
<1> QED
  BY <1>4, <1>5

\* The issue leaves Backlog with its run.
LEMMA PromoteStep ==
  ASSUME TickInv, Promote
  PROVE  TickInv'
<1> USE DEF TickInv
<1>1. at = "promote" /\ One \in Issues /\ UNCHANGED breakerVars
  BY OneIs DEF Promote
<1>2. /\ slots' \in Int
      /\ \/ at' = "idle" /\ override' = {}
         \/ /\ at' = "promote" /\ override' = override
            /\ list' \in Seq([issue : Issues, broken : BOOLEAN, tagged : BOOLEAN])
            /\ list' # <<>>
  BY <1>1, ConsideredIs DEF Promote
<1>3. /\ issue' \in [Issues -> [state : States, tagged : BOOLEAN]]
      /\ \A j \in Issues : j # One => issue'[j] = issue[j]
      /\ issue'[One].state = "Todo"
  BY <1>1, MoveIs DEF Promote, States
<1>4. \/ driven' = driven
      \/ /\ One \in override /\ One \in Rowed /\ issue[One].state = "Backlog"
         /\ driven' = [driven EXCEPT ![One] = @ + 1]
  BY DEF Promote, Decided, Refused
<1>5. driven' \in [Issues -> Int]
  BY <1>4 DEF ProbeInv
<1>6. ProbeInv'
  BY <1>1, <1>2, <1>3, <1>5 DEF ProbeInv, breakerVars, Rowed
<1>7. \A i \in Issues : driven'[i] > 0 => driven'[i] = 1 /\ i \in cooling
  <2>1. CASE driven' = driven
    BY <2>1 DEF DrivenInv
  <2>2. CASE /\ One \in override /\ One \in Rowed /\ issue[One].state = "Backlog"
             /\ driven' = [driven EXCEPT ![One] = @ + 1]
    <3>1. ~(driven[One] > 0) /\ One \in cooling /\ driven[One] \in Int
      BY <1>1, <2>2 DEF ProbeInv, DrivenInv
    <3>2. \A i \in Issues : i # One => driven'[i] = driven[i]
      BY <2>2 DEF ProbeInv
    <3>3. driven'[One] = driven[One] + 1
      BY <1>1, <2>2 DEF ProbeInv
    <3>4. \A i \in Issues : driven[i] > 0 => driven[i] = 1 /\ i \in cooling
      BY DEF DrivenInv
    <3>5. driven'[One] > 0 => driven'[One] = 1
      BY <3>1, <3>3
    <3> QED
      BY <3>1, <3>2, <3>4, <3>5
  <2> QED
    BY <1>4, <2>1, <2>2
<1>8. \A i \in override : driven'[i] > 0 => issue'[i].state \notin {"Triage", "Backlog"}
  <2>1. \A i \in override : i \in Issues /\ (i # One => driven'[i] = driven[i])
    BY <1>4 DEF ProbeInv
  <2>2. \A i \in override : driven[i] > 0 => issue[i].state \notin {"Triage", "Backlog"}
    BY <1>1 DEF DrivenInv
  <2> QED
    BY <1>3, <2>1, <2>2
<1>9. DrivenInv'
  BY <1>1, <1>2, <1>7, <1>8 DEF DrivenInv, breakerVars
<1> QED
  BY <1>6, <1>9

LEMMA NotPromotedStep ==
  ASSUME TickInv, NotPromoted
  PROVE  TickInv'
<1> USE DEF TickInv
<1>1. at = "promote" /\ UNCHANGED <<issue, breakerVars, driven>>
  BY DEF NotPromoted, boardVars
<1>2. /\ slots' \in Int
      /\ \/ at' = "idle" /\ override' = {}
         \/ /\ at' = "promote" /\ override' = override
            /\ list' \in Seq([issue : Issues, broken : BOOLEAN, tagged : BOOLEAN])
            /\ list' # <<>>
  BY <1>1, ConsideredIs DEF NotPromoted
<1>3. ProbeInv'
  BY <1>1, <1>2 DEF ProbeInv, breakerVars, Rowed
<1>4. DrivenInv'
  BY <1>1, <1>2 DEF DrivenInv, breakerVars
<1> QED
  BY <1>3, <1>4

\* Between the steps of the tick: no issue is moved to Triage, and one that a human
\* moves is forgiven.
LEMMA OutsideStep ==
  ASSUME TickInv, UNCHANGED tickVars,
         unprobed' \in Seq(Issues), probed' \in Seq(Issues), Rowed' \subseteq Rowed,
         issue' \in [Issues -> [state : States, tagged : BOOLEAN]],
         driven' \in [Issues -> Int],
         \A i \in Issues : driven'[i] > 0 => driven'[i] = driven[i],
         \A i \in Issues : driven'[i] > 0 /\ issue'[i].state \in {"Triage", "Backlog"} =>
             issue[i].state \in {"Triage", "Backlog"},
         \A i \in cooling : i \in cooling' \/ (driven'[i] = 0 /\ i \notin Rowed')
  PROVE  TickInv'
<1> USE DEF TickInv
<1>1. UNCHANGED <<at, slots, override, list>>
  BY DEF tickVars
<1>2. /\ \A i \in Issues : driven[i] \in Int /\ driven'[i] \in Int
      /\ override \subseteq Issues
  BY DEF ProbeInv
<1>3. \A i \in Issues : driven[i] <= 0 => driven'[i] <= 0
  BY <1>2
<1>4. ProbeInv'
  BY <1>1 DEF ProbeInv
<1>5. DrivenInv'
  <2>1. \A i \in Issues : driven'[i] > 0 => driven'[i] = 1 /\ i \in cooling'
    <3>1. \A i \in Issues : driven[i] > 0 => driven[i] = 1 /\ i \in cooling
      BY DEF DrivenInv
    <3>2. \A i \in Issues : driven'[i] > 0 => driven[i] > 0 /\ ~(driven'[i] = 0)
      BY <1>2
    <3> QED
      BY <3>1, <3>2
  <2>2. at' \in {"sweep", "todo"} => \A i \in override' : driven'[i] <= 0
    BY <1>1, <1>2, <1>3 DEF DrivenInv
  <2>3. at' \in {"start", "triage", "backlog", "promote"} =>
           \A i \in override' : driven'[i] > 0 => issue'[i].state \notin {"Triage", "Backlog"}
    BY <1>1, <1>2 DEF DrivenInv
  <2>4. at' = "start" => \A i \in override' \cap Told' : driven'[i] <= 0
    BY <1>1, <1>2, <1>3 DEF DrivenInv, Told
  <2> QED
    BY <1>1, <2>1, <2>2, <2>3, <2>4 DEF DrivenInv
<1> QED
  BY <1>4, <1>5

\* A run moves its issue to In Progress, Blocked or Other, or not at all.
LEMMA QuietMove ==
  ASSUME TickInv, NEW i \in Issues, NEW s \in {"In Progress", "Blocked", "Other"},
         TryMove(i, s) \/ UNCHANGED issue
  PROVE  /\ issue' \in [Issues -> [state : States, tagged : BOOLEAN]]
         /\ \A j \in Issues : issue'[j].state \in {"Triage", "Backlog"} =>
              issue[j].state \in {"Triage", "Backlog"}
<1>1. CASE UNCHANGED issue
  BY <1>1 DEF TickInv, ProbeInv
<1>2. CASE Move(i, s)
  <2>1. s \in States /\ s \notin {"Triage", "Backlog"}
    BY DEF States
  <2> QED
    BY <1>2, <2>1, MoveIs DEF TickInv
<1> QED
  BY <1>1, <1>2 DEF TryMove

\* Runs and webhooks.
LEMMA WorldStep ==
  ASSUME TickInv, NEW i \in Issues, RunStep(i) \/ Resume(i) \/ Webhook(i)
  PROVE  TickInv'
<1>1. UNCHANGED <<breakerVars, tickVars, driven>>
  BY DEF RunStep, Resume, Webhook
<1>2. \E s \in {"In Progress", "Blocked", "Other"} : TryMove(i, s) \/ UNCHANGED issue
  <2>1. CASE RunStep(i)
    BY <2>1 DEF RunStep, BeginRun, FailRun, CompleteRun, WaitRun, ReleaseRun
  <2>2. CASE Resume(i) \/ Webhook(i)
    BY <2>2 DEF Resume, ResumeRun, Webhook, Deliver
  <2> QED
    BY <2>1, <2>2
<1>3. /\ issue' \in [Issues -> [state : States, tagged : BOOLEAN]]
      /\ \A j \in Issues : issue'[j].state \in {"Triage", "Backlog"} =>
            issue[j].state \in {"Triage", "Backlog"}
  BY <1>2, QuietMove
<1>4. /\ unprobed' \in Seq(Issues) /\ probed' \in Seq(Issues) /\ Rowed' = Rowed
      /\ cooling' = cooling /\ driven' = driven /\ driven \in [Issues -> Int]
  BY <1>1 DEF TickInv, ProbeInv, breakerVars, Rowed
<1>5. UNCHANGED tickVars /\ Rowed' \subseteq Rowed /\ driven' \in [Issues -> Int]
  BY <1>1, <1>4
<1>6. /\ \A j \in Issues : driven'[j] > 0 => driven'[j] = driven[j]
      /\ \A j \in Issues : driven'[j] > 0 /\ issue'[j].state \in {"Triage", "Backlog"} =>
            issue[j].state \in {"Triage", "Backlog"}
      /\ \A j \in cooling : j \in cooling' \/ (driven'[j] = 0 /\ j \notin Rowed')
  BY <1>3, <1>4
<1> QED
  BY <1>3, <1>4, <1>5, <1>6, OutsideStep

\* A human move or reset forgives the issue.
LEMMA HumanStep ==
  ASSUME TickInv, NEW i \in Issues, Human(i)
  PROVE  TickInv'
<1>1. UNCHANGED tickVars /\ driven' = [j \in Issues |-> IF j = i THEN 0 ELSE driven[j]]
  BY DEF Human, Forgiven
<1>2. /\ driven' \in [Issues -> Int] /\ driven'[i] = 0
      /\ \A j \in Issues : driven'[j] > 0 => driven'[j] = driven[j] /\ j # i
  BY <1>1 DEF TickInv, ProbeInv
<1>3. CASE Reset(i)
  <2>1. Close({i})
    BY <1>3 DEF Reset
  <2>2. /\ unprobed' \in Seq(Issues) /\ probed' \in Seq(Issues)
        /\ Rowed' \subseteq Rowed \ {i}
        /\ cooling' = cooling \ {i}
        /\ issue' \in [Issues -> [state : States, tagged : BOOLEAN]]
        /\ \A j \in Issues : issue'[j].state = issue[j].state
    BY <2>1, CloseIs DEF TickInv
  <2>3. /\ Rowed' \subseteq Rowed
        /\ \A j \in cooling : j \in cooling' \/ (driven'[j] = 0 /\ j \notin Rowed')
    <3>1. i \notin Rowed'
      BY <2>2
    <3>2. \A j \in cooling : j \in cooling' \/ j = i
      BY <2>2
    <3> QED
      BY <1>2, <2>2, <3>1, <3>2
  <2>4. \A j \in Issues : driven'[j] > 0 /\ issue'[j].state \in {"Triage", "Backlog"} =>
           issue[j].state \in {"Triage", "Backlog"}
    BY <2>2
  <2> QED
    BY <1>1, <1>2, <2>2, <2>3, <2>4, OutsideStep
<1>4. CASE ~Reset(i)
  <2>1. \E s \in States : Move(i, s)
    <3>1. \E s \in {"Backlog", "Todo"} \cup Triggers : HumanMove(i, s)
      BY <1>4 DEF Human
    <3>2. {"Backlog", "Todo"} \cup Triggers \subseteq States
      BY BoardAssumption DEF States
    <3> QED
      BY <3>1, <3>2 DEF HumanMove
  <2>2. breakerVars' = breakerVars
    BY <1>4 DEF Human
  <2>3. /\ issue' \in [Issues -> [state : States, tagged : BOOLEAN]]
        /\ \A j \in Issues : j # i => issue'[j] = issue[j]
    BY <2>1, MoveIs DEF TickInv
  <2>4. /\ unprobed' \in Seq(Issues) /\ probed' \in Seq(Issues) /\ Rowed' = Rowed
        /\ cooling' = cooling
    BY <2>2 DEF TickInv, ProbeInv, breakerVars, Rowed
  <2>5. /\ Rowed' \subseteq Rowed
        /\ \A j \in cooling : j \in cooling' \/ (driven'[j] = 0 /\ j \notin Rowed')
        /\ \A j \in Issues : driven'[j] > 0 /\ issue'[j].state \in {"Triage", "Backlog"} =>
             issue[j].state \in {"Triage", "Backlog"}
    BY <1>2, <2>3, <2>4
  <2> QED
    BY <1>1, <1>2, <2>3, <2>4, <2>5, OutsideStep
<1> QED
  BY <1>3, <1>4

----------------------------------------------------------------------------
LEMMA TickInvInitially ==
  ASSUME Init
  PROVE  TickInv
<1>1. /\ at = "idle" /\ slots = 0 /\ override = {} /\ list = <<>>
      /\ driven = [i \in Issues |-> 0]
      /\ probed = <<>> /\ cooling = {}
  BY DEF Init, BreakerInit
<1>2. issue \in [Issues -> [state : States, tagged : BOOLEAN]]
  <2>1. PICK f \in [Issues -> {<<"Triage", "none", 0>>} \cup Standing] :
           issue = [i \in Issues |-> [state |-> f[i][1], tagged |-> FALSE]]
    BY DEF Init, BoardInit
  <2>2. ASSUME NEW i \in Issues PROVE f[i][1] \in States
    <3>1. f[i] \in {<<"Triage", "none", 0>>} \cup Standing
      OBVIOUS
    <3>2. \A s, row, n : f[i] = <<s, row, n>> => f[i][1] = s
      OBVIOUS
    <3> QED
      BY <3>1, <3>2 DEF Standing, States
  <2> QED
    BY <2>1, <2>2
<1>3. unprobed \in Seq(Issues)
  <2> DEFINE S == {i \in Issues : Broken(i)}
  <2>1. unprobed \in [1..Cardinality(S) -> S]
    BY DEF Init, BreakerInit, SetToSeqs
  <2>2. S \subseteq Issues /\ IsFiniteSet(S)
    BY BoardAssumption, FS_Subset
  <2>3. Cardinality(S) \in Nat
    BY <2>2, FS_CardinalityType
  <2> HIDE DEF S
  <2>4. \E n \in Nat : unprobed \in [1..n -> Issues]
    BY <2>1, <2>2, <2>3
  <2> QED
    BY <2>4
<1>4. ProbeInv
  BY <1>1, <1>2, <1>3 DEF ProbeInv
<1>5. DrivenInv
  BY <1>1 DEF DrivenInv
<1> QED
  BY <1>4, <1>5 DEF TickInv

LEMMA TickInvKept ==
  ASSUME TickInv, [Next]_vars
  PROVE  TickInv'
<1>1. CASE TickStep
  BY <1>1, BeginTick, RecoverStep, ProbesStep, SweepStep, SkipStep, FindTodoStep, StartTodoStep,
     TriageStep, FindBacklogStep, RefuseStep, PromoteStep, NotPromotedStep DEF TickStep
<1>2. CASE \E i \in Issues : RunStep(i) \/ Resume(i) \/ Webhook(i) \/ Human(i)
  BY <1>2, WorldStep, HumanStep
<1>3. CASE UNCHANGED vars
  BY <1>3 DEF vars, boardVars, breakerVars, tickVars, TickInv, ProbeInv, DrivenInv, Rowed, Told
<1> QED
  BY <1>1, <1>2, <1>3 DEF Next

LEMMA TickInvSuffices ==
  ASSUME TickInv
  PROVE  OncePerCooldown
<1>1. \A i \in Issues : driven[i] \in Int /\ (driven[i] > 0 => driven[i] = 1)
  BY DEF TickInv, ProbeInv, DrivenInv
<1> QED
  BY <1>1 DEF OncePerCooldown

\* Between two cooldowns the tick gives an issue whose breaker is open at most one run,
\* whichever of its two steps finds it, while runs end, webhooks arrive and humans move
\* and reset issues between the steps.
THEOREM OnceAlways == Spec => []OncePerCooldown
<1>1. Init => TickInv
  BY TickInvInitially
<1>2. TickInv /\ [Next]_vars => TickInv'
  BY TickInvKept
<1>3. TickInv => OncePerCooldown
  BY TickInvSuffices
<1> QED
  BY <1>1, <1>2, <1>3, PTL DEF Spec
=============================================================================
