----------------------------- MODULE CostRollup -----------------------------
(***************************************************************************)
(* The daily cost rollups (packages/core/src/cost/rollup.ts): the tick     *)
(* rolls the days after the latest one in the table up to yesterday, the   *)
(* command `ura cost backfill` the last days asked for; a day is read and  *)
(* then written one bucket at a time, and either may be broken off by a    *)
(* failed insert or a crash.  A run ends on a day; a failed one that is    *)
(* resumed ends again on a later day.  A row counts runs; tokens and       *)
(* dollars are summed over the same runs.                                  *)
(***************************************************************************)
EXTENDS Integers, FiniteSets, FiniteSetsExt

CONSTANTS
    Tasks,      \* the pipeline runs
    Buckets,    \* the combinations of pipeline, team and repository
    BucketOf,   \* the bucket of each run
    DaysAsked,  \* the numbers of days the command is asked for
    MaxDay,     \* bound on the days that pass
    Backfill    \* MAX_BACKFILL_DAYS

VARIABLES
    today,      \* the current UTC day
    ended,      \* completedAt of each run, 0 before its first end
    rows,       \* cost_rollups_daily: the count of each day and bucket, -1 if no row
    rolling,    \* what the tick and the command do: days left, counts read, buckets left
    ends,       \* the (run, day) pairs of all ends (history)
    rolled,     \* the days rolled to their end (history)
    excused     \* days a break or a cap leaves out (history)

vars == <<today, ended, rows, rolling, ends, rolled, excused>>

Days == 1..MaxDay
Rollers == {"tick", "command"}
Idle == [days |-> {}, day |-> 0, counts |-> [b \in Buckets |-> 0], left |-> {}]

Init == /\ today = 1
        /\ ended = [r \in Tasks |-> 0]
        /\ rows = [d \in Days |-> [b \in Buckets |-> -1]]
        /\ rolling = [p \in Rollers |-> Idle]
        /\ ends = {}
        /\ rolled = {}
        /\ excused = {}

EndedOn(d, b) == Cardinality({r \in Tasks : ended[r] = d /\ BucketOf[r] = b})

\* A run ends, for the first time or after it was resumed.
End(r) == /\ ended[r] < today
          /\ ended' = [ended EXCEPT ![r] = today]
          /\ ends' = ends \cup {<<r, today>>}
          /\ UNCHANGED <<today, rows, rolling, rolled, excused>>

Midnight == /\ today < MaxDay
            /\ today' = today + 1
            /\ UNCHANGED <<ended, rows, rolling, ends, rolled, excused>>

Present(d) == \E b \in Buckets : rows[d][b] # -1
Latest == Max({0} \cup {d \in Days : Present(d)})
Yesterday == today - 1

\* Mutant of FirstDay: the day after the latest one is taken for rolled.
DayAfterNext(latest) == Max({latest + 2, Yesterday - Backfill + 1})

\* recomputeCostRollups: a gap is filled from the day after the latest one.
FirstDay(latest) == IF latest = 0 THEN Yesterday - Backfill + 1
                                  ELSE Max({latest + 1, Yesterday - Backfill + 1})

\* Yesterday itself is rolled again at every tick.
DatesToRoll == IF Latest = Yesterday THEN {Yesterday} ELSE FirstDay(Latest)..Yesterday

Select == /\ rolling["tick"] = Idle
          /\ Yesterday >= 1
          /\ Latest <= Yesterday
          /\ rolling' = [rolling EXCEPT !["tick"].days = DatesToRoll \cap Days]
          /\ excused' = excused \cup ((1..(Yesterday - Backfill)) \ rolled)
          /\ UNCHANGED <<today, ended, rows, ends, rolled>>

\* backfillCostRollups: the last n days, whatever is in the table.
Command(n) ==
    /\ rolling["command"] = Idle
    /\ Yesterday >= 1
    /\ rolling' = [rolling EXCEPT !["command"].days = ((Yesterday - n + 1)..Yesterday) \cap Days]
    /\ excused' = excused \cup ((1..(Yesterday - n)) \ rolled)
    /\ UNCHANGED <<today, ended, rows, ends, rolled>>

\* rollOneDay reads the runs of a day; a bucket without runs gets no row.
ReadDay(p) ==
    /\ rolling[p].days # {}
    /\ rolling[p].day = 0
    /\ LET d == Min(rolling[p].days)
           counts == [b \in Buckets |-> EndedOn(d, b)]
       IN rolling' = [rolling EXCEPT ![p].day = d,
                                     ![p].counts = counts,
                                     ![p].left = {b \in Buckets : counts[b] > 0}]
    /\ UNCHANGED <<today, ended, rows, ends, rolled, excused>>

\* Mutant of Upsert: a conflicting row is added to.
AddTo(old, new) == IF old = -1 THEN new ELSE old + new

\* onConflictDoUpdate: the row is overwritten.
Upsert(old, new) == new

WriteBucket(p, b) ==
    /\ b \in rolling[p].left
    /\ rows' = [rows EXCEPT ![rolling[p].day][b] = Upsert(@, rolling[p].counts[b])]
    /\ rolling' = [rolling EXCEPT ![p].left = @ \ {b}]
    /\ UNCHANGED <<today, ended, ends, rolled, excused>>

DayDone(p) ==
    /\ rolling[p].day # 0
    /\ rolling[p].left = {}
    /\ rolled' = rolled \cup {rolling[p].day}
    /\ rolling' = [rolling EXCEPT ![p] = [Idle EXCEPT !.days = rolling[p].days \ {rolling[p].day}]]
    /\ UNCHANGED <<today, ended, rows, ends, excused>>

\* An insert fails, or the process dies.  A day of which a row is there by
\* then counts as rolled for the next tick, unless it is yesterday again.
BreakOff(p) ==
    /\ rolling[p].day # 0
    /\ excused' = IF Present(rolling[p].day) THEN excused \cup {rolling[p].day} ELSE excused
    /\ rolling' = [rolling EXCEPT ![p] = Idle]
    /\ UNCHANGED <<today, ended, rows, ends, rolled>>

Next == \/ \E r \in Tasks : End(r)
        \/ Midnight
        \/ Select
        \/ \E n \in DaysAsked : Command(n)
        \/ \E p \in Rollers : \/ ReadDay(p) \/ DayDone(p) \/ BreakOff(p)
                              \/ \E b \in Buckets : WriteBucket(p, b)

Spec == Init /\ [][Next]_vars

-----------------------------------------------------------------------------
TypeOK ==
    /\ today \in Days
    /\ ended \in [Tasks -> 0..MaxDay]
    /\ \A d \in Days, b \in Buckets : rows[d][b] >= -1
    /\ rolled \subseteq Days /\ excused \subseteq Days

\* The ends that fell on a day, of runs that may have ended again since.
EndsOn(d, b) == Cardinality({e \in ends : e[2] = d /\ BucketOf[e[1]] = b})

\* Every row counts all runs whose end is that day, and none that never
\* ended then.
RowsTrue ==
    \A d \in rolled, b \in Buckets :
        /\ rows[d][b] >= EndedOn(d, b) \/ EndedOn(d, b) = 0
        /\ rows[d][b] <= EndsOn(d, b)

\* No day behind the latest one is left out, except by a broken roll, the cap
\* on the backfill, or a command that was asked for fewer days.
NoDayLeftOut ==
    \A d \in Days : d < Latest /\ rolling = [p \in Rollers |-> Idle]
                    => d \in rolled \cup excused

(***************************************************************************)
(* The rollups can be relied on: in spite of ticks that repeat a day, a    *)
(* command that runs next to them, crashes and runs that end twice, a      *)
(* rolled day is right and no day is silently passed over.                 *)
(***************************************************************************)
RollupExact == RowsTrue /\ NoDayLeftOut

\* A day needs no further roll, or is being rolled and has a row already.
Settled(d) ==
    \/ d \in rolled \cup excused
    \/ Present(d) /\ \E p \in Rollers : rolling[p].day = d

\* What it rests on: only days that are over are rolled, and no run ends on them any more;
\* what was read of a day, and then written, lies between the runs that end there now and
\* those that ever did; and a roll goes through its days in order, so that a row has no gap
\* behind it.
Typed ==
    /\ today \in Days /\ ended \in [Tasks -> 0..MaxDay] /\ rows \in [Days -> [Buckets -> Int]]
    /\ rolled \subseteq 1..Yesterday /\ excused \subseteq Days /\ ends \subseteq Tasks \X Days
    /\ rolling \in [Rollers -> [days : SUBSET (1..Yesterday), day : 0..Yesterday,
                                counts : [Buckets -> Nat], left : SUBSET Buckets]]
    /\ \A r \in Tasks : ended[r] <= today /\ (ended[r] # 0 => <<r, ended[r]>> \in ends)

Between(d, b, count) == EndedOn(d, b) <= count /\ count <= EndsOn(d, b)

CountsTrue(p, b) ==
    LET d == rolling[p].day
    IN d # 0 => /\ Between(d, b, rolling[p].counts[b])
                /\ b \in rolling[p].left \/ rows[d][b] # -1 \/ EndedOn(d, b) = 0

InOrder(p) ==
    LET roll == rolling[p]
    IN /\ IF roll.day = 0 THEN roll.left = {} /\ roll.counts = Idle.counts
          ELSE roll.day \in roll.days /\ \A d \in roll.days : roll.day <= d
       /\ \A e \in roll.days : \A d \in 1..e : d \in roll.days \/ Settled(d)

IndInv ==
    /\ Typed
    /\ \A d \in Days, b \in Buckets : rows[d][b] # -1 => d < today /\ Between(d, b, rows[d][b])
    /\ \A d \in rolled, b \in Buckets : rows[d][b] # -1 \/ EndedOn(d, b) = 0
    /\ \A p \in Rollers : InOrder(p) /\ \A b \in Buckets : CountsTrue(p, b)
    /\ \A e \in Days : Present(e) => \A d \in 1..e : Settled(d)
=============================================================================
