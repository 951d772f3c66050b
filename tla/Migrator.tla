------------------------------ MODULE Migrator ------------------------------
(***************************************************************************)
(* The schema migrations a server applies before it serves (db/migrator.ts,*)
(* createDb in db/client.ts).  Each migration is a file of statements and  *)
(* is recorded under the file's name after its last statement; a release   *)
(* gave some of the files new names and renames the records of databases   *)
(* that have the old ones.  A boot can die between any two statements, and *)
(* an operator may go back to the release before.                          *)
(***************************************************************************)
EXTENDS Naturals

CONSTANTS
    Migrations,    \* how many migrations there are, in the order of their files
    Statements,    \* how many statements each has
    Renamed        \* the migrations whose files have new names in the new release

VARIABLES
    release,       \* the release that is installed: "old" or "new"
    phase,         \* the server: "down", "tracking", "migrating", "serving"
    at,            \* the migration it is at
    statement,     \* how many statements of it have run in this boot
    effects,       \* how many of the statements of each migration the schema has
    recorded       \* schema_migrations: names, as <<migration, release it is named by>>

vars == <<release, phase, at, statement, effects, recorded>>

Files == 1..Migrations
NameIn(r, m) == <<m, IF m \in Renamed THEN r ELSE "old">>

Init ==
    /\ release = "old" /\ phase = "down" /\ at = 1 /\ statement = 0
    /\ effects = [m \in Files |-> 0] /\ recorded = {}

Boot ==
    /\ phase = "down" /\ phase' = "tracking" /\ at' = 1 /\ statement' = 0
    /\ UNCHANGED <<release, effects, recorded>>

WithNewNames(S) == {IF n[1] \in S THEN NameIn("new", n[1]) ELSE n : n \in recorded}
Clashing == {m \in Renamed : {<<m, "old">>, <<m, "new">>} \subseteq recorded}

\* The new release renames what it finds under the old names.
RenameRecords ==
    /\ phase = "tracking" /\ (release = "new" => Clashing = {})
    /\ phase' = "migrating"
    /\ recorded' = IF release = "new" THEN WithNewNames(Renamed) ELSE recorded
    /\ UNCHANGED <<release, at, statement, effects>>

\* Some are renamed when the boot dies, or when a record whose new name is there
\* as well breaks the UNIQUE of the table.
RenamesCutOff(S) ==
    /\ phase = "tracking" /\ release = "new" /\ S \cap Clashing = {}
    /\ phase' = "down" /\ recorded' = WithNewNames(S)
    /\ UNCHANGED <<release, at, statement, effects>>

Applied(m) == NameIn(release, m) \in recorded

Skip ==
    /\ phase = "migrating" /\ at \in Files /\ Applied(at) /\ statement = 0
    /\ at' = at + 1
    /\ UNCHANGED <<release, phase, statement, effects, recorded>>

\* A statement that finds its column or table there is passed over.
RunStatement ==
    /\ phase = "migrating" /\ at \in Files /\ ~Applied(at) /\ statement < Statements
    /\ statement' = statement + 1
    /\ effects' = [effects EXCEPT ![at] = IF @ > statement THEN @ ELSE statement + 1]
    /\ UNCHANGED <<release, phase, at, recorded>>

\* Postgres runs the file as one transaction.
RunFile ==
    /\ phase = "migrating" /\ at \in Files /\ ~Applied(at) /\ statement = 0
    /\ statement' = Statements /\ effects' = [effects EXCEPT ![at] = Statements]
    /\ UNCHANGED <<release, phase, at, recorded>>

\* Mutant of Complete: the record is written before the last statement.
CompleteEarly == statement >= Statements - 1

Complete == statement = Statements

Record ==
    /\ phase = "migrating" /\ at \in Files /\ ~Applied(at) /\ Complete
    /\ recorded' = recorded \cup {NameIn(release, at)}
    /\ at' = at + 1 /\ statement' = 0
    /\ UNCHANGED <<release, phase, effects>>

Serve ==
    /\ phase = "migrating" /\ at \notin Files /\ phase' = "serving"
    /\ UNCHANGED <<release, at, statement, effects, recorded>>

\* A statement fails, the process dies or is stopped.
Down ==
    /\ phase # "down" /\ phase' = "down"
    /\ UNCHANGED <<release, at, statement, effects, recorded>>

Install(r) ==
    /\ phase = "down" /\ release' = r
    /\ UNCHANGED <<phase, at, statement, effects, recorded>>

Next ==
    \/ Boot \/ RenameRecords \/ Skip \/ RunStatement \/ RunFile \/ Record \/ Serve \/ Down
    \/ \E r \in {"old", "new"} : Install(r)
    \/ \E S \in SUBSET Renamed : RenamesCutOff(S)

Spec == Init /\ [][Next]_vars

-----------------------------------------------------------------------------
TypeOK ==
    /\ release \in {"old", "new"} /\ phase \in {"down", "tracking", "migrating", "serving"}
    /\ at \in 1..(Migrations + 1) /\ statement \in 0..Statements
    /\ effects \in [Files -> 0..Statements]
    /\ recorded \subseteq Files \X {"old", "new"}

(***************************************************************************)
(* A server that serves has the whole schema and a record of it under its  *)
(* own names, and a record always stands for a migration that ran to its   *)
(* end: wherever boots were cut off, and whichever releases came before.   *)
(***************************************************************************)
ServingMigrated ==
    /\ phase = "serving" => \A m \in Files : effects[m] = Statements /\ Applied(m)
    /\ \A n \in recorded : effects[n[1]] = Statements

\* What it rests on: the migrations a boot has passed are recorded, and the statements it
\* has run of one are in the schema.
IndInv ==
    /\ TypeOK /\ ServingMigrated
    /\ phase = "tracking" => at = 1 /\ statement = 0
    /\ phase = "migrating" => \A m \in Files : m < at => Applied(m)
    /\ phase = "migrating" /\ at \in Files => effects[at] >= statement
=============================================================================
