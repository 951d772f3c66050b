---------------------------- MODULE ConfigReload ----------------------------
(***************************************************************************)
(* The live reload of config.json (cli/src/lib/config-watcher.ts, and the  *)
(* handler of its "applied" event in cli/src/commands/start.ts).  The file *)
(* lists repositories by URL; webhooks and ticks find them in a map by     *)
(* team, or by a slug of the URL when the entry names no team.  A change   *)
(* of the file is read after a pause, compared with what was read last,    *)
(* and the difference is applied to the map.                               *)
(***************************************************************************)
EXTENDS Naturals, Sequences, SequencesExt

CONSTANTS
    Urls,       \* the repositories; a URL also stands for its slug
    Teams,      \* the team ids
    NoTeam,     \* the entry names no team
    TestCommands \* for the fields that are safe to change

VARIABLES
    file,       \* the repositories in config.json, by URL
    readable,   \* it is there, whole and valid
    watching,   \* fs.watch still follows the file
    pending,    \* the debounce timer runs
    current,    \* the configuration that was read last
    live,       \* repoConfigs
    missed,     \* the file changed unseen (history)
    passed      \* a reload or a start gave a key of one URL to another (history)

vars == <<file, readable, watching, pending, current, live, missed, passed>>

Keys == Teams \cup Urls
Absent == [team |-> NoTeam, test |-> "none"]
Entries == [team : Teams \cup {NoTeam}, test : TestCommands]
Files == [Urls -> Entries \cup {Absent}]
Maps == [url : Urls \cup {NoTeam}, test : TestCommands \cup {"none"}]
Nobody == [url |-> NoTeam, test |-> "none"]

Listed(f) == {u \in Urls : f[u] # Absent}
KeyOf(u, f) == IF f[u].team = NoTeam THEN u ELSE f[u].team
Passes(f, g) == \E u \in Listed(f), v \in Listed(g) : u # v /\ KeyOf(u, f) = KeyOf(v, g)

Entry(u, f) == [url |-> u, test |-> f[u].test]

\* buildRepoConfigsFromEnv: the entries in the order of the file.
Built(f, order) ==
    LET map[n \in 0..Len(order)] ==
          IF n = 0 THEN [k \in Keys |-> Nobody]
          ELSE [map[n - 1] EXCEPT ![KeyOf(order[n], f)] = Entry(order[n], f)]
    IN map[Len(order)]

Init ==
    /\ file \in Files /\ Listed(file) # {}
    /\ readable = TRUE /\ watching = TRUE /\ pending = FALSE /\ missed = FALSE
    /\ current = file /\ passed = Passes(file, file)
    /\ \E order \in SetToSeqs(Listed(file)) : live = Built(file, order)

-----------------------------------------------------------------------------
\* The file is saved; an editor that puts a new file in its place ends the watch,
\* and a save in several writes can leave it unreadable in between.
Save(f, whole, replaced) ==
    /\ file' = f /\ readable' = whole
    /\ watching' = (watching /\ ~replaced)
    /\ pending' = (pending \/ watching)
    /\ missed' = (missed \/ ~watching)
    /\ UNCHANGED <<current, live, passed>>

Added == Listed(file) \ Listed(current)
Removed == Listed(current) \ Listed(file)
ModifiedSafe == {u \in Listed(file) \cap Listed(current) : file[u] # current[u]}

AddEntry(map, u) == [map EXCEPT ![KeyOf(u, file)] = Entry(u, file)]

\* Mutant of FormerKey: the entry is looked for under its new key.
NewKey(u) == KeyOf(u, file)

FormerKey(u) == KeyOf(u, current)

\* The entry is found under its former key, changed, and put under the new one.
ModifyEntry(map, u) ==
    LET old == FormerKey(u)
        entry == [map[old] EXCEPT !.test = IF file[u].test # current[u].test THEN file[u].test ELSE @]
    IN IF map[old] = Nobody THEN map
       ELSE [[map EXCEPT ![old] = Nobody] EXCEPT ![KeyOf(u, file)] = entry]

RemoveEntry(map, u) == [map EXCEPT ![KeyOf(u, current)] = Nobody]

\* The "applied" handler: what was added, changed, removed, in this order.
Edits == Added \cup ModifiedSafe \cup Removed
Turn(u) == CASE u \in Added -> 1 [] u \in ModifiedSafe -> 2 [] OTHER -> 3
Edit(map, u) == CASE u \in Added -> AddEntry(map, u)
                  [] u \in ModifiedSafe -> ModifyEntry(map, u)
                  [] OTHER -> RemoveEntry(map, u)
Applied(order) ==
    LET map[n \in 0..Len(order)] == IF n = 0 THEN live ELSE Edit(map[n - 1], order[n])
    IN map[Len(order)]

\* handleChange.
Reload ==
    /\ pending /\ readable /\ pending' = FALSE
    /\ \E order \in SetToSeqs(Edits) :
         /\ \A m, n \in DOMAIN order : m < n => Turn(order[m]) <= Turn(order[n])
         /\ live' = Applied(order)
    /\ current' = file /\ missed' = FALSE /\ passed' = (passed \/ Passes(current, file) \/ Passes(file, file))
    /\ UNCHANGED <<file, readable, watching>>

\* What cannot be read leaves the configuration as it is.
ReloadFails ==
    /\ pending /\ ~readable /\ pending' = FALSE
    /\ UNCHANGED <<file, readable, watching, current, live, missed, passed>>

\* requireRepoConfigs: a server without a repository does not start.
Restart ==
    /\ readable /\ Listed(file) # {}
    /\ \E order \in SetToSeqs(Listed(file)) : live' = Built(file, order)
    /\ current' = file /\ passed' = Passes(file, file)
    /\ watching' = TRUE /\ pending' = FALSE /\ missed' = FALSE
    /\ UNCHANGED <<file, readable>>

\* What a file that cannot be read was meant to hold is nowhere looked at.
Next ==
    \/ \E f \in Files : Save(f, TRUE, FALSE) \/ Save(f, TRUE, TRUE)
    \/ Save(file, FALSE, FALSE)
    \/ Reload \/ ReloadFails \/ Restart

Spec == Init /\ [][Next]_vars

-----------------------------------------------------------------------------
TypeOK ==
    /\ file \in Files /\ current \in Files
    /\ \A k \in Keys : live[k] = Nobody \/ live[k].url \in Urls

(***************************************************************************)
(* After any sequence of edits the map is what a restart would make of the *)
(* file: when no reload is pending, the file is readable and the watch saw *)
(* its changes, then the file has been applied; and as long as no key went *)
(* from one repository to another, each repository of the file is found by *)
(* its key, as the file has it, and nothing else is.                       *)
(***************************************************************************)
LiveFollowsFile ==
    /\ ~pending /\ readable /\ ~missed => current = file
    /\ ~passed => \A k \in Keys :
         live[k] = IF \E u \in Listed(current) : KeyOf(u, current) = k
                   THEN Entry(CHOOSE u \in Listed(current) : KeyOf(u, current) = k, current)
                   ELSE Nobody

\* What it rests on: the configuration that was read last gives each key to one repository.
IndInv ==
    /\ file \in Files /\ current \in Files /\ live \in [Keys -> Maps]
    /\ LiveFollowsFile
    /\ ~passed => ~Passes(current, current)
=============================================================================
