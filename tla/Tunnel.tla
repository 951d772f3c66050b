------------------------------- MODULE Tunnel -------------------------------
(***************************************************************************)
(* The cloudflared process `ura start --tunnel` keeps next to the server   *)
(* (cli/src/lib/tunnel.ts, and its use in cli/src/commands/start.ts): it   *)
(* is spawned, watched for its public URL, spawned again with a delay when *)
(* it exits, a bounded number of times, and stopped at shutdown.           *)
(***************************************************************************)
EXTENDS Naturals

CONSTANT MaxRestarts     \* maxRestartAttempts

VARIABLES
    daemon,        \* "booting", "starting", "serving", "stopping", "closing", "exited", "crashed"
    mode,          \* "quick" or "token"
    child,         \* cloudflared: "none", "running", or "told" to end
    timer,         \* restartTimer is set
    restartCount,
    shuttingDown,
    awaited,       \* who waits for a URL: "start", "restart"
    held,          \* start.ts has the manager
    listened       \* somebody listens to its errors

vars == <<daemon, mode, child, timer, restartCount, shuttingDown, awaited, held, listened>>

Init ==
    /\ daemon = "booting" /\ mode \in {"quick", "token"}
    /\ child = "none" /\ timer = FALSE /\ restartCount = 0 /\ shuttingDown = FALSE
    /\ awaited = {} /\ held = FALSE /\ listened = FALSE

Alive == daemon \notin {"exited", "crashed"}

\* An "error" event that nobody listens to ends the process.
EmitError == daemon' = IF listened THEN daemon ELSE "crashed"

Start ==
    /\ daemon = "booting" /\ child' = "running" /\ held' = TRUE
    /\ IF mode = "quick"
       THEN daemon' = "starting" /\ awaited' = {"start"} /\ UNCHANGED listened
       ELSE daemon' = "serving" /\ listened' = TRUE /\ UNCHANGED awaited
    /\ UNCHANGED <<mode, timer, restartCount, shuttingDown>>

\* The binary is missing: the manager is dropped, or, with a token, kept without a child.
StartMissing ==
    /\ daemon = "booting" /\ daemon' = "serving"
    /\ held' = (mode = "token") /\ listened' = held'
    /\ UNCHANGED <<mode, child, timer, restartCount, shuttingDown, awaited>>

\* A child prints its URL to whoever spawned it.
UrlSeen(w) ==
    /\ Alive /\ w \in awaited /\ child = "running" /\ awaited' = awaited \ {w}
    /\ w = "start" => restartCount = 0
    /\ IF w = "start" THEN daemon' = "serving" /\ listened' = TRUE
                      ELSE UNCHANGED <<daemon, listened>>
    /\ UNCHANGED <<mode, child, timer, restartCount, shuttingDown, held>>

\* urlDetectTimeoutMs: start() is given up and its manager forgotten, with the
\* child and its supervisor as they are; a restart reports an error.
UrlTimeout(w) ==
    /\ Alive /\ w \in awaited /\ awaited' = awaited \ {w}
    /\ IF w = "start" THEN daemon' = "serving" /\ held' = FALSE
                      ELSE EmitError /\ UNCHANGED held
    /\ UNCHANGED <<mode, child, timer, restartCount, shuttingDown, listened>>

\* The exit handler of wireSupervisor.
ChildExits ==
    /\ Alive /\ child # "none" /\ child' = "none"
    /\ IF shuttingDown THEN UNCHANGED <<timer, daemon>>
       ELSE IF restartCount >= MaxRestarts THEN EmitError /\ UNCHANGED timer
       ELSE timer' = TRUE /\ UNCHANGED daemon
    /\ UNCHANGED <<mode, restartCount, shuttingDown, awaited, held, listened>>

TimerFires ==
    /\ Alive /\ timer /\ timer' = FALSE /\ restartCount' = restartCount + 1
    /\ IF shuttingDown THEN UNCHANGED <<child, awaited>>
       ELSE /\ child' = "running"
            /\ awaited' = IF mode = "quick" THEN awaited \cup {"restart"} ELSE awaited
    /\ UNCHANGED <<daemon, mode, shuttingDown, held, listened>>

\* The binary has gone: no exit follows.  The child of a token tunnel has no
\* listener for the error of its own.
RestartMissing ==
    /\ Alive /\ timer /\ timer' = FALSE /\ restartCount' = restartCount + 1 /\ ~shuttingDown
    /\ IF mode = "quick" THEN EmitError ELSE daemon' = "crashed"
    /\ UNCHANGED <<mode, child, shuttingDown, awaited, held, listened>>

\* Mutant of Stop: the supervisor is not told.
StopUntold ==
    /\ timer' = FALSE /\ UNCHANGED shuttingDown
    /\ child' = IF child = "running" THEN "told" ELSE child

Stop ==
    /\ shuttingDown' = TRUE /\ timer' = FALSE
    /\ child' = IF child = "running" THEN "told" ELSE child

\* A signal; the handlers are there once start has come to its end.
Shutdown ==
    /\ daemon = "serving"
    /\ IF held THEN Stop ELSE UNCHANGED <<timer, shuttingDown, child>>
    /\ daemon' = IF held /\ child = "running" THEN "stopping" ELSE "closing"
    /\ UNCHANGED <<mode, restartCount, awaited, held, listened>>

\* stop() has seen the exit; a second signal does not wait for it.
Stopped(again) ==
    /\ daemon = "stopping" /\ (child = "none" \/ again) /\ daemon' = "closing"
    /\ UNCHANGED <<mode, child, timer, restartCount, shuttingDown, awaited, held, listened>>

Exit ==
    /\ daemon = "closing" /\ daemon' = "exited"
    /\ UNCHANGED <<mode, child, timer, restartCount, shuttingDown, awaited, held, listened>>

\* A signal before the handlers are there, or a kill.
Killed ==
    /\ Alive /\ daemon' = "crashed"
    /\ UNCHANGED <<mode, child, timer, restartCount, shuttingDown, awaited, held, listened>>

Next ==
    \/ Start \/ StartMissing \/ ChildExits \/ TimerFires \/ RestartMissing
    \/ \E w \in {"start", "restart"} : UrlSeen(w) \/ UrlTimeout(w)
    \/ Shutdown \/ (\E again \in BOOLEAN : Stopped(again)) \/ Exit \/ Killed

Spec == Init /\ [][Next]_vars

-----------------------------------------------------------------------------
TypeOK ==
    /\ child \in {"none", "running", "told"} /\ restartCount \in 0..MaxRestarts
    /\ awaited \subseteq {"start", "restart"}

(***************************************************************************)
(* A shutdown leaves no tunnel: no restart is pending and no cloudflared   *)
(* was left untold, however its exit, a restart or the search for its URL  *)
(* fall together with the stop, unless the manager was forgotten.          *)
(***************************************************************************)
StopIsFinal ==
    daemon \in {"closing", "exited"} /\ held => ~timer /\ child # "running"

\* What it rests on: start's search for a URL ends before the server can be stopped, and a
\* stop reaches the manager that is held.
IndInv ==
    /\ "start" \in awaited => daemon \in {"starting", "crashed"}
    /\ daemon = "booting" => ~shuttingDown
    /\ shuttingDown => ~timer /\ child # "running"
    /\ daemon \in {"stopping", "closing", "exited"} /\ held => shuttingDown
=============================================================================
