------------------------------ MODULE Bootstrap ------------------------------
(***************************************************************************)
(* The onboarding wizard (packages/cli/src/commands/bootstrap.ts): it      *)
(* creates a GitHub App, registers a webhook in Linear, and then writes    *)
(* the credentials of both to .env and the compose file next to it.  Each  *)
(* attempt can end at every step, and the operator starts again in the     *)
(* same directory.  A secret is named by the attempt that made it.         *)
(***************************************************************************)
EXTENDS Naturals, Functions

CONSTANT MaxAttempt      \* bound on the attempts

VARIABLES
    attempt,    \* the number of the attempt
    step,       \* where the wizard is, "ended" when it is not running
    opts,       \* the options of the attempt
    opened,     \* the attempts whose form was opened in a browser
    secretOf,   \* the apps on GitHub (by attempt) and their webhook secrets
    redirects,  \* the apps whose browser has yet to be sent back to the wizard
    creds,      \* the app and its secret as the attempt knows them
    hooks,      \* the secrets of the webhooks registered in Linear
    env,        \* the .env on disk
    compose,    \* the attempt whose compose file is on disk
    spoiled     \* the .env was left behind in a known way (history)

vars == <<attempt, step, opts, opened, secretOf, redirects, creds, hooks, env, compose, spoiled>>
remote == <<opened, secretOf, redirects>>
disk == <<env, compose, spoiled>>

Attempts == 1..MaxAttempt
Options == [skipApp : BOOLEAN, headless : BOOLEAN, skipLinear : BOOLEAN]
None == [app |-> 0, secret |-> 0, linear |-> 0]
Apps == DOMAIN secretOf

Init ==
    /\ attempt = 0 /\ step = "ended" /\ opts = [skipApp |-> FALSE, headless |-> FALSE, skipLinear |-> FALSE]
    /\ opened = {} /\ secretOf = [a \in {} |-> 0] /\ redirects = {}
    /\ creds = None /\ hooks = {} /\ env = None /\ compose = 0 /\ spoiled = FALSE

Begin(o) ==
    /\ step \in {"ended", "finished"} /\ attempt < MaxAttempt
    /\ attempt' = attempt + 1 /\ step' = "preflight" /\ opts' = o /\ creds' = None
    /\ UNCHANGED <<remote, hooks, disk>>

To(next) == step' = next /\ UNCHANGED <<attempt, opts>>

\* exitWithError, an interrupt, or the end of the terminal.
Exit ==
    /\ step \notin {"ended", "finished"} /\ To("ended")
    /\ UNCHANGED <<remote, creds, hooks, disk>>

Preflight ==
    /\ step = "preflight" /\ To("app")
    /\ UNCHANGED <<remote, creds, hooks, disk>>

-----------------------------------------------------------------------------
\* The credentials of an app that is there come from the environment or a prompt.
SkipApp(a) ==
    /\ step = "app" /\ opts.skipApp /\ a \in Apps
    /\ creds' = [None EXCEPT !.app = a, !.secret = secretOf[a]] /\ To("linear")
    /\ UNCHANGED <<remote, hooks, disk>>

OpenBrowser ==
    /\ step = "app" /\ ~opts.skipApp /\ ~opts.headless /\ To("browser")
    /\ opened' = opened \cup {attempt}
    /\ UNCHANGED <<secretOf, redirects, creds, hooks, disk>>

\* The operator submits a form, of this attempt or one that gave up: GitHub makes
\* the app with a secret of its own and sends the browser to the callback port.
CreateApp(a) ==
    /\ a \in opened \ Apps
    /\ secretOf' = [b \in Apps \cup {a} |-> IF b = a THEN a ELSE secretOf[b]]
    /\ redirects' = redirects \cup {a}
    /\ UNCHANGED <<attempt, step, opts, opened, creds, hooks, disk>>

\* A callback with the state of another attempt is refused.
Callback(a) ==
    /\ step = "browser" /\ a \in redirects /\ redirects' = redirects \ {a}
    /\ To(IF a = attempt THEN "exchange" ELSE "browser")
    /\ UNCHANGED <<opened, secretOf, creds, hooks, disk>>

\* exchangeGitHubManifestCode; the app stays on GitHub when it fails (Exit).
Exchange ==
    /\ step = "exchange" /\ To("linear")
    /\ creds' = [None EXCEPT !.app = attempt, !.secret = secretOf[attempt]]
    /\ UNCHANGED <<remote, hooks, disk>>

\* The headless operator makes an app, or takes one that is there, and pastes the
\* secret the wizard shows into its settings.
PasteSecret(a) ==
    /\ step = "app" /\ ~opts.skipApp /\ opts.headless /\ a \in Apps \cup {attempt}
    /\ secretOf' = [b \in Apps \cup {a} |-> IF b = a THEN attempt ELSE secretOf[b]]
    /\ creds' = [None EXCEPT !.app = a, !.secret = attempt] /\ To("typing")
    /\ spoiled' = (spoiled \/ env.app = a)
    /\ UNCHANGED <<opened, redirects, hooks, env, compose>>

\* The App ID and the key are typed in; what does not look like them ends it (Exit).
TypeCredentials ==
    /\ step = "typing" /\ To("linear")
    /\ UNCHANGED <<remote, creds, hooks, disk>>

-----------------------------------------------------------------------------
SkipLinear ==
    /\ step = "linear" /\ opts.skipLinear /\ To("env")
    /\ UNCHANGED <<remote, creds, hooks, disk>>

RegisterLinearWebhook ==
    /\ step = "linear" /\ ~opts.skipLinear /\ To("env")
    /\ hooks' = hooks \cup {attempt}
    /\ UNCHANGED <<remote, creds, disk>>

\* Mutant of RegisterFails: the failure is only a warning, as that of the proxy is.
RegisterFailsSoftly(registered) ==
    /\ step = "linear" /\ ~opts.skipLinear /\ To("env")
    /\ hooks' = IF registered THEN hooks \cup {attempt} ELSE hooks
    /\ UNCHANGED <<remote, creds, disk>>

\* Linear refuses, or its answer is lost.
RegisterFails(registered) ==
    /\ step = "linear" /\ ~opts.skipLinear /\ To("ended")
    /\ hooks' = IF registered THEN hooks \cup {attempt} ELSE hooks
    /\ UNCHANGED <<remote, creds, disk>>

\* generateEnvFile: the Linear secret is a new one even when Linear was skipped.
GenerateEnvFile ==
    /\ step = "env" /\ To("compose")
    /\ env' = [creds EXCEPT !.linear = attempt] /\ spoiled' = opts.skipLinear
    /\ UNCHANGED <<remote, creds, hooks, compose>>

\* The file was truncated before the write failed.
EnvFileLost ==
    /\ step = "env" /\ To("ended") /\ env' = None /\ spoiled' = FALSE
    /\ UNCHANGED <<remote, creds, hooks, compose>>

GenerateDockerCompose ==
    /\ step = "compose" /\ To("last") /\ compose' = attempt
    /\ UNCHANGED <<remote, creds, hooks, env, spoiled>>

\* The proxy's file and the validation of the stack: no failure of theirs counts.
Finish ==
    /\ step = "last" /\ To("finished")
    /\ UNCHANGED <<remote, creds, hooks, disk>>

Next ==
    \/ \E o \in Options : Begin(o)
    \/ \E a \in Attempts : SkipApp(a) \/ CreateApp(a) \/ Callback(a) \/ PasteSecret(a)
    \/ Exit \/ Preflight \/ OpenBrowser \/ Exchange \/ TypeCredentials
    \/ SkipLinear \/ RegisterLinearWebhook \/ \E b \in BOOLEAN : RegisterFails(b)
    \/ GenerateEnvFile \/ EnvFileLost \/ GenerateDockerCompose \/ Finish

Spec == Init /\ [][Next]_vars

-----------------------------------------------------------------------------
TypeOK ==
    /\ attempt \in 0..MaxAttempt /\ opts \in Options
    /\ {opened, redirects, Apps, hooks} \subseteq SUBSET Attempts
    /\ {creds.app, env.app, compose} \subseteq 0..MaxAttempt

\* GitHub and Linear sign with the secrets the server reads from its .env.
EnvMatches ==
    /\ env.app \in Apps /\ env.secret = secretOf[env.app]
    /\ env.linear \in hooks

(***************************************************************************)
(* However many attempts were given up and wherever, an installation that  *)
(* has a .env verifies what GitHub and Linear send it, but for two cases:  *)
(* a headless attempt pasted a new secret into its app, or Linear was      *)
(* skipped.  An attempt that finishes leaves files of that attempt.        *)
(***************************************************************************)
SetupWorks ==
    /\ env # None /\ ~spoiled => EnvMatches
    /\ step = "finished" => env.linear = attempt /\ compose = attempt

\* What it rests on: which of its files, secrets and webhooks an attempt has at each step.
IndInv ==
    /\ attempt \in Nat /\ Apps \subseteq Nat /\ redirects \subseteq Apps /\ SetupWorks
    /\ secretOf \in [Apps -> Nat] /\ env \in [app : Nat, secret : Nat, linear : Nat]
    /\ creds \in [app : Nat, secret : Nat, linear : Nat]
    /\ step = "exchange" => attempt \in Apps
    /\ step \in {"typing", "linear", "env"} =>
         creds.app \in Apps /\ creds.secret = secretOf[creds.app]
    /\ step = "env" => opts.skipLinear \/ attempt \in hooks
    /\ step \in {"compose", "last", "finished"} => env.linear = attempt
    /\ step \in {"last", "finished"} => compose = attempt
=============================================================================
