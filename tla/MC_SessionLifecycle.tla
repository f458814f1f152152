------------------------ MODULE MC_SessionLifecycle ------------------------
\* Which requests and commands meet one session in the runs.
EXTENDS SessionLifecycle, TLC

CONSTANTS h1, h2, h3

RunAndKills == (h1 :> "run") @@ (h2 :> "kill") @@ (h3 :> "clikill")
RunAndInput == (h1 :> "run") @@ (h2 :> "input")
RunAndResize == (h1 :> "run") @@ (h2 :> "resize")
RunAndList == (h1 :> "run") @@ (h2 :> "list")
CreateInputList == (h1 :> "create") @@ (h2 :> "input") @@ (h3 :> "list")
CreateResizeReplay == (h1 :> "create") @@ (h2 :> "resize") @@ (h3 :> "replay")
RunAndCliKill == (h1 :> "run") @@ (h3 :> "clikill")
OnlyRun == (h1 :> "run")
=============================================================================
