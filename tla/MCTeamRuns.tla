----------------------------- MODULE MCTeamRuns -----------------------------
EXTENDS TeamRuns, TLC

\* The second run has the higher priority and no retry; only one may run at a time, so
\* that runs wait, overtake each other and are dispatched by the end of another.
MCAgentOf == (1 :> "coder") @@ (2 :> "tester")
MCPriority == (1 :> 0) @@ (2 :> 1)
MCMaxRetries == (1 :> 1) @@ (2 :> 0)

=============================================================================
