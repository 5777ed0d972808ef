---------------------------- MODULE MCAgentLoop ----------------------------
(* A small instance of AgentLoop for TLC.                                   *)
EXTENDS AgentLoop

CONSTANTS c1, c2, none

\* One tool after the other without a limit; side by side in at most one iteration.
MCConfigs == {<<0, FALSE>>, <<1, TRUE>>}

=============================================================================
