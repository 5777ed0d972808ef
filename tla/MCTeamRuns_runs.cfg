\* Two runs of two teammates, one at a time, and one restart of the lead.
SPECIFICATION TeamSpec
CONSTANTS
  Agent = {"coder", "tester"}
  Run = {1, 2}
  AgentOf <- MCAgentOf
  Priority <- MCPriority
  MaxRetries <- MCMaxRetries
  MaxConcurrent = 1
  MaxRestarts = 1
INVARIANTS TypeOK NoDoubleBooking NobodyForgotten SessionTracksRuns CleanupLeavesNothing
PROPERTIES SettledStays RunsSettle
CHECK_DEADLOCK FALSE
