SPECIFICATION TeamSpec
CONSTANTS
  Agent = {"coder", "tester"}
  Run = {1, 2}
  AgentOf <- MCAgentOf
  Priority <- MCPriority
  MaxRetries <- MCMaxRetries
  MaxConcurrent = 1
  MaxRestarts = 0
CHECK_DEADLOCK FALSE
INVARIANTS AbortedIsCancelled
