CONSTANT MaxEvents <- MCMaxEvents
CONSTANT Timeout <- MCZeroTimeout
CONSTANT MaxServerDeadline <- MCMaxServerDeadline
SPECIFICATION TSpec
INVARIANT WaitsWithinBudget
