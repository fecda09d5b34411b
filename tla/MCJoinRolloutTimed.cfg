CONSTANT MaxEvents <- MCMaxEvents
CONSTANT Timeout <- MCTimeout
CONSTANT MaxServerDeadline <- MCMaxServerDeadline
SPECIFICATION TSpec
INVARIANT WaitsWithinBudget
