SPECIFICATION FinancialsSpec
CHECK_DEADLOCK FALSE
CONSTANTS
  Null = Null
  Metrics <- MCMetrics
  PeriodType <- MCPeriodType
  Worlds <- MCWorlds
INVARIANTS
  ApplicableAsSelected
