CONSTANTS
  Flows <- ThreeFlows
  Ranks = {1, 3}
  MaxAlerts = 2
SPECIFICATION Spec
CONSTRAINT NotBoth
CHECK_DEADLOCK FALSE
INVARIANTS SummaryExact NeverUnderReports
