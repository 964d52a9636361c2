CONSTANTS
  n1 = n1
  n2 = n2
  n3 = n3
  Nodes = {n1, n2, n3}
  Plans <- MCPlans
  InitialGraphs <- MCInitialGraphs
  Planners = {p1}
  Escalations = {e1}
  EscalationLevels = {"LEVEL_2", "LEVEL_3"}
  MaxVersion = 3
  MaxChanges = 1
  MaxCrashes = 1
  NoGraph = NoGraph
  Torn = Torn
  None = None

SPECIFICATION Spec

PROPERTY CrashLosesNothing

CHECK_DEADLOCK FALSE
