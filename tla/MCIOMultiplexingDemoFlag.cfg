CONSTANTS
  Ports = {p9000, p9001}
  Returning = {}
  MaxActivities = 2
  MaxTasks = 4
SPECIFICATION LaunchSpec
INVARIANT FlagTellsTheTruth
CHECK_DEADLOCK FALSE
