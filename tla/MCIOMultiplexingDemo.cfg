CONSTANTS
  Ports = {p9000, p9001}
  Returning = {p9000}
  MaxActivities = 2
  MaxTasks = 4
SPECIFICATION LaunchSpec
INVARIANT OneLiveTaskPerButton
PROPERTIES FailsOnlyAcrossActivities TasksSettle
CHECK_DEADLOCK FALSE
