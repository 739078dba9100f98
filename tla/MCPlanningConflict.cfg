SPECIFICATION MCSpec
CONSTANTS
    Inputs <- ResolutionInputs
    Parts = {"providers"}
    Builds <- SchedulerQueues
    NumberTasks = 2
    MonitorPressure = TRUE
    SceneTasks = {1, 2, 3, 4}
INVARIANT RuntimeConflictFound
