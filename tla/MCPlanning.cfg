SPECIFICATION MCSpec
CONSTANTS
    Inputs <- ResolutionInputs
    Parts = {"providers", "taskdata", "prepare", "scene", "scheduler"}
    Builds <- SchedulerQueues
    NumberTasks = 2
    MonitorPressure = TRUE
    SceneTasks = {1, 2, 3, 4}
INVARIANTS ChoicesCorrect Closed GraphCorrect SceneQueueCorrect
    AdmissionCorrect OrderCorrect
