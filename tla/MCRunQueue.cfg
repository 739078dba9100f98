SPECIFICATION MCSpec
CONSTANTS
    Parts = {"build", "migration", "stop", "enforce", "twins"}
    Tasks = {1, 2, 3, 4}
    RunQueues <- TwinQueues
    Hashes = {0}
    FirstHash = 0
    MaxReports = 0
    NumberTasks = 2
    IgnoreTasks = {}
    Interrupts = FALSE
INVARIANTS SetsceneExclusive CoveredOnce CompleteMeansAll WaitingDoNotRun EndsProperly
PROPERTY ImplementsTaskGraph
