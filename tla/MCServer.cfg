SPECIFICATION MCSpec
CONSTANTS
    Parts = {"kill", "timeouts", "patient", "changes"}
    Clients = {u1, u2}
    UIs = {u1, u2, k}
    Killers = {k}
    NumServers = 3
    Timeout = "none"
    MaxRetries = 3
    MaxCrashes = 1
    MaxTimeouts = 0
    MaxClients = 2
    MaxCommands = 2
    MaxConfChanges = 1
    MaxRecipeChanges = 1
    MaxSignals = 0
    NumRecipes = 2
    Patient = FALSE
    SyncCommands = {"setFeatures", "updateConfig", "getVariable", "stateShutdown", "stateForceShutdown"}
    AsyncCommands = {"buildTargets", "showVersions", "buildFile", "showEnvironment", "resetCooker", "triggerEvent"}
SYMMETRY Symmetry
INVARIANTS OneServer ServerReachable CommandsSeeChanges CommandsRunSafely PatientRunsSafely
