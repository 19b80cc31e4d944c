\* A second kill during start-up.
SPECIFICATION Spec
CONSTANTS
    Task = {1, 2}
    Client = {}
    Kind <- LastFlaky
    MaxTime = 1
    ClientOps = {}
    ClientCrashes = FALSE
    IoFaults = FALSE
    AedtFaults = TRUE
    ForeignAedt = FALSE
    Worker = {w1}
    TrayWorker = w1
    StatusFaults = FALSE
    Crashes = FALSE
    UserActions = {"stop"}
PROPERTIES
    RecoveredLocksCleared
