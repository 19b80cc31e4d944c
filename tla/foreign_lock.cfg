\* Another machine has a project open while its task is recovered.
SPECIFICATION Spec
CONSTANTS
    Task = {1, 2}
    Client = {}
    Kind <- AllFlaky
    MaxTime = 1
    ClientOps = {}
    ClientCrashes = FALSE
    IoFaults = FALSE
    AedtFaults = FALSE
    ForeignAedt = TRUE
    Worker = {w1}
    TrayWorker = w1
    StatusFaults = FALSE
    Crashes = FALSE
    UserActions = {"stop"}
PROPERTIES
    ForeignLockKept
