\* A second, --no-tray worker beside the tray.
SPECIFICATION Spec
CONSTANTS
    Task = {1}
    Client = {c1}
    Kind <- FirstFlaky
    MaxTime = 1
    ClientOps = {"submit", "status", "retry", "remove"}
    ClientCrashes = FALSE
    IoFaults = FALSE
    AedtFaults = FALSE
    ForeignAedt = FALSE
    Worker = {w1, w2}
    TrayWorker = w1
    StatusFaults = FALSE
    Crashes = FALSE
    UserActions = {}
INVARIANTS
    OneStage
PROPERTIES
    LifecycleSpec
    AttemptsSpec
