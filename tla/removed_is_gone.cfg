\* remove_task against _finish_failure.
SPECIFICATION Spec
CONSTANTS
    Task = {1, 2}
    Client = {c1}
    Kind <- AllFlaky
    MaxTime = 1
    ClientOps = {"status", "remove"}
    ClientCrashes = FALSE
    IoFaults = FALSE
    AedtFaults = FALSE
    ForeignAedt = FALSE
    Worker = {w1}
    TrayWorker = w1
    StatusFaults = FALSE
    Crashes = FALSE
    UserActions = {}
INVARIANTS
    RemovedIsGone
