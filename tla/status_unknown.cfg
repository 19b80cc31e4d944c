\* get_task_status against a moving task.
SPECIFICATION Spec
CONSTANTS
    Task = {1, 2}
    Client = {c1}
    Kind <- LastFlaky
    MaxTime = 1
    ClientOps = {"status"}
    ClientCrashes = FALSE
    IoFaults = FALSE
    AedtFaults = FALSE
    ForeignAedt = FALSE
    Worker = {w1}
    TrayWorker = w1
    StatusFaults = FALSE
    Crashes = FALSE
    UserActions = {}
INVARIANTS
    StatusNeverUnknown
