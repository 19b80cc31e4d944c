\* Every file operation may fail, and Stop kills and restarts the worker anywhere.
SPECIFICATION Spec
CONSTANTS
    Task = {1}
    Client = {c1}
    Kind <- FirstFlaky
    MaxTime = 1
    ClientOps = {"status", "retry", "remove"}
    ClientCrashes = TRUE
    IoFaults = TRUE
    AedtFaults = FALSE
    ForeignAedt = TRUE
    Worker = {w1}
    TrayWorker = w1
    StatusFaults = FALSE
    Crashes = FALSE
    UserActions = {"stop"}
INVARIANTS
    AnswersStand
    NoTaskLost
PROPERTIES
    FoldersSpec
