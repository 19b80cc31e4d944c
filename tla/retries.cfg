\* A client asks and retries for ever; nobody is killed, status writes may fail.
SPECIFICATION FairSpec
CONSTANTS
    Task = {1, 2, 3}
    Client = {c1}
    Kind <- EveryFailure
    MaxTime = 1
    ClientOps = {"status", "retry"}
    ClientCrashes = FALSE
    IoFaults = FALSE
    AedtFaults = FALSE
    ForeignAedt = FALSE
    Worker = {w1}
    TrayWorker = w1
    StatusFaults = TRUE
    Crashes = FALSE
    UserActions = {}
INVARIANTS
    FailureExplained
PROPERTIES
    PendingServed
