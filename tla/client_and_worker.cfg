\* One worker, one client and "Stop current run".
SPECIFICATION Spec
CONSTANTS
    Task = {1, 2}
    Client = {c1}
    Kind <- LastFlaky
    MaxTime = 1
    ClientOps = {"submit", "status", "read", "retry", "remove"}
    ClientCrashes = FALSE
    IoFaults = FALSE
    AedtFaults = FALSE
    ForeignAedt = FALSE
    Worker = {w1}
    TrayWorker = w1
    StatusFaults = FALSE
    Crashes = FALSE
    UserActions = {"stop"}
INVARIANTS
    TypeOK
    InProgressIsWorkedOn
    DoneMeansSuccess
    BundleBeforeFile
