\* Every menu entry and a crash of the worker or of AEDT at every moment, no client.
\* Either task may be the older one; the second ends the batch it is in.
SPECIFICATION FairSpec
CONSTANTS
    Task = {1, 2}
    Client = {}
    Kind <- LastArray
    MaxTime = 2
    ClientOps = {}
    ClientCrashes = FALSE
    IoFaults = FALSE
    AedtFaults = TRUE
    ForeignAedt = FALSE
    Worker = {w1}
    TrayWorker = w1
    StatusFaults = FALSE
    Crashes = TRUE
    UserActions = {"release", "stop", "reset", "exit"}
INVARIANTS
    ReleasedLabelTruthful
    StatusNamesTheTask
PROPERTIES
    ReleaseKept
    LiveLockKept
    DeadLocksSeenTo
    ReleaseDetaches
    PendingServed
