\* One task's project over any number of attempts, killed anywhere.
SPECIFICATION Spec
CONSTANTS
    Name = {"E", "H", "J"}
    Setup = {"Setup1", "Setup2"}
    Orders <- SomeOrders
    FileOf <- OwnFiles
    Adopting = TRUE
INVARIANTS
    TypeOK
    ExportsNeverFailTheTask
    EveryEntryAnswered
    ExportsAsReported
    ReportedSolvedIsSaved
    SourcesStayTheClients
PROPERTIES
    ReadOnlyUntouched
    AttemptSpec
CHECK_DEADLOCK FALSE
