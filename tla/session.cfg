\* One Java thread and one codec worker, with nested native calls and callbacks.
SPECIFICATION FairSpec
CONSTANTS
    JavaThreads = {j1}
    Workers = {w1}
    Exceptions = {e1, e2}
    Messages = {m1}
    NoException = NoException
    NoMessage = NoMessage
    DefaultMessage = DefaultMessage
    GarbledMessage = m1
    Nobody = Nobody
    MaxDepth = 3
    MaxReports = 3
INVARIANTS
    AttachedIffWorking
    ContextPointersValid
    SessionReportersAreWorkers
    MapEmptyWhenIdle
    WorkerExceptionDelivered
PROPERTIES
    ImplementsReport
    LockIsReleased
