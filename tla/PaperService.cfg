CONSTANTS
    scheduler = scheduler
    manual = manual
    Procs = {scheduler, manual}
    Scheduler = scheduler
    MaxSaves = 1
    MaxFaults = 1
    MaxCommands = 1
SPECIFICATION FairServiceSpec
INVARIANTS ServiceTypeOK SafeUnlessRobbed PendingIsQueued BacklogBounded
PROPERTIES CrashedLockIsReclaimed TriggersAreServed
