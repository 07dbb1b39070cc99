CONSTANTS
    scheduler = scheduler
    manual = manual
    Procs = {scheduler}
    Scheduler = scheduler
    MaxSaves = 0
    MaxFaults = 1
    MaxCommands = 0
SPECIFICATION FairServiceSpec
PROPERTIES AbandonedLockIsReclaimed
