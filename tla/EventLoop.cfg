\* One event loop under two callers that hand over three functors.
CONSTANTS
    t1 = t1
    t2 = t2
    f1 = f1
    f2 = f2
    f3 = f3
    c1 = c1
    Callers = {t1, t2}
    Functors = {f1, f2, f3}
    Channels = {c1}
    WakeupChannel = wakeupChannel
    NoChannel = noChannel
SPECIFICATION FairSpec
INVARIANTS TypeOK NoSleepOnWork WakeupReadSucceeds
PROPERTIES QuitEndsLoop ImplementsExecutor
CHECK_DEADLOCK FALSE
