\* Two threads wait, with a timeout and without, on sessions that other calls
\* run as well, while a guard condition is triggered and created anew.
SPECIFICATION FairSpec
CONSTANTS
    a = a
    b = b
    s1 = s1
    s2 = s2
    s3 = s3
    g1 = g1
    Threads = {t1, t2}
    Nobody = Nobody
    Entities = {a, b}
    Guards = {g1}
    Contexts <- ThreeContexts
    ContextOf <- OneEach
    WaitSets <- Waits
    OtherRuns = TRUE
    MaxWaits = 1
INVARIANTS
    TypeOK
    RunsItsSessions
    NoLostTrigger
    NoFalseTrigger
PROPERTIES
    WaitsReturn
    DataEndsWait
    GuardWaitReturns
CHECK_DEADLOCK FALSE
