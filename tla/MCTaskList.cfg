CONSTANTS
    Tasks = {t1, t2, t3, t4}
    Null = Null
SPECIFICATION Spec
INVARIANTS TypeOK ListSound RunsLiveTask
PROPERTIES KeepsPromise EveryTaskRuns
CHECK_DEADLOCK FALSE
