CONSTANTS
    c1 = c1  c2 = c2  t1 = t1  t2 = t2  t3 = t3
    NoTask = NoTask
    ThreadNum = 2
    Callers <- OneCaller
    Tasks <- TwoTasks
SPECIFICATION FairSpec
PROPERTIES AddedTasksRun
CHECK_DEADLOCK FALSE
