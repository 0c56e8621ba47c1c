\* One agent, two runs and two cleanups in any order, or two agents and one run;
\* agents are reached through Routes.
CONSTANTS
    Sizes = {1, 2}
    InCluster = FALSE
    MaxRetries = 2
    TaskStates = {"TASK_STATE_FAILED"}
    Cleaners = {k1}
    k1 = k1
    MaxRuns <- Runs
    MaxCleanups <- Cleanups
    MaxEdits = 1
SPECIFICATION FairSpec
CHECK_DEADLOCK FALSE
INVARIANTS OneRunAtATime CleanupLeavesNothing DoneMeansAnswered EditsSurvive
PROPERTY EveryRunEnds
