SPECIFICATION Spec
CONSTANTS
    Threads = {1, 2, 3}
    Pages = {1, 2}
INVARIANT DeadlockNeedsNesting
PROPERTY EveryoneFinishes
CHECK_DEADLOCK FALSE
