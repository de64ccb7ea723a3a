SPECIFICATION WritesSpec
CONSTANTS
    None = None
    f1 = f1
    f2 = f2
    c1 = c1
    Users = {u1, u2}
    Forums = {f1, f2}
    Topics = {t1, t2}
    Categories = {c1}
    CategoryOf <- MCCategoryOf
    Boards <- MCBoards
    MaxTime = 3
    Slots = {a, b}
    MaxCrashes = 1
    MaxRequests = 3
CHECK_DEADLOCK FALSE
INVARIANTS TopicPointersLive OverlapKeepsNewest LastColumnsFit NeverAhead OnlyCrashLeavesHalf CrashKeepsCounts
PROPERTIES EveryRequestEnds OneWorkerImplements
