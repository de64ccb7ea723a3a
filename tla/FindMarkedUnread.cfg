SPECIFICATION TrackerSpec
CONSTANTS
    None = None
    f1 = f1
    f2 = f2
    c1 = c1
    c2 = c2
    Users = {u1}
    Forums = {f1, f2}
    Topics = {t1, t2}
    Categories = {c1, c2}
    CategoryOf <- MCCategoryOf
    Boards <- MCMovingBoard
    MaxTime = 3
    TrackerLength = 3
CHECK_DEADLOCK FALSE
PROPERTY MarkedIsRead
