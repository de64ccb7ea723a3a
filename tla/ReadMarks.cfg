SPECIFICATION TrackerSpec
CONSTANTS
    None = None
    f1 = f1
    f2 = f2
    c1 = c1
    c2 = c2
    Users = {u1}
    Forums = {f1, f2}
    Topics = {t1, t2, t3}
    Categories = {c1, c2}
    CategoryOf <- MCCategoryOf
    Boards <- MCBoards
    MaxTime = 3
    TrackerLength = 1
SYMMETRY MCSymmetry
VIEW MCView
CONSTRAINT MCTopicsBound
CHECK_DEADLOCK FALSE
INVARIANTS TrackerTypeOK RowsSinceCleared UnseenIsUnreadKept ReadForumHasNoUnread UnreadForumHasUnread
PROPERTIES VisitedIsRead LastVisitReadsForum
