SPECIFICATION Spec
CONSTANTS
    None = None
    f1 = f1
    f2 = f2
    c1 = c1
    c2 = c2
    Users = {u1}
    Forums = {f1, f2}
    Topics = {t1, t2}
    Categories = {c1, c2}
    CategoryOf <- MCCategoryOf
    Boards <- MCAnyBoard
    MaxTime = 3
SYMMETRY MCSymmetry
CHECK_DEADLOCK FALSE
INVARIANTS TypeOK NoOrphans FirstPostMirrorsTopic LastPostInTopic ForumNotForgotten
