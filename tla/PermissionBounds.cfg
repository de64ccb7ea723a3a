SPECIFICATION Spec
CONSTANTS
    None = None
    Names = {n1}
    Guests = {}
    Groups = {member, banned}
    Banned = banned
    Member = member
    GuestGroup = banned
    Editable = {member}
    Rights = {isbanned}
    BannedRight = isbanned
    Requests = {r1, r2}
    Workers = {w1, w2}
    Deployments <- MCDeployments
    Timeout = 1
    MaxRequest = 1
    MaxTime = 3
SYMMETRY MCSymmetry
VIEW MCView
INVARIANTS TypeOK NoLateGrant OwnChangesSeen
