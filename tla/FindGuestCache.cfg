SPECIFICATION Spec
CONSTANTS
    None = None
    Names = {g1}
    Guests = {g1}
    Groups = {member, banned, guest}
    Banned = banned
    Member = member
    GuestGroup = guest
    Editable = {guest}
    Rights = {isbanned, canpost}
    BannedRight = isbanned
    Requests = {r1}
    Workers = {w1}
    Deployments <- MCDeployments
    Timeout = 1
    MaxRequest = 1
    MaxTime = 1
INVARIANT GuestChangesSeen
