SPECIFICATION Spec
CONSTANTS
    own = own
    other = other
    Ids = {own, other}
    Pages <- MCUsersPage
    MaxAsks = 2
    MaxOthers = 1
CHECK_DEADLOCK FALSE
PROPERTY OnlyWhatWasAsked
