SPECIFICATION Spec
CONSTANTS
    own = own
    other = other
    Ids = {own, other}
    Pages <- MCPages
    MaxAsks = 2
    MaxOthers = 1
CHECK_DEADLOCK FALSE
INVARIANTS PageTypeOK RowsVanishOnlyWhenGone PageCatchesUp
PROPERTIES NothingSentTwice YesDoesWhatIsAsked MeantOrAlreadyDone EveryoneTold
