SPECIFICATION FairSpec
CONSTANTS
    Messages <- MCMessages
    MaxSent = 3
INVARIANTS
    TypeOK
    HandledInOrder
    KeepsItsPlace
    NothingLeftBehind
PROPERTY
    AllHandled
CHECK_DEADLOCK FALSE
