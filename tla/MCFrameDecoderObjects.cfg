SPECIFICATION FairSpec
CONSTANTS
    Messages <- MCMessages
    MaxSent = 2
PROPERTY
    ObjectsHandled
CHECK_DEADLOCK FALSE
