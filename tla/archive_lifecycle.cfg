\* Three codecs, one of them without update; three calls deep.
SPECIFICATION FairSpec
CONSTANTS
    NumFormats = 3
    Updatable = {1, 2}
    MaxDepth = 3
INVARIANTS
    TypeOK
    CountsAgree
    NothingLeft
    HandedOutIsOpen
    CodecsStartAtZero
PROPERTIES
    DestructorsHaveSession
    FailedCallbackFailsOpen
    NativeCallsReturn
