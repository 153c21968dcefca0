\* The out-archive connected to an archive that is closed.
SPECIFICATION Spec
CONSTANTS
    NumFormats = 2
    Updatable = {1}
    MaxDepth = 1
INVARIANT ConnectedIsClosed
