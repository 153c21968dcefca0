\* Two folders, of which the second is encrypted, and a directory; three failures
\* of any kind in each extraction.
SPECIFICATION FairSpec
CONSTANTS
    Layout <- Solid
    Unchecked = {2, 4, 5}
    Encrypted = {2}
    Requests <- Lists
    Faults <- KindsOfFault
    MaxFaults = 3
    NoFolder = 0
INVARIANTS
    TypeOK
    OkMeansStored
    ReturnedMeansExtracted
    CallbacksAgree
    SlowResult
PROPERTIES
    CallbackProtocol
    ExtractionEnds
