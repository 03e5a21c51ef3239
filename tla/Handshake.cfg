SPECIFICATION FairSpec
CONSTANTS
    MaxFragment = 2
    CertificateUnits = 3
    MaxKeyUpdates = 1
    Configs <- MCConfigs
INVARIANTS
    TypeOK
    NoSpuriousFailure
    Agreement
    StillReadable
    WriteObligations
    Authenticated
    AskedOnce
    NothingHeldBack
    NothingLeftOver
PROPERTY
    Terminates
CHECK_DEADLOCK FALSE
