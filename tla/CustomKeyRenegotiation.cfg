SPECIFICATION Spec
CONSTANTS
    MaxFragment = 2
    CertificateUnits = 3
    MaxKeyUpdates = 1
    Configs <- CustomKeyRenegotiation
INVARIANT
    PostConnectionAuthentication
CHECK_DEADLOCK FALSE
