SPECIFICATION Spec
CONSTANTS
    Letters <- MCLetters
    lowercased <- MCLowercased
    Unacceptable = {"_"}
    asciiIDNAIdentifier <- MCIDNA
    Addresses = {1, 2}
    Inputs <- MCInputs
INVARIANT CommonNameFallback
CHECK_DEADLOCK FALSE
