SPECIFICATION Spec
CONSTANTS
    Letters <- MCLetters
    lowercased <- MCLowercased
    Unacceptable = {"_"}
    asciiIDNAIdentifier <- MCIDNA
    Addresses = {1, 2}
    Inputs <- MCInputs
INVARIANTS
    TypeOK
    Decision
    MatchIsSubstitution
CHECK_DEADLOCK FALSE
