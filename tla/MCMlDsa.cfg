CONSTANTS
    Gamma1Exponent = 17
    Gamma2 = 95232
    Beta = 78
    MaxOnesInHint = 2
    Rows = 2
    Columns = 5
    N = 3
    Bound = 2
    SeparatorMax = 15
    CONTEXT_MAX_LEN = 1
    Matrices <- MCMatrices
    Secrets <- MCSecrets
    Masks <- MCMasks
    Challenges = {1, 39}
    Contexts <- MCContexts
    Messages <- MCMessages
    PreHashes <- MCPreHashes
    Oid <- MCOid
    Randomness = {0}
    MaxStreams = 1
    None = None
SPECIFICATION FairSpec
INVARIANTS SignaturesVerify VerifiesOnlyAsSigned HintsCanonical MasksNeverReused
PROPERTY SigningEnds
CHECK_DEADLOCK FALSE
