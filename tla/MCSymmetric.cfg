CONSTANTS
    RATE = 3
    Radix = 16
    Chunks <- MCChunks
    Strings <- MCStrings
    Delims = {6, 31}
    Requests <- MCRequests
    None = None
    MaxFed = 7
    MaxOut = 15
    Handles = {h1, h2}
    MaxHashed = 5
    NoGenerator = NoGenerator
    Kinds = {"hacl", "evercrypt", "rust", "health", "rng"}
    RESEED_INTERVAL = 2
    MAX_GENERATE_BYTES = 4
    OUTLEN = 2
    Sizes = {1, 4, 5}
    Additional = {Empty, a, TooLong}
    Empty = Empty
    TooLong = TooLong
    Blocks <- MCBlocks
    Updated <- MCUpdated
    RCT_C = 3
    APT_W = 5
    APT_C = 2
    MaxSeeds = 2
    MaxGiven = 3
    MaxStream = 10
SPECIFICATION MCSpec
CONSTRAINT Bounded
SYMMETRY Symmetry
INVARIANTS NothingLost XofIsOneShot OriginsSeparate PaddingSeparates
           OutputsNeverRepeat ReseedBound FilledOrRefused HealthyStream
PROPERTY DigestIsOneShot
