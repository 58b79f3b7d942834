\* Two imports, so that a stripped session can be imported again; two
\* secrets, so that the ends can disagree.
CONSTANTS
    NonceMax = 2
    HandshakeKey2 = k2
    HandshakeTx2 = tx
    HandshakeBinding = longterm
    OtherBindings = {other}
    Psks = {p, q}
    ShortPsks = {short}
    CounterMax = 2
    MaxImports = 2
    MaxKeys = 3
    MaxChannels = 2
    MaxStores = 2
    MaxLoads = 2

SPECIFICATION Spec

CONSTRAINT Bounded

SYMMETRY PskSymmetry

INVARIANTS
    KeysAgreeIffImportsAgree
    SendKeysDistinct
    ChannelsPair
    MainKeyExpired
    BoundToHandshakeKeys
    StrippedForGood

CHECK_DEADLOCK FALSE
