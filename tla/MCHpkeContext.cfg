CONSTANTS
    Instances = {i1, i2}
    Configs <- MCConfigs
    SetupInputs <- MCSetupInputs
    alice = alice
    bob = bob
    psk = psk
    id = id
    x = x
    y = y
    Aads = {ad}
    Plaintexts = {p, q}
    SeqMax = 2
    NonceLimit = 3
    Short = Short
    None = None
    MaxSeeds = 2
    MaxSenders = 2
    MaxReceivers = 1
    MaxWire = 3
SPECIFICATION Spec
SYMMETRY Symmetry
VIEW View
INVARIANTS SealsUnderFreshNonces OpensWhatOneSenderSealed
CHECK_DEADLOCK FALSE
