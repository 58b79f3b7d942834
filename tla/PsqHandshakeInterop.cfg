CONSTANTS
    NonceMax = 3
    Initiators = {i1}
    Responders = {r}
    TheResponder = r
    InitiatorConfigs <- InteropInitiators
    ResponderConfigs <- InteropResponders
    Faults = {}
    MaxEphemeral = 1
    MaxSeen = 1

SPECIFICATION FairSpec

INVARIANTS
    OnlyCompatibleFinish

PROPERTY CompatibleFinish

CHECK_DEADLOCK FALSE
