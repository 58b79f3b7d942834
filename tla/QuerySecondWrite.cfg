CONSTANTS
    NonceMax = 3
    Initiators = {i1}
    Responders = {r}
    TheResponder = r
    InitiatorConfigs <- FaultInitiators
    ResponderConfigs <- FaultResponders
    Faults = {"misuse"}
    MaxEphemeral = 1
    MaxSeen = 1

SPECIFICATION Spec

INVARIANT NeverPanics

CHECK_DEADLOCK FALSE
