CONSTANTS
    NonceMax = 3
    Initiators = {i1}
    Responders = {r}
    TheResponder = r
    InitiatorConfigs <- MixedInitiators
    ResponderConfigs <- FaultResponders
    Faults = {}
    MaxEphemeral = 1
    MaxSeen = 1

SPECIFICATION Spec

PROPERTY RefusesOnlyForPqKem

CHECK_DEADLOCK FALSE
