CONSTANTS
    NonceMax = 3
    Initiators = {i1, i2}
    Responders = {r}
    TheResponder = r
    InitiatorConfigs <- FaultInitiators
    ResponderConfigs <- FaultResponders
    Faults = {"corrupt", "misroute", "short", "misuse", "rng", "abort"}
    MaxEphemeral = 2
    MaxSeen = 3

SPECIFICATION Spec

SYMMETRY InitiatorSymmetry

VIEW ViewWithoutResult

INVARIANTS
    TypeOK
    SessionsAgree
    InitiatorConfirmed
    RegistrationAuthentic
    WorkingSuiteSet
    ReplayWindow
    HandshakeNoncesUnique

CHECK_DEADLOCK FALSE
