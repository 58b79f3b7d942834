CONSTANTS
    NonceMax = 2
    Channels = {0, 1}
    Payloads = {p, q}
    MaxStreamLen = 1
SPECIFICATION MCSpec
INVARIANTS NonceNeverReused LostWriteStallsStream ReceiverExpiresLast
PROPERTIES DeliversInOrder EventuallyDelivered
