CONSTANTS
    K = 2
    N = 2
    DU = 10
    DV = 4
    Seeds = {1, 2}
    RejectionValues = {8, 9}
    Messages <- MCMessages
    G <- MCG
    SampleUniform <- MCSampleUniform
    SampleCbd <- MCSampleCbd
    MaxKeys = 2
    MaxEncaps = 2
SPECIFICATION Spec
INVARIANTS SecretsAgree FormsAgree OnlyWholeCiphertexts
CHECK_DEADLOCK FALSE
