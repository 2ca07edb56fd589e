SPECIFICATION Spec
CONSTANTS
    w1 = w1
    w2 = w2
    None = None
    Workers = {w1, w2}
    KeyTtl = 2
    MaxKeyCall = 1
    MaxClock = 3
    MaxBuffers = 4
    MaxClears = 1
SYMMETRY Symmetry
INVARIANTS
    TypeOK
    EnvelopesCarryTheirKey
    DecryptionsSucceed
    KeysRotate
