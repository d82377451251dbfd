CONSTANTS
    N = 8
    TorusQ = 70735
    LweQ = 512
    KsHalf = 2
    KsLevel = 4
    MessageP = 4
    Draw <- MCDraw
    Paths = {"ntt", "direct"}
    Moduli <- MCModuli
    Dh = 2
    Dl = 2
    ByteHalf = 32
    NttDepth = 3
    NttMod = 6113
    NttRoot = 3
    n = 2
    RingKey <- MCRingKey
    Calls = 2
SPECIFICATION Spec
INVARIANTS AccumulatorPhase DigitsApproximate ProductExact Decodes
CHECK_DEADLOCK FALSE
