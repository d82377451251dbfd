CONSTANTS
    N = 8
    TorusQ = 32768
    LweQ = 1024
    NttQ = 786433
    RadixHalf = 4
    L = 5
    DigitHalf = 16
    KsHalf = 2
    KsLevel = 5
    MessageP = 4
    Draw <- MCDraw
    Cases <- MCCases
    Size <- MCSize
    LApprox = 3
    Level = 3
    RingKey <- MCRingKey
    Calls = 2
SPECIFICATION Spec
INVARIANTS AccumulatorPhase Decodes RescaleKeepsPhase SwitchKeepsPhase
CHECK_DEADLOCK FALSE
