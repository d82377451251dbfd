CONSTANTS
    HalfB = 2
    MaxL = 3
    Weight <- MCWeight
    UnrollBelow = 3
    OutHalf = 4
    Rows <- MCRows
SPECIFICATION Spec
INVARIANTS DigitsBalanced Recomposes MatchesDigits
