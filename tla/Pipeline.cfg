SPECIFICATION Spec
CONSTANTS
  Variants = {"sweep", "noFirst", "altInit", "pipe", "pipeInit"}
  N = 4
  Level = 3
  SweepUnits = 2
  Unset = Unset
INVARIANTS NoRaces
PROPERTY ImplementsRotation
PROPERTY RotationEnds
CHECK_DEADLOCK FALSE
