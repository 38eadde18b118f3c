CONSTANTS
  MaxItems = 2
  Inputs <- MCInputs
SPECIFICATION Spec
INVARIANTS TypeOK StaysInside LoadedWhole LooksRight
PROPERTY WalkEnds
