\* Lengths on both sides of the alignment; runs of one, two and three pieces.
CONSTANTS
  MaxCommands = 3
  ParamLengths = {0, 1, 6, 249, 253, 255}
  Files <- MCFiles
SPECIFICATION Spec
INVARIANTS TypeOK ScanInStep SendInFile PayloadInOrder PayloadComplete
PROPERTIES PiecesFit Ends
