CONSTANTS
  MaxRecords = 3
  MaxFaults = 2
  PatchFiles <- MCPatchFiles
SPECIFICATION Spec
INVARIANTS TypeOK LeavesMfg AllOrNothing InStep ReadsInFile
PROPERTIES KeepsTransaction SetupEnds Patches
