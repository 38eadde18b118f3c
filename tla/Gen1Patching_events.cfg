CONSTANTS
  MaxRecords = 2
  MaxFaults = 0
  PatchFiles <- MCPatchFiles
SPECIFICATION Spec
INVARIANT RefusedNotActivated
