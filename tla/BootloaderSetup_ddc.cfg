\* Two fragments, one DDC entry and one fault are enough.
CONSTANTS
  Fragments = 2
  MaxDdc = 1
  MaxFaults = 1
  MaxSessions = 1
SPECIFICATION Spec
INVARIANT DdcNeverFails
