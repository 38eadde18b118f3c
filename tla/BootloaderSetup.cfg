CONSTANTS
  Fragments = 2
  MaxDdc = 1
  MaxFaults = 2
  MaxSessions = 2
SPECIFICATION Spec
INVARIANTS TypeOK SuccessMeansOperational DownloadToBootloader BootVerified ParamsKnown InStep
PROPERTIES SetupEnds Converges
