\* Two events beyond the first, and three calls: a late answer, its abort and
\* the next call all fit.
CONSTANTS
  MaxEvents = 3
  MaxReads = 3
  AbortSynchronous = TRUE
SPECIFICATION Spec
INVARIANTS TypeOK FrameSafe BufferExclusive AwakeHasAnswer
PROPERTIES KeepsPromise ReadReturns
