\* One call and one event are enough to lose a wakeup.
CONSTANTS
  MaxEvents = 1
  MaxReads = 1
  AbortSynchronous = TRUE
SPECIFICATION Spec
INVARIANT TimeoutMeansLate
