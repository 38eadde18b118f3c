CONSTANTS
  MaxStarts = 2
  Interfaces <- MCInterfaces
SPECIFICATION Spec
INVARIANTS TypeOK HeldInOrder NothingHeld
PROPERTY DeviceGivenBack
