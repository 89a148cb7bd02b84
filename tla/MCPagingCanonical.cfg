CONSTANTS
  IdxBits = 1
  M = 16
  AddrBits = 20
  RawVals <- MCRawVals
  Roots <- MCRoots
  VAs <- MCVAsNonCanonical
  None = None
SPECIFICATION Spec
INVARIANT AcceptedCanonical
