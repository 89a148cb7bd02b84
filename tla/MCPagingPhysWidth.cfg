CONSTANTS
  IdxBits = 1
  M = 16
  AddrBits = 20
  RawVals <- MCRawValsSoftwareBits
  Roots <- MCRoots
  VAs <- MCVAs
  None = None
SPECIFICATION Spec
INVARIANT PhysWithinWidth
