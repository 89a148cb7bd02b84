CONSTANTS
  IdxBits = 1
  M = 16
  AddrBits = 20
  RawVals <- MCRawVals
  Mappings <- MCMappings
  Starts <- MCStarts
  Lens <- MCLens
  None = None
SPECIFICATION Spec
INVARIANT LinearBytesCorrect
