CONSTANTS
  IdxBits = 1
  M = 16
  AddrBits = 20
  RawVals <- MCRawVals
  Roots <- MCRoots
  VAs <- MCVAs
  None = None
SPECIFICATION Spec
INVARIANTS
  TypeOK
  WalkChain
  TranslationCorrect
PROPERTY
  ImplementsResolve
