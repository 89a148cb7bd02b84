CONSTANTS
  NCpu = 2
  Cr3Vals <- MCCr3ValsFlags
  DtVals <- MCDtVals
  ArgVals <- MCArgVals
  Layouts <- MCLayouts
  Blank = Blank
  None = None
SPECIFICATION Spec
INVARIANT RootIsPML4Base
