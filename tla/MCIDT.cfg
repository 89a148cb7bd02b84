CONSTANTS
  GateRaws <- MCGateRaws
  Limits <- MCLimits
  Unreadable = Unreadable
  None = None
SPECIFICATION Spec
INVARIANTS TypeOK RunsCoverTable
