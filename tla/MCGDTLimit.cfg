CONSTANTS
  SlotVals <- MCSlotVals
  Limits <- MCLimits
  Unreadable = Unreadable
  None = None
SPECIFICATION Spec
INVARIANT ReadsWithinLimit
