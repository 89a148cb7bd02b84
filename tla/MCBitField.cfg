CONSTANTS
  Values <- MCValues
  Starts <- MCStarts
  Widths <- MCWidths
  None = None
SPECIFICATION Spec
INVARIANT BitsCorrect
