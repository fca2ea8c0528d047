SPECIFICATION Spec
CONSTANTS
  Rows = 4
  Blank = 0
  Garbage = 9
  Writes <- MCWrites
  LossInMove = TRUE
  Unguarded = FALSE
PROPERTY PreviousDataKept
